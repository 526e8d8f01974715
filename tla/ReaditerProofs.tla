--------------------------- MODULE ReaditerProofs ---------------------------
(***************************************************************************)
(* The safety properties of Readiter for any set of processes, any         *)
(* addresses, any page size above 3 and any pages.                         *)
(***************************************************************************)
EXTENDS Readiter, NaturalsInduction, WellFoundedInduction, TLAPS

\* The locals of a running probe account for the numbers read so far.
LoopInv ==
  \A p \in Procs : pc[p] = "loop" =>
    /\ loop[p].elems <= Elems
    /\ loop[p].i = 3 * loop[p].elems
    /\ loop[p].sum = PrefixSum(page[p])[loop[p].elems]
    /\ \A k \in 0..(loop[p].elems - 1) : ParsesAt(page[p], k)

\* A probe that has published has parsed the whole of its page.
MarkInv == \A p \in Procs : pc[p] = "mark" => AllParse(page[p])

\* The registered address is the owner's; the probe of a process with
\* another address never gets past the comparison.
FilterInv ==
  /\ my_read_map \in {Null, Buf[Owner]}
  /\ \A p \in Procs : Buf[p] \notin {Null, Buf[Owner]} =>
       /\ pc[p] \in {"user", "copyout", "native"}
       /\ pc[p] = "user" /\ ret[p] = "full" => ubuf[p] = "data"

\* With addresses unshared only the owner's probe publishes, and what it
\* published stays until main has looked it up.
OwnerFacts ==
  /\ pc[Owner] # "user" => main = "reading"
  /\ main = "printed" => avg = result_map
  /\ pc[Owner] = "mark" => result_map = Mean(page[Owner])
  /\ pc[Owner] = "leave" /\ AllParse(page[Owner])
       => result_map = Mean(page[Owner])
  /\ ubuf[Owner] = "42"
       => AllParse(page[Owner]) /\ result_map = Mean(page[Owner])
  /\ pc[Owner] = "user" /\ ret[Owner] = "full" /\ AllParse(page[Owner])
       => ubuf[Owner] = "data" \/ result_map = Mean(page[Owner])

OwnerInv == Unshared => OwnerFacts

IInv ==
  /\ TypeOK
  /\ LoopInv
  /\ MarkInv
  /\ FilterInv
  /\ ResultIsAMean
  /\ OwnerInv

-----------------------------------------------------------------------------
(* The helpers *)

\* The loop of bpf_copyout runs at least once, so sum / elems is defined.
LEMMA ElemsPositive ==
  Elems \in Nat /\ Elems > 0 /\ 3 * Elems >= UBUFFSIZE - 3
                /\ 3 * (Elems - 1) < UBUFFSIZE - 3
  BY SizeAssumption, Z3 DEF Elems

\* bpf_strtoul on two bytes stores a natural number.
LEMMA NumberType ==
  ASSUME NEW a \in Byte, NEW b \in Byte
  PROVE  Number(a, b) \in Nat
  BY DEF Number, Digit, IsDigit, IsSpace, Byte

\* A set of natural numbers that is not empty has a least element.
LEMMA LeastNumber ==
  ASSUME NEW S, S \subseteq Nat, S # {}
  PROVE  \E n \in S : \A m \in S : n <= m
  <1> DEFINE R == {ss \in Nat \X Nat : ss[1] < ss[2]}
  <1>1. \A m, n \in Nat : m < n => <<m, n>> \in R
    BY SMT
  <1>2. IsWellFoundedOn(R, Nat)
    BY NatLessThanWellFounded, Zenon DEF OpToRel
  <1> HIDE DEF R
  <1>3. PICK n \in S : \A m \in S : ~(<<m, n>> \in R)
    BY <1>2, WFMin, Zenon
  <1>4. \A m \in S : m \in Nat /\ n \in Nat /\ ~(m < n)
    BY <1>1, <1>3, Zenon
  <1>5. QED
    BY <1>3, <1>4, SMT

\* Sums of any length exist: the least length without one would have a
\* predecessor with one.
LEMMA SumsExist ==
  ASSUME NEW pg, NEW n \in Nat
  PROVE  \E S : S = [k \in 0..n |-> IF k = 0 THEN 0 ELSE S[k - 1] + NumberAt(pg, k - 1)]
  <1> DEFINE Turn(S, k) == IF k = 0 THEN 0 ELSE S[k - 1] + NumberAt(pg, k - 1)
             Bad == {m \in Nat : ~ \E S : S = [k \in 0..m |-> Turn(S, k)]}
  <1> SUFFICES ASSUME n \in Bad PROVE FALSE
    BY Zenon
  <1>1. PICK m \in Bad : \A x \in Bad : m <= x
    <2>1. Bad \subseteq Nat /\ Bad # {}
      BY Zenon
    <2> HIDE DEF Bad
    <2>2. QED
      BY <2>1, LeastNumber, Zenon
  <1>2. m \in Nat
    BY <1>1, Zenon
  <1>3. m # 0
    <2> SUFFICES ASSUME m = 0 PROVE FALSE
      OBVIOUS
    <2> DEFINE S == [k \in 0..0 |-> 0]
    <2>1. \A k \in 0..0 : k = 0
      BY SMT
    <2>2. S = [k \in 0..0 |-> Turn(S, k)]
      BY <2>1, Zenon
    <2>3. QED
      BY <1>1, <2>2, Zenon
  <1>4. m - 1 \in Nat /\ ~(m <= m - 1)
    BY <1>2, <1>3, SMT
  <1>5. PICK S : S = [k \in 0..(m - 1) |-> Turn(S, k)]
    BY <1>1, <1>4, Zenon
  <1> DEFINE T == [k \in 0..m |-> Turn(S, k)]
  <1>6. \A k \in 0..m : k # 0 => k - 1 \in 0..(m - 1) /\ k - 1 \in 0..m
    BY <1>2, SMT
  <1>7. \A k \in 0..(m - 1) : S[k] = Turn(S, k)
    BY <1>5, Zenon
  <1>8. \A k \in 0..m : T[k] = Turn(S, k)
    BY Zenon
  <1> HIDE DEF T
  <1>9. \A k \in 0..m : Turn(T, k) = Turn(S, k)
    BY <1>6, <1>7, <1>8, Zenon
  <1>10. T = [k \in 0..m |-> Turn(T, k)]
    BY <1>9, Zenon DEF T
  <1>11. QED
    BY <1>1, <1>10, Zenon

\* The recurrence of the sum of a page's numbers, and that it is a number.
LEMMA PrefixFacts ==
  \A pg \in Pages :
    /\ PrefixSum(pg) \in [0..Elems -> Nat]
    /\ PrefixSum(pg)[0] = 0
    /\ \A k \in 0..(Elems - 1) :
         PrefixSum(pg)[k + 1] = PrefixSum(pg)[k] + NumberAt(pg, k)
  <1> TAKE pg \in Pages
  <1> DEFINE S == PrefixSum(pg)
  <1>1. S = [k \in 0..Elems |-> IF k = 0 THEN 0 ELSE S[k - 1] + NumberAt(pg, k - 1)]
    <2>1. Elems \in Nat
      BY ElemsPositive
    <2>2. QED
      BY <2>1, SumsExist, Zenon DEF PrefixSum
  <1> HIDE DEF S
  <1>2. \A k \in 0..Elems : S[k] = IF k = 0 THEN 0 ELSE S[k - 1] + NumberAt(pg, k - 1)
    BY <1>1, Zenon
  <1>3. 0 \in 0..Elems /\ S[0] = 0
    <2>1. 0 \in 0..Elems
      BY ElemsPositive
    <2>2. QED
      BY <1>2, <2>1, Zenon
  <1>4. \A k \in 0..(Elems - 1) : S[k + 1] = S[k] + NumberAt(pg, k)
    <2> TAKE k \in 0..(Elems - 1)
    <2>1. k + 1 \in 0..Elems /\ k + 1 # 0 /\ (k + 1) - 1 = k
      BY ElemsPositive
    <2>2. QED
      BY <1>2, <2>1, Zenon
  <1>5. \A k \in 0..(Elems - 1) : NumberAt(pg, k) \in Nat
    <2> TAKE k \in 0..(Elems - 1)
    <2>1. 3 * k \in 0..(UBUFFSIZE - 1) /\ 3 * k + 1 \in 0..(UBUFFSIZE - 1)
      BY ElemsPositive, SizeAssumption
    <2>2. pg[3 * k] \in Byte /\ pg[3 * k + 1] \in Byte
      BY <2>1, PagesAssumption, Zenon
    <2>3. QED
      BY <2>2, NumberType, Zenon DEF NumberAt
  <1>6. \A k \in 0..Elems : S[k] \in Nat
    <2> DEFINE Bad == {k \in 0..Elems : S[k] \notin Nat}
    <2> SUFFICES ASSUME Bad # {} PROVE FALSE
      BY Zenon
    <2>1. PICK k \in Bad : \A x \in Bad : k <= x
      <3>1. Bad \subseteq Nat
        BY ElemsPositive
      <3> HIDE DEF Bad
      <3>2. QED
        BY <3>1, LeastNumber, Zenon
    <2>2. k \in 0..Elems /\ S[k] \notin Nat
      BY <2>1, Zenon
    <2>3. k # 0
      BY <1>3, <2>2
    <2>4. k - 1 \in 0..(Elems - 1) /\ k - 1 \in 0..Elems /\ ~(k <= k - 1) /\ (k - 1) + 1 = k
      BY <2>2, <2>3, ElemsPositive
    <2>5. S[k - 1] \in Nat
      BY <2>1, <2>4, Zenon
    <2>6. S[k] = S[k - 1] + NumberAt(pg, k - 1) /\ NumberAt(pg, k - 1) \in Nat
      <3>1. S[(k - 1) + 1] = S[k - 1] + NumberAt(pg, k - 1) /\ NumberAt(pg, k - 1) \in Nat
        BY <1>4, <1>5, <2>4, Zenon
      <3>2. QED
        BY <2>4, <3>1, Zenon
    <2>7. QED
      BY <2>2, <2>5, <2>6
  <1>7. S \in [0..Elems -> Nat]
    BY <1>1, <1>6
  <1>8. QED
    BY <1>3, <1>4, <1>7, Zenon DEF S

\* The average of a page is a natural number.
LEMMA MeanType ==
  ASSUME NEW pg \in Pages
  PROVE  Mean(pg) \in Nat
  <1>1. PrefixSum(pg)[Elems] \in Nat
    BY ElemsPositive, PrefixFacts
  <1>2. QED
    BY <1>1, ElemsPositive, Z3 DEF Mean

\* A probe that leaves the loop to publish has parsed every number of its
\* page, and what it publishes is their average.
LEMMA PublishesMean ==
  ASSUME TypeOK, LoopInv, NEW p \in Procs, Publish(p)
  PROVE  AllParse(page[p]) /\ result_map' = Mean(page[p])
  <1>1. /\ loop[p].elems <= Elems
        /\ loop[p].i = 3 * loop[p].elems
        /\ ~(loop[p].i < UBUFFSIZE - 3)
        /\ loop[p].sum = PrefixSum(page[p])[loop[p].elems]
        /\ \A k \in 0..(loop[p].elems - 1) : ParsesAt(page[p], k)
    BY DEF Publish, InLoop, LoopInv
  <1>2. loop[p].i \in Nat /\ loop[p].elems \in Nat
    BY DEF TypeOK
  <1>3. loop[p].elems = Elems
    BY <1>1, <1>2, ElemsPositive, SizeAssumption
  <1>4. QED
    BY <1>1, <1>3 DEF AllParse, Mean, Publish

\* The two bytes a turn of the loop looks at are those of the page's number
\* elems, and lie within the page.
LEMMA LoopBytes ==
  ASSUME TypeOK, LoopInv, NEW p \in Procs, InLoop(p)
  PROVE  /\ loop[p].elems \in 0..(Elems - 1)
         /\ loop[p].i = 3 * loop[p].elems
         /\ page[p][loop[p].i] \in Byte
         /\ page[p][loop[p].i + 1] \in Byte
  <1>1. /\ loop[p].elems <= Elems
        /\ loop[p].i = 3 * loop[p].elems
        /\ loop[p].i < UBUFFSIZE - 3
    BY DEF InLoop, LoopInv
  <1>2. loop[p].i \in Nat /\ loop[p].elems \in Nat
    BY DEF TypeOK
  <1>3. page[p] \in [0..(UBUFFSIZE - 1) -> Byte]
    BY PagesAssumption DEF TypeOK
  <1>4. /\ loop[p].i \in 0..(UBUFFSIZE - 1)
        /\ loop[p].i + 1 \in 0..(UBUFFSIZE - 1)
    BY <1>1, <1>2, SizeAssumption
  <1>5. loop[p].elems < Elems
    BY <1>1, <1>2, ElemsPositive, SizeAssumption
  <1>6. loop[p].elems \in 0..(Elems - 1)
    BY <1>2, <1>5, ElemsPositive
  <1>7. QED
    BY <1>1, <1>3, <1>4, <1>6

-----------------------------------------------------------------------------
(* Type correctness *)

\* Every step of main, of a probe and of the kernel keeps each variable in
\* its type; for the probe this needs that the loop indexes stay in the page.
LEMMA TypeStep == IInv /\ [Next]_vars => TypeOK'
  <1> SUFFICES ASSUME IInv, [Next]_vars PROVE TypeOK'
    OBVIOUS
  <1> USE DEF IInv, TypeOK
  <1>1. CASE Main
    <2>1. CASE Load
      BY <2>1 DEF Load
    <2>2. CASE Register
      <3>1. Buf[Owner] \in Nat
        BY BufAssumption, OwnerAssumption
      <3>2. QED
        BY <2>2, <3>1 DEF Register
    <2>3. CASE Fail
      BY <2>3 DEF Fail
    <2>4. CASE Lookup
      BY <2>4 DEF Lookup
    <2>5. CASE Exit
      BY <2>5 DEF Exit
    <2>6. QED
      BY <1>1, <2>1, <2>2, <2>3, <2>4, <2>5 DEF Main
  <1>2. ASSUME NEW p \in Procs, Read(p) PROVE TypeOK'
    BY <1>2 DEF Read, MayRead, EnterRead
  <1>3. ASSUME NEW p \in Procs, ReadNothing(p) PROVE TypeOK'
    BY <1>3 DEF ReadNothing, MayRead, EnterRead
  <1>4. ASSUME NEW p \in Procs, PassBy(p) PROVE TypeOK'
    BY <1>4 DEF PassBy, userVars
  <1>5. ASSUME NEW p \in Procs, Override(p) PROVE TypeOK'
    BY <1>5 DEF Override, Fresh, userVars
  <1>6. ASSUME NEW p \in Procs, Iterate(p) PROVE TypeOK'
    <2> DEFINE n == Number(page[p][loop[p].i], page[p][loop[p].i + 1])
    <2>1. n \in Nat
      <3> HIDE DEF TypeOK
      <3>1. page[p][loop[p].i] \in Byte /\ page[p][loop[p].i + 1] \in Byte
        BY <1>6, LoopBytes DEF Iterate
      <3>2. QED
        BY <3>1, NumberType
    <2>2. loop[p] \in [i : Nat, sum : Nat, elems : Nat]
      OBVIOUS
    <2>3. /\ loop[p].i + 3 \in Nat
          /\ loop[p].sum + n \in Nat
          /\ loop[p].elems + 1 \in Nat
      BY <2>1, <2>2
    <2>4. loop' = [loop EXCEPT ![p] = [i     |-> loop[p].i + 3,
                                       sum   |-> loop[p].sum + n,
                                       elems |-> loop[p].elems + 1]]
      BY <1>6 DEF Iterate
    <2> HIDE DEF n
    <2>5. loop' \in [Procs -> [i : Nat, sum : Nat, elems : Nat]]
      BY <2>3, <2>4
    <2>6. QED
      BY <1>6, <2>5 DEF Iterate, userVars
  <1>7. ASSUME NEW p \in Procs, GiveUp(p) PROVE TypeOK'
    BY <1>7 DEF GiveUp, userVars
  <1>8. ASSUME NEW p \in Procs, Publish(p) PROVE TypeOK'
    <2>1. result_map' \in Nat
      BY <1>8, PublishesMean, MeanType
    <2>2. QED
      BY <1>8, <2>1 DEF Publish, userVars
  <1>9. ASSUME NEW p \in Procs, Mark(p) PROVE TypeOK'
    BY <1>9 DEF Mark, userVars
  <1>10. ASSUME NEW p \in Procs, Overridden(p) PROVE TypeOK'
    BY <1>10 DEF Overridden, userVars
  <1>11. ASSUME NEW p \in Procs, OverrideLost(p) PROVE TypeOK'
    BY <1>11 DEF OverrideLost, userVars
  <1>12. ASSUME NEW p \in Procs, NativeCopy(p) PROVE TypeOK'
    BY <1>12 DEF NativeCopy, userVars
  <1>13. CASE UNCHANGED vars
    BY <1>13 DEF vars
  <1>14. QED
    BY <1>1, <1>2, <1>3, <1>4, <1>5, <1>6, <1>7, <1>8, <1>9, <1>10, <1>11,
       <1>12, <1>13 DEF Next, Kernel

-----------------------------------------------------------------------------
(* The inductive invariant *)

\* A turn of the loop adds the next number of the page; no other step
\* touches the locals of a running probe.
LEMMA LoopStep == IInv /\ [Next]_vars => LoopInv'
  <1> SUFFICES ASSUME IInv, [Next]_vars,
                      NEW r \in Procs, pc'[r] = "loop"
               PROVE  /\ loop'[r].elems <= Elems
                      /\ loop'[r].i = 3 * loop'[r].elems
                      /\ loop'[r].sum = PrefixSum(page'[r])[loop'[r].elems]
                      /\ \A k \in 0..(loop'[r].elems - 1) : ParsesAt(page'[r], k)
    BY DEF LoopInv
  <1> DEFINE Goal == /\ loop'[r].elems <= Elems
                     /\ loop'[r].i = 3 * loop'[r].elems
                     /\ loop'[r].sum = PrefixSum(page'[r])[loop'[r].elems]
                     /\ \A k \in 0..(loop'[r].elems - 1) : ParsesAt(page'[r], k)
  <1>0. TypeOK /\ LoopInv
    BY DEF IInv
  <1>1. ASSUME pc[r] = "loop", loop'[r] = loop[r], page'[r] = page[r]
        PROVE  Goal
    BY <1>0, <1>1 DEF LoopInv
  <1>2. CASE Main
    BY <1>1, <1>2 DEF Main, Load, Register, Fail, Lookup, Exit
  <1>3. ASSUME NEW p \in Procs, Read(p) PROVE Goal
    BY <1>0, <1>1, <1>3 DEF Read, MayRead, TypeOK
  <1>4. ASSUME NEW p \in Procs, ReadNothing(p) PROVE Goal
    BY <1>1, <1>4 DEF ReadNothing
  <1>5. ASSUME NEW p \in Procs, PassBy(p) PROVE Goal
    BY <1>0, <1>1, <1>5 DEF PassBy, TypeOK
  <1>6. ASSUME NEW p \in Procs, Override(p) PROVE Goal
    <2>1. CASE p = r
      <3>1. loop'[r] = Fresh /\ page'[r] \in Pages
        BY <1>0, <1>6, <2>1 DEF Override, TypeOK
      <3>2. PrefixSum(page'[r])[0] = 0
        BY <3>1, PrefixFacts
      <3>3. QED
        BY <3>1, <3>2, ElemsPositive DEF Fresh
    <2>2. CASE p # r
      BY <1>0, <1>1, <1>6, <2>2 DEF Override, TypeOK
    <2>3. QED
      BY <2>1, <2>2
  <1>7. ASSUME NEW p \in Procs, Iterate(p) PROVE Goal
    <2>1. CASE p = r
      <3> DEFINE e == loop[r].elems
                 n == Number(page[r][loop[r].i], page[r][loop[r].i + 1])
      <3>1. e \in 0..(Elems - 1) /\ loop[r].i = 3 * e
        BY <1>0, <1>7, <2>1, LoopBytes DEF Iterate
      <3>2. /\ loop'[r].i = loop[r].i + 3
            /\ loop'[r].sum = loop[r].sum + n
            /\ loop'[r].elems = e + 1
            /\ page'[r] = page[r]
        BY <1>0, <1>7, <2>1 DEF Iterate, TypeOK
      <3>3. ParsesAt(page[r], e) /\ n = NumberAt(page[r], e)
        BY <1>7, <2>1, <3>1 DEF Iterate, ParsesAt, NumberAt
      <3>4. /\ loop[r].sum = PrefixSum(page[r])[e]
            /\ \A k \in 0..(e - 1) : ParsesAt(page[r], k)
        BY <1>0, <1>7, <2>1 DEF LoopInv, Iterate, InLoop
      <3>5. PrefixSum(page[r])[e + 1] = PrefixSum(page[r])[e] + NumberAt(page[r], e)
        BY <1>0, <3>1, PrefixFacts DEF TypeOK
      <3> HIDE DEF n, e
      <3>6. \A k \in 0..e : ParsesAt(page[r], k)
        BY <3>1, <3>3, <3>4, ElemsPositive
      <3>7. e + 1 <= Elems /\ loop'[r].i = 3 * (e + 1) /\ (e + 1) - 1 = e
        BY <3>1, <3>2, ElemsPositive
      <3>8. loop'[r].sum = PrefixSum(page'[r])[loop'[r].elems]
        BY <3>2, <3>3, <3>4, <3>5
      <3>9. QED
        BY <3>2, <3>6, <3>7, <3>8
    <2>2. CASE p # r
      BY <1>0, <1>1, <1>7, <2>2 DEF Iterate, TypeOK
    <2>3. QED
      BY <2>1, <2>2
  <1>8. ASSUME NEW p \in Procs, GiveUp(p) PROVE Goal
    BY <1>0, <1>1, <1>8 DEF GiveUp, TypeOK
  <1>9. ASSUME NEW p \in Procs, Publish(p) PROVE Goal
    BY <1>0, <1>1, <1>9 DEF Publish, TypeOK
  <1>10. ASSUME NEW p \in Procs, Mark(p) PROVE Goal
    BY <1>0, <1>1, <1>10 DEF Mark, TypeOK
  <1>11. ASSUME NEW p \in Procs, Overridden(p) PROVE Goal
    BY <1>0, <1>1, <1>11 DEF Overridden, TypeOK
  <1>12. ASSUME NEW p \in Procs, OverrideLost(p) PROVE Goal
    BY <1>0, <1>1, <1>12 DEF OverrideLost, TypeOK
  <1>13. ASSUME NEW p \in Procs, NativeCopy(p) PROVE Goal
    BY <1>0, <1>1, <1>13 DEF NativeCopy, TypeOK
  <1>14. CASE UNCHANGED vars
    BY <1>1, <1>14 DEF vars
  <1>15. QED
    BY <1>2, <1>3, <1>4, <1>5, <1>6, <1>7, <1>8, <1>9, <1>10, <1>11, <1>12,
       <1>13, <1>14 DEF Next, Kernel

\* Only Publish leads to the write of "42", and the page does not change
\* before the read returns.
LEMMA MarkStep == IInv /\ [Next]_vars => MarkInv'
  <1> SUFFICES ASSUME IInv, [Next]_vars, NEW r \in Procs, pc'[r] = "mark"
               PROVE  AllParse(page'[r])
    BY DEF MarkInv, AllParse, ParsesAt
  <1>1. TypeOK /\ LoopInv /\ MarkInv
    BY DEF IInv
  <1>2. ASSUME pc[r] = "mark", page'[r] = page[r]
        PROVE  AllParse(page'[r])
    BY <1>1, <1>2 DEF MarkInv
  <1>3. CASE Main
    BY <1>2, <1>3 DEF Main, Load, Register, Fail, Lookup, Exit
  <1>4. ASSUME NEW p \in Procs, Read(p) \/ ReadNothing(p)
        PROVE  AllParse(page'[r])
    BY <1>1, <1>2, <1>4 DEF Read, ReadNothing, MayRead, TypeOK
  <1>5. ASSUME NEW p \in Procs, Publish(p)
        PROVE  AllParse(page'[r])
    <2>1. page' = page
      BY <1>5 DEF Publish
    <2>2. CASE p = r
      BY <1>1, <1>5, <2>1, <2>2, PublishesMean
    <2>3. CASE p # r
      BY <1>1, <1>2, <1>5, <2>1, <2>3 DEF Publish, TypeOK
    <2>4. QED
      BY <2>2, <2>3
  <1>6. ASSUME NEW p \in Procs, Kernel(p), ~Publish(p)
        PROVE  AllParse(page'[r])
    BY <1>1, <1>2, <1>6
    DEF Kernel, PassBy, Override, Iterate, GiveUp, Mark, Overridden,
        OverrideLost, NativeCopy, TypeOK
  <1>7. CASE UNCHANGED vars
    BY <1>2, <1>7 DEF vars
  <1>8. QED
    BY <1>3, <1>4, <1>5, <1>6, <1>7 DEF Next

\* The map holds 0 or the owner's address, so a process with another address
\* always passes the probe by and gets its bytes from the native copy.
LEMMA FilterStep == IInv /\ [Next]_vars => FilterInv'
  <1> SUFFICES ASSUME IInv, [Next]_vars PROVE FilterInv'
    OBVIOUS
  <1>1. TypeOK /\ FilterInv
    BY DEF IInv
  <1> USE <1>1 DEF FilterInv, TypeOK
  <1>2. CASE Main
    BY <1>2, OwnerAssumption DEF Main, Load, Register, Fail, Lookup, Exit
  <1>3. ASSUME NEW p \in Procs, Read(p) \/ ReadNothing(p)
        PROVE  FilterInv'
    BY <1>3 DEF Read, ReadNothing, MayRead
  <1>4. ASSUME NEW p \in Procs, PassBy(p) PROVE FilterInv'
    BY <1>4 DEF PassBy, userVars
  <1>5. ASSUME NEW p \in Procs, Override(p) PROVE FilterInv'
    BY <1>5 DEF Override, Matches, userVars
  <1>6. ASSUME NEW p \in Procs, NativeCopy(p) PROVE FilterInv'
    BY <1>6 DEF NativeCopy, userVars
  <1>7. ASSUME NEW p \in Procs,
               Iterate(p) \/ GiveUp(p) \/ Publish(p) \/ Mark(p)
                 \/ Overridden(p) \/ OverrideLost(p)
        PROVE  FilterInv'
    BY <1>7 DEF Iterate, InLoop, GiveUp, Publish, Mark, Overridden,
                OverrideLost, userVars
  <1>8. CASE UNCHANGED vars
    BY <1>8 DEF vars
  <1>9. QED
    BY <1>2, <1>3, <1>4, <1>5, <1>6, <1>7, <1>8 DEF Next, Kernel

\* Only Publish writes result_map, and it writes the average of its page.
LEMMA ResultStep == IInv /\ [Next]_vars => ResultIsAMean'
  <1> SUFFICES ASSUME IInv, [Next]_vars PROVE ResultIsAMean'
    OBVIOUS
  <1>1. TypeOK /\ LoopInv /\ ResultIsAMean
    BY DEF IInv
  <1>2. ASSUME NEW p \in Procs, Publish(p) PROVE ResultIsAMean'
    <2>1. page[p] \in Pages
      BY <1>1 DEF TypeOK
    <2>2. QED
      BY <1>1, <1>2, <2>1, PublishesMean
      DEF ResultIsAMean, AllParse, ParsesAt, Mean
  <1>3. CASE result_map' = result_map
    BY <1>1, <1>3 DEF ResultIsAMean, AllParse, ParsesAt, Mean
  <1>4. CASE Main
    BY <1>3, <1>4 DEF Main, Load, Register, Fail, Lookup, Exit
  <1>5. ASSUME NEW p \in Procs, Read(p) \/ ReadNothing(p)
        PROVE  ResultIsAMean'
    BY <1>3, <1>5 DEF Read, ReadNothing
  <1>6. ASSUME NEW p \in Procs, Kernel(p) PROVE ResultIsAMean'
    BY <1>2, <1>3, <1>6
    DEF Kernel, PassBy, Override, Iterate, GiveUp, Mark, Overridden,
        OverrideLost, NativeCopy
  <1>7. CASE UNCHANGED vars
    BY <1>3, <1>7 DEF vars
  <1>8. QED
    BY <1>4, <1>5, <1>6, <1>7 DEF Next

\* A step that leaves alone all that OwnerFacts mentions.
OwnerUntouched ==
  /\ main' = main /\ avg' = avg /\ result_map' = result_map
  /\ pc'[Owner] = pc[Owner] /\ page'[Owner] = page[Owner]
  /\ ubuf'[Owner] = ubuf[Owner] /\ ret'[Owner] = ret[Owner]

\* A step of another process neither publishes nor touches the owner's read;
\* each of the owner's own steps moves the facts along one program point.
LEMMA OwnerStep == IInv /\ [Next]_vars => OwnerInv'
  <1> SUFFICES ASSUME IInv, [Next]_vars, Unshared PROVE OwnerFacts'
    BY DEF OwnerInv, Unshared
  <1>1. TypeOK /\ LoopInv /\ MarkInv /\ FilterInv /\ OwnerFacts
    BY DEF IInv, OwnerInv
  <1>2. Owner \in Procs /\ Buf[Owner] # Null
    BY OwnerAssumption, BufAssumption
  <1>3. ASSUME OwnerUntouched PROVE OwnerFacts'
    BY <1>1, <1>3 DEF OwnerUntouched, OwnerFacts, AllParse, ParsesAt, Mean
  <1>4. \A q \in Procs \ {Owner} : pc[q] \in {"user", "copyout", "native"}
    BY <1>1 DEF FilterInv, Unshared
  <1> USE DEF TypeOK
  <1>5. CASE Main
    BY <1>1, <1>5 DEF Main, Load, Register, Fail, Lookup, Exit,
                      OwnerFacts, AllParse, ParsesAt, Mean
  <1>6. ASSUME NEW q \in Procs \ {Owner},
               Read(q) \/ ReadNothing(q) \/ Kernel(q)
        PROVE  OwnerUntouched
    BY <1>1, <1>2, <1>4, <1>6
    DEF Read, ReadNothing, EnterRead, Kernel, PassBy, Override, Iterate,
        InLoop, GiveUp, Publish, Mark, Overridden, OverrideLost, NativeCopy,
        userVars, OwnerUntouched
  <1>7. CASE Read(Owner) \/ ReadNothing(Owner)
    BY <1>1, <1>2, <1>7 DEF Read, ReadNothing, MayRead, EnterRead, OwnerFacts
  <1>8. CASE PassBy(Owner) \/ Override(Owner)
    BY <1>1, <1>2, <1>8 DEF PassBy, Override, userVars, OwnerFacts,
                            AllParse, ParsesAt, Mean
  <1>9. CASE Iterate(Owner)
    BY <1>1, <1>2, <1>3, <1>9 DEF Iterate, userVars, OwnerUntouched
  <1>10. CASE GiveUp(Owner)
    <2>1. ~AllParse(page[Owner])
      BY <1>1, <1>2, <1>10, LoopBytes DEF GiveUp, AllParse, ParsesAt
    <2>2. QED
      BY <1>1, <1>2, <1>10, <2>1 DEF GiveUp, InLoop, userVars, OwnerFacts,
                                     AllParse, ParsesAt, Mean
  <1>11. CASE Publish(Owner)
    <2>1. AllParse(page[Owner]) /\ result_map' = Mean(page[Owner])
      BY <1>1, <1>2, <1>11, PublishesMean
    <2>2. QED
      BY <1>1, <1>2, <1>11, <2>1 DEF Publish, userVars, OwnerFacts,
                                     AllParse, ParsesAt, Mean
  <1>12. CASE Mark(Owner)
    <2>1. AllParse(page[Owner]) /\ result_map = Mean(page[Owner])
      BY <1>1, <1>2, <1>12 DEF MarkInv, OwnerFacts, Mark
    <2>2. QED
      BY <1>1, <1>2, <1>12, <2>1 DEF Mark, userVars, OwnerFacts,
                                     AllParse, ParsesAt, Mean
  <1>13. CASE Overridden(Owner)
    BY <1>1, <1>2, <1>13 DEF Overridden, userVars, OwnerFacts,
                             AllParse, ParsesAt, Mean
  <1>14. CASE OverrideLost(Owner) \/ NativeCopy(Owner)
    BY <1>1, <1>2, <1>14 DEF OverrideLost, NativeCopy, userVars, OwnerFacts,
                             AllParse, ParsesAt, Mean
  <1>15. CASE UNCHANGED vars
    BY <1>3, <1>15 DEF vars, OwnerUntouched
  <1>16. QED
    BY <1>3, <1>5, <1>6, <1>7, <1>8, <1>9, <1>10, <1>11, <1>12, <1>13, <1>14,
       <1>15 DEF Next, Kernel

-----------------------------------------------------------------------------
(* The theorems *)

\* The inductive invariant holds in every reachable state of readiter.
THEOREM Invariance == Spec => []IInv
  <1>1. Init => IInv
    <2> SUFFICES ASSUME Init PROVE IInv
      OBVIOUS
    <2>1. TypeOK
      BY DEF Init, TypeOK, Fresh, Null
    <2>2. LoopInv /\ MarkInv /\ FilterInv /\ ResultIsAMean
      BY DEF Init, LoopInv, MarkInv, FilterInv, ResultIsAMean
    <2>3. OwnerInv
      BY OwnerAssumption DEF Init, OwnerInv, OwnerFacts
    <2>4. QED
      BY <2>1, <2>2, <2>3 DEF IInv
  <1>2. IInv /\ [Next]_vars => IInv'
    BY TypeStep, LoopStep, MarkStep, FilterStep, ResultStep, OwnerStep DEF IInv
  <1>3. QED
    BY <1>1, <1>2, PTL DEF Spec

\* Every variable of readiter keeps its type, for every page size.
THEOREM TypeCorrect == Spec => []TypeOK
  <1>1. IInv => TypeOK
    BY DEF IInv
  <1>2. QED
    BY <1>1, Invariance, PTL

\* The probe never disturbs a read into an address that is not registered.
THEOREM FilterCorrect == Spec => []ForeignReadsIntact
  <1>1. IInv => ForeignReadsIntact
    BY DEF IInv, FilterInv, ForeignReadsIntact
  <1>2. QED
    BY <1>1, Invariance, PTL

\* The probe publishes averages of whole pages and nothing else, however the
\* probes of different processes interleave.
THEOREM ResultCorrect == Spec => []ResultIsAMean
  <1>1. IInv => ResultIsAMean
    BY DEF IInv
  <1>2. QED
    BY <1>1, Invariance, PTL

\* With an address of its own, a main that finds "42" in its buffer prints
\* the average of the page it read.
THEOREM AnswerCorrect == Spec => []AnswerIsMine
  <1>1. IInv => AnswerIsMine
    BY DEF IInv, OwnerInv, OwnerFacts, AnswerIsMine
  <1>2. QED
    BY <1>1, Invariance, PTL

\* With an address of its own, a main whose read reported success and whose
\* page parses has the bytes or the average.
THEOREM LossFree == Spec => []NoSilentLoss
  <1>1. IInv => NoSilentLoss
    BY DEF IInv, OwnerInv, OwnerFacts, NoSilentLoss
  <1>2. QED
    BY <1>1, Invariance, PTL
-----------------------------------------------------------------------------
(* The end of a read *)

\* How many steps of its own a system call may still take.
StepsLeft(p) ==
  CASE pc[p] = "copyout" -> Elems + 5
    [] pc[p] = "loop"    -> (Elems - loop[p].elems) + 4
    [] pc[p] = "mark"    -> 3
    [] pc[p] = "leave"   -> 2
    [] pc[p] = "native"  -> 1
    [] OTHER            -> 0

\* Every step of a system call brings it nearer to its return, and no step of
\* another process sets it back.
ReadAdvances ==
  \A p \in Procs : /\ pc[p] # "user" => StepsLeft(p)' <= StepsLeft(p)
                   /\ Kernel(p) => StepsLeft(p)' < StepsLeft(p)

\* The count of the steps left is a number.
LEMMA StepsLeftType ==
  ASSUME TypeOK, LoopInv, NEW p \in Procs
  PROVE  StepsLeft(p) \in Nat
  <1>1. Elems \in Nat /\ loop[p].elems \in Nat
    BY ElemsPositive DEF TypeOK
  <1>2. pc[p] \in {"user", "copyout", "loop", "mark", "leave", "native"}
    BY DEF TypeOK
  <1>3. pc[p] = "loop" => loop[p].elems <= Elems
    BY DEF LoopInv
  <1>4. QED
    BY <1>1, <1>2, <1>3 DEF StepsLeft

\* A step of p's system call.
LEMMA KernelAdvances ==
  ASSUME TypeOK, LoopInv, NEW p \in Procs, Kernel(p)
  PROVE  StepsLeft(p)' < StepsLeft(p)
  <1>1. Elems \in Nat /\ Elems > 0 /\ loop[p].elems \in Nat
    BY ElemsPositive DEF TypeOK
  <1>2. pc[p] = "loop" => loop[p].elems <= Elems
    BY DEF LoopInv
  <1>3. CASE PassBy(p)
    <2>1. pc[p] = "copyout" /\ pc'[p] = "native"
      BY <1>3 DEF PassBy, TypeOK
    <2>2. QED
      BY <1>1, <2>1 DEF StepsLeft
  <1>4. CASE Override(p)
    <2>1. pc[p] = "copyout" /\ pc'[p] = "loop" /\ loop'[p].elems = 0
      BY <1>4 DEF Override, TypeOK, Fresh
    <2>2. QED
      BY <1>1, <2>1 DEF StepsLeft
  <1>5. CASE Iterate(p)
    <2>1. pc[p] = "loop" /\ pc'[p] = "loop" /\ loop'[p].elems = loop[p].elems + 1
      BY <1>5 DEF Iterate, InLoop, TypeOK
    <2>2. QED
      BY <1>1, <2>1 DEF StepsLeft
  <1>6. CASE GiveUp(p)
    <2>1. pc[p] = "loop" /\ pc'[p] = "leave"
      BY <1>6 DEF GiveUp, InLoop, TypeOK
    <2>2. QED
      BY <1>1, <1>2, <2>1 DEF StepsLeft
  <1>7. CASE Publish(p)
    <2>1. pc[p] = "loop" /\ pc'[p] = "mark"
      BY <1>7 DEF Publish, TypeOK
    <2>2. QED
      BY <1>1, <1>2, <2>1 DEF StepsLeft
  <1>8. CASE Mark(p)
    <2>1. pc[p] = "mark" /\ pc'[p] = "leave"
      BY <1>8 DEF Mark, TypeOK
    <2>2. QED
      BY <2>1 DEF StepsLeft
  <1>9. CASE Overridden(p)
    <2>1. pc[p] = "leave" /\ pc'[p] = "user"
      BY <1>9 DEF Overridden, TypeOK
    <2>2. QED
      BY <2>1 DEF StepsLeft
  <1>10. CASE OverrideLost(p)
    <2>1. pc[p] = "leave" /\ pc'[p] = "native"
      BY <1>10 DEF OverrideLost, TypeOK
    <2>2. QED
      BY <2>1 DEF StepsLeft
  <1>11. CASE NativeCopy(p)
    <2>1. pc[p] = "native" /\ pc'[p] = "user"
      BY <1>11 DEF NativeCopy, TypeOK
    <2>2. QED
      BY <2>1 DEF StepsLeft
  <1>12. QED
    BY <1>3, <1>4, <1>5, <1>6, <1>7, <1>8, <1>9, <1>10, <1>11 DEF Kernel

\* A step of anybody else.
LEMMA OthersKeep ==
  ASSUME TypeOK, [Next]_vars, NEW p \in Procs, ~Kernel(p), pc[p] # "user"
  PROVE  StepsLeft(p)' = StepsLeft(p)
  <1>1. pc'[p] = pc[p] /\ loop'[p] = loop[p]
    <2>1. CASE Main
      BY <2>1 DEF Main, Load, Register, Fail, Lookup, Exit
    <2>2. ASSUME NEW q \in Procs, Read(q) \/ ReadNothing(q)
          PROVE  pc'[p] = pc[p] /\ loop'[p] = loop[p]
      BY <2>2 DEF Read, ReadNothing, MayRead, TypeOK
    <2>3. ASSUME NEW q \in Procs, Kernel(q)
          PROVE  pc'[p] = pc[p] /\ loop'[p] = loop[p]
      <3>1. q # p
        BY <2>3
      <3>2. QED
        BY <2>3, <3>1 DEF Kernel, PassBy, Override, Iterate, GiveUp, Publish, Mark,
                          Overridden, OverrideLost, NativeCopy, TypeOK
    <2>4. CASE UNCHANGED vars
      BY <2>4 DEF vars
    <2>5. QED
      BY <2>1, <2>2, <2>3, <2>4 DEF Next
  <1>2. QED
    BY <1>1 DEF StepsLeft

\* A read ends after at most Elems + 5 steps of its own, whatever other
\* processes do meanwhile: the loop of bpf_copyout is bounded, and copyout is
\* not called again for the same bytes.  (That each of these steps is taken is
\* the fairness of the kernel.)
THEOREM ReadsAdvance == Spec => [][ReadAdvances]_vars
  <1>1. IInv => \A p \in Procs : StepsLeft(p) \in Nat
    BY StepsLeftType DEF IInv
  <1>2. IInv' => (\A p \in Procs : StepsLeft(p) \in Nat)'
    BY <1>1, PTL
  <1>3. ASSUME IInv, [Next]_vars PROVE ReadAdvances
    <2> SUFFICES ASSUME NEW p \in Procs
                 PROVE  /\ pc[p] # "user" => StepsLeft(p)' <= StepsLeft(p)
                        /\ Kernel(p) => StepsLeft(p)' < StepsLeft(p)
      BY DEF ReadAdvances
    <2>1. TypeOK /\ LoopInv /\ IInv'
      BY <1>3, TypeStep, LoopStep, MarkStep, FilterStep, ResultStep, OwnerStep DEF IInv
    <2>2. StepsLeft(p) \in Nat
      BY <1>1, <1>3
    <2>3. StepsLeft(p)' \in Nat
      BY <1>2, <2>1
    <2>4. Kernel(p) => StepsLeft(p)' < StepsLeft(p)
      BY <2>1, KernelAdvances
    <2>5. ~Kernel(p) /\ pc[p] # "user" => StepsLeft(p)' = StepsLeft(p)
      BY <1>3, <2>1, OthersKeep
    <2> HIDE DEF StepsLeft
    <2>6. QED
      BY <2>2, <2>3, <2>4, <2>5
  <1>4. QED
    BY <1>3, Invariance, PTL DEF Spec
=============================================================================
