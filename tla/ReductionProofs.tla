-------------------------- MODULE ReductionProofs --------------------------
(***************************************************************************)
(* The three reductions of Reduction on files of any number, content and   *)
(* length up to a page, for pages of any size: what the tail call and the  *)
(* user-space benchmark publish is the average they are meant to compute,  *)
(* and the offloaded benchmark publishes for whole pages only and never    *)
(* counts more than the page holds.                                        *)
(***************************************************************************)
EXTENDS Reduction, NaturalsInduction, WellFoundedInduction, TLAPS

\* Kinds of the variables.
TypeInv ==
  /\ file \in Files
  /\ pc \in {"tail", "user", "read", "bench", "done"}
  /\ i \in Nat /\ j \in Nat /\ sum \in Nat /\ elems \in Nat
  /\ out \in [tail : Int, user : Int, bench : Int]

\* Nine bytes the probe copies whole.
NoNul(t) == Len(t) >= UBUFFSIZE /\ \A k \in 1..UBUFFSIZE : t[k] # NUL

\* What strtoul makes of the three triples of the tail call.
First(t)  == Libc(<<t[1], t[2]>>)
Second(t) == Libc(<<t[4], t[5]>>)
Third(t)  == Libc(<<t[7], t[8]>>)

\* The tail call has added up what strtoul makes of the triples behind it.
TailInv ==
  pc = "tail" =>
    /\ elems = 3 /\ i \in {0, 3, 6, 9}
    /\ out.tail = NoResult
    /\ NoNul(text) =>
         /\ \A k \in 0..(UBUFFSIZE - 2) : userbuff[k] = text[k + 1]
         /\ i = 0 => sum = 0
         /\ i = 3 => sum = First(text) /\ sum <= 99
         /\ i = 6 => sum = First(text) + Second(text) /\ sum <= 198
         /\ i = 9 => sum = First(text) + Second(text) + Third(text)

\* userbench has counted the numbers before i.
UserInv ==
  /\ pc \in {"tail", "user"} => out.user = NoResult
  /\ pc = "user" =>
       /\ i = 3 * elems /\ (elems = 0 \/ i < Len(text))
       /\ Regular(text) => sum = Total(text, elems)

\* The place in the page of the next triple of bpfbench, and the numbers of a
\* regular page that begin before it.
Place(n, m) == n * CHUNK + 3 * m
Before(p)   == (p + 1) \div 3

\* The chunk in the buffer is the i-th of the page, up to its first zero.
Copied ==
  /\ PageByte(i * CHUNK) = NUL => userbuff[0] = NUL
  /\ (\A k \in 0..(CHUNK - 2) : PageByte(i * CHUNK + k) # NUL) =>
       \A k \in 0..(CHUNK - 2) : userbuff[k] = PageByte(i * CHUNK + k)

\* A page filled with numbers of two digits.
Whole(t) == Len(t) = PAGE_SIZE /\ Regular(t)

\* bpfbench has counted the triples before its place, and added up no more than
\* the page holds there.
BenchInv ==
  /\ pc # "done" => out.bench = NoResult
  /\ pc = "read" =>
       /\ i <= CHUNKS /\ elems = i * TRIPLES
       /\ i # 0 => (i - 1) * CHUNK < Len(text)
       /\ Whole(text) => sum <= Total(text, Before(Place(i, 0)))
  /\ pc = "bench" =>
       /\ i < CHUNKS /\ j <= TRIPLES /\ elems = i * TRIPLES + j
       /\ Copied
       /\ j # 0 => i * CHUNK < Len(text)
       /\ Whole(text) => sum <= Total(text, Before(Place(i, j)))

\* The inductive invariant.
IInv == /\ TypeInv /\ TailInv /\ UserInv /\ BenchInv
        /\ TailAgreesWithLibc /\ UserAverages
        /\ out.bench # NoResult => /\ elems = CHUNKS * TRIPLES
                                   /\ Len(text) > PAGE_SIZE - CHUNK

-----------------------------------------------------------------------------
(* Numbers *)

USE ZenonT(40)

\* A set of natural numbers that is not empty has a least element.
LEMMA LeastNumber ==
  ASSUME NEW S, S \subseteq Nat, S # {}
  PROVE  \E n \in S : \A m \in S : n <= m
  <1> DEFINE R == {ss \in Nat \X Nat : ss[1] < ss[2]}
  <1>1. \A m, n \in Nat : m < n => <<m, n>> \in R
    BY SMT
  <1>2. IsWellFoundedOn(R, Nat)
    BY NatLessThanWellFounded DEF OpToRel
  <1> HIDE DEF R
  <1>3. PICK n \in S : \A m \in S : ~(<<m, n>> \in R)
    BY <1>2, WFMin
  <1>4. \A m \in S : m \in Nat /\ n \in Nat /\ ~(m < n)
    BY <1>1, <1>3
  <1>5. QED
    BY <1>3, <1>4, SMT

\* Induction on numbers, for a set G of good ones.
LEMMA Numbers ==
  ASSUME NEW G, 0 \in G, \A n \in Nat : n \in G => n + 1 \in G
  PROVE  Nat \subseteq G
  <1> SUFFICES ASSUME Nat \ G # {} PROVE FALSE
    OBVIOUS
  <1>1. PICK n \in Nat \ G : \A m \in Nat \ G : n <= m
    BY LeastNumber
  <1>2. n \in Nat /\ n # 0
    BY <1>1
  <1>3. n - 1 \in Nat /\ n = (n - 1) + 1 /\ ~(n <= n - 1)
    BY <1>2, SMT
  <1>4. n - 1 \in G
    BY <1>1, <1>3
  <1>5. n \in G
    BY <1>3, <1>4
  <1>6. QED
    BY <1>1, <1>5

\* The value of a digit.
LEMMA DigitFacts == \A c : IsDigit(c) => Digit(c) \in 0..9 /\ Digit(c) \in Nat
  BY SMT DEF IsDigit, Digit

\* bpf_strtoul stores a number of at most two digits for two bytes.
LEMMA NumberType == \A a, b : Number(a, b) \in 0..99
  <1> TAKE a, b
  <1>1. IsDigit(a) => Digit(a) \in 0..9
    BY DigitFacts
  <1>2. IsDigit(b) => Digit(b) \in 0..9
    BY DigitFacts
  <1>0. IsDigit(a) => ~IsSpace(a)
    BY SMT DEF IsDigit, IsSpace
  <1>3. CASE IsDigit(a) /\ IsDigit(b)
    <2>1. 10 * Digit(a) + Digit(b) \in 0..99
      BY <1>1, <1>2, <1>3, SMT
    <2>2. QED
      BY <1>0, <1>3, <2>1 DEF Number
  <1>4. CASE IsDigit(a) /\ ~IsDigit(b)
    <2>1. Digit(a) \in 0..99
      BY <1>1, <1>4, SMT
    <2>2. QED
      BY <1>4, <2>1 DEF Number
  <1>5. CASE ~IsDigit(a) /\ IsSpace(a) /\ IsDigit(b)
    <2>1. Digit(b) \in 0..99
      BY <1>2, <1>5, SMT
    <2>2. QED
      BY <1>5, <2>1 DEF Number
  <1>6. CASE ~IsDigit(a) /\ ~(IsSpace(a) /\ IsDigit(b))
    <2>1. 0 \in 0..99
      BY SMT
    <2>2. QED
      BY <1>6, <2>1 DEF Number
  <1>7. QED
    BY <1>3, <1>4, <1>5, <1>6

-----------------------------------------------------------------------------
(* Sums *)

\* A function of sums: each is its predecessor and one number more.
AddsUp(t, n, h) ==
  /\ h[0] = 0
  /\ \A k \in 0..n : h[k] \in Nat
  /\ \A k \in 1..n : h[k] = h[k - 1] + NumberAt(t, k)

\* There is one for each file.
LEMMA SumsExist ==
  ASSUME NEW t, NEW n \in Nat
  PROVE  \E h : AddsUp(t, n, h)
  <1> DEFINE G == {m \in Nat : \E h : AddsUp(t, m, h)}
  <1>1. 0 \in G
    <2> DEFINE h == [k \in {0} |-> 0]
    <2>1. /\ \A k \in 0..0 : k = 0
          /\ \A k \in 1..0 : FALSE
          /\ 0 \in Nat
      BY SMT
    <2>2. h[0] = 0
      OBVIOUS
    <2> HIDE DEF h
    <2>3. \A k \in 0..0 : h[k] \in Nat
      BY <2>1, <2>2
    <2>4. AddsUp(t, 0, h)
      BY <2>1, <2>2, <2>3 DEF AddsUp
    <2>5. QED
      BY <2>4
  <1>2. ASSUME NEW m \in Nat, m \in G PROVE m + 1 \in G
    <2>1. PICK h : AddsUp(t, m, h)
      BY <1>2
    <2> DEFINE f == [k \in 0..(m + 1) |->
                       IF k = m + 1 THEN h[m] + NumberAt(t, m + 1) ELSE h[k]]
    <2>2. /\ m + 1 \in Nat /\ m + 1 \in 0..(m + 1) /\ 0 \in 0..(m + 1) /\ 0 # m + 1
          /\ m \in 0..m /\ m = (m + 1) - 1 /\ m # m + 1
          /\ \A k \in 0..(m + 1) : k # m + 1 => k \in 0..m
          /\ \A k \in 1..(m + 1) : k \in 0..(m + 1) /\ (k - 1) \in 0..(m + 1) /\ k - 1 # m + 1
          /\ \A k \in 1..(m + 1) : k # m + 1 => k \in 1..m
      BY SMT
    <2>3. \A k \in 0..(m + 1) : f[k] = IF k = m + 1 THEN h[m] + NumberAt(t, m + 1) ELSE h[k]
      OBVIOUS
    <2> HIDE DEF f
    <2>4. f[m + 1] = h[m] + NumberAt(t, m + 1) /\ f[m + 1] \in Nat
      <3>1. h[m] \in Nat /\ NumberAt(t, m + 1) \in 0..99
        BY <2>1, <2>2, NumberType DEF AddsUp, NumberAt
      <3>2. h[m] + NumberAt(t, m + 1) \in Nat
        BY <3>1, SMT
      <3>3. QED
        BY <2>2, <2>3, <3>2
    <2>5. ASSUME NEW k \in 0..(m + 1) PROVE f[k] \in Nat
      BY <2>1, <2>2, <2>3, <2>4 DEF AddsUp
    <2>6. ASSUME NEW k \in 1..(m + 1) PROVE f[k] = f[k - 1] + NumberAt(t, k)
      <3>1. f[k - 1] = h[k - 1]
        BY <2>2, <2>3
      <3>2. CASE k = m + 1
        BY <2>2, <2>4, <3>1, <3>2
      <3>3. CASE k # m + 1
        BY <2>1, <2>2, <2>3, <3>1, <3>3 DEF AddsUp
      <3>4. QED
        BY <3>2, <3>3
    <2>7. f[0] = 0
      BY <2>1, <2>2, <2>3 DEF AddsUp
    <2>8. AddsUp(t, m + 1, f)
      BY <2>5, <2>6, <2>7 DEF AddsUp
    <2>9. QED
      BY <2>2, <2>8
  <1>3. Nat \subseteq G
    <2> HIDE DEF G
    <2>1. QED
      BY <1>1, <1>2, Numbers
  <1>4. QED
    BY <1>3

\* The sums of Total: the numbers after the a-th up to the b-th are halved.
Halved(t, S, a, b) ==
  IF b <= a THEN 0
  ELSE IF b = a + 1 THEN NumberAt(t, b)
  ELSE S[<<a, (a + b) \div 2>>] + S[<<(a + b) \div 2, b>>]
\* The table of partial sums that Total reads.
Table(t, n) ==
  CHOOSE S : S = [r \in (0..n) \X (0..n) |-> Halved(t, S, r[1], r[2])]

\* Total is an entry of its table.
LEMMA TotalDef == \A t, n : Total(t, n) = Table(t, n)[<<0, n>>]
  BY DEF Total, Table, Halved

\* The middle of a range of at least two numbers is inside.
LEMMA Middle ==
  ASSUME NEW a \in Nat, NEW b \in Nat, ~(b <= a), b # a + 1
  PROVE  LET m == (a + b) \div 2
         IN  m \in Nat /\ a < m /\ m < b
  BY SMT

\* Total is the function of sums, whatever way the numbers are halved.
LEMMA TotalIs ==
  ASSUME NEW t, NEW N \in Nat, NEW h, AddsUp(t, N, h), NEW n \in 0..N
  PROVE  Total(t, n) = h[n]
  <1> DEFINE I == 0..n
             Diff(a, b) == IF b <= a THEN 0 ELSE h[b] - h[a]
             F == [r \in I \X I |-> Diff(r[1], r[2])]
             T == Table(t, n)
  <1>1. n \in Nat /\ 0 \in I /\ n \in I
    BY SMT
  <1>2. \A k \in I : k \in Nat /\ h[k] \in Nat
    <2>1. \A k \in I : k \in Nat /\ k \in 0..N
      BY SMT
    <2>2. QED
      BY <2>1 DEF AddsUp
  <1>3. \A a, b \in I : b = a + 1 => h[b] - h[a] = NumberAt(t, b)
    <2> SUFFICES ASSUME NEW a \in I, NEW b \in I, b = a + 1
                 PROVE  h[b] - h[a] = NumberAt(t, b)
      OBVIOUS
    <2>1. b \in 1..N /\ b - 1 = a
      BY SMT
    <2>2. h[b] = h[a] + NumberAt(t, b) /\ NumberAt(t, b) \in 0..99
      BY <2>1, NumberType DEF AddsUp, NumberAt
    <2>3. h[a] \in Nat
      BY <1>2
    <2>4. QED
      BY <2>2, <2>3, SMT
  <1>4. ASSUME NEW a \in I, NEW b \in I, ~(b <= a), b # a + 1
        PROVE  LET m == (a + b) \div 2
               IN  /\ m \in I /\ ~(m <= a) /\ ~(b <= m)
                   /\ Diff(a, m) + Diff(m, b) = Diff(a, b)
                   /\ m - a \in Nat /\ b - m \in Nat /\ b - a \in Nat
                   /\ m - a < b - a /\ b - m < b - a
    <2> DEFINE m == (a + b) \div 2
    <2>1. a \in Nat /\ b \in Nat
      BY <1>2
    <2>2. m \in Nat /\ a < m /\ m < b
      BY <1>4, <2>1, Middle
    <2> HIDE DEF m
    <2>3. /\ m \in I /\ ~(m <= a) /\ ~(b <= m)
          /\ m - a \in Nat /\ b - m \in Nat /\ b - a \in Nat
          /\ m - a < b - a /\ b - m < b - a
      BY <2>1, <2>2, SMT
    <2>4. (h[m] - h[a]) + (h[b] - h[m]) = h[b] - h[a]
      <3>1. h[a] \in Nat /\ h[b] \in Nat /\ h[m] \in Nat
        BY <1>2, <2>3
      <3>2. QED
        BY <3>1, SMT
    <2>5. Diff(a, m) + Diff(m, b) = Diff(a, b)
      BY <1>4, <2>3, <2>4
    <2>6. QED
      BY <2>3, <2>5 DEF m
  <1>5. \A a, b \in I : F[<<a, b>>] = Diff(a, b)
    OBVIOUS
  <1>6. F = [r \in I \X I |-> Halved(t, F, r[1], r[2])]
    <2>1. ASSUME NEW a \in I, NEW b \in I PROVE Halved(t, F, a, b) = Diff(a, b)
      <3>1. CASE b <= a
        BY <3>1 DEF Halved
      <3>2. CASE ~(b <= a) /\ b = a + 1
        BY <1>3, <3>2 DEF Halved
      <3>3. CASE ~(b <= a) /\ b # a + 1
        <4> HIDE DEF Diff, F
        <4>1. Halved(t, F, a, b) = F[<<a, (a + b) \div 2>>] + F[<<(a + b) \div 2, b>>]
          BY <3>3 DEF Halved
        <4>2. QED
          BY <1>4, <1>5, <3>3, <4>1
      <3>4. QED
        BY <3>1, <3>2, <3>3
    <2>2. QED
      BY <2>1
  <1> HIDE DEF F
  <1>7. T = [r \in I \X I |-> Halved(t, T, r[1], r[2])]
    BY <1>6 DEF Table
  <1>8. \A a, b \in I : T[<<a, b>>] = Halved(t, T, a, b)
    <2> HIDE DEF T
    <2> QED
      BY <1>7
  <1> HIDE DEF T, Diff
  <1>9. ASSUME NEW a \in I, NEW b \in I PROVE T[<<a, b>>] = Diff(a, b)
    <2> DEFINE Bad == {d \in Nat : \E p, q \in I : q - p = d /\ ~(q <= p) /\ T[<<p, q>>] # Diff(p, q)}
    <2>1. ASSUME NEW p \in I, NEW q \in I, q <= p PROVE T[<<p, q>>] = Diff(p, q)
      BY <1>8, <2>1 DEF Halved, Diff
    <2>2. Bad = {}
      <3> SUFFICES ASSUME Bad # {} PROVE FALSE
        OBVIOUS
      <3>1. PICK d \in Bad : \A e \in Bad : d <= e
        BY LeastNumber
      <3>2. PICK p \in I, q \in I : q - p = d /\ ~(q <= p) /\ T[<<p, q>>] # Diff(p, q)
        BY <3>1
      <3>3. CASE q = p + 1
        BY <1>3, <1>8, <3>2, <3>3 DEF Halved, Diff
      <3>4. CASE q # p + 1
        <4> DEFINE m == (p + q) \div 2
        <4>1. /\ m \in I /\ ~(m <= p) /\ ~(q <= m)
              /\ Diff(p, m) + Diff(m, q) = Diff(p, q)
              /\ m - p \in Nat /\ q - m \in Nat /\ q - p \in Nat
              /\ m - p < q - p /\ q - m < q - p
          BY <1>4, <3>2, <3>4
        <4>2. T[<<p, q>>] = T[<<p, m>>] + T[<<m, q>>]
          BY <1>8, <3>2, <3>4 DEF Halved
        <4> HIDE DEF m
        <4>3. m - p \notin Bad /\ q - m \notin Bad
          <5>1. ~(q - p <= m - p) /\ ~(q - p <= q - m)
            BY <4>1, SMT
          <5>2. QED
            BY <3>1, <3>2, <5>1
        <4>4. T[<<p, m>>] = Diff(p, m) /\ T[<<m, q>>] = Diff(m, q)
          BY <4>1, <4>3
        <4>5. QED
          BY <3>2, <4>1, <4>2, <4>4
      <3>5. QED
        BY <3>3, <3>4
    <2>3. CASE ~(b <= a)
      <3>1. b - a \in Nat
        <4>1. a \in Nat /\ b \in Nat
          BY <1>2
        <4>2. QED
          BY <2>3, <4>1, SMT
      <3>2. QED
        BY <2>2, <2>3, <3>1
    <2>4. QED
      BY <2>1, <2>3
  <1>10. Total(t, n) = Diff(0, n)
    BY <1>1, <1>9, TotalDef DEF T
  <1>11. h[0] = 0 /\ h[n] \in Nat
    BY <1>1, <1>2 DEF AddsUp
  <1>12. CASE n = 0
    <2>1. 0 <= 0
      BY SMT
    <2>2. QED
      BY <1>10, <1>11, <1>12, <2>1 DEF Diff
  <1>13. CASE n # 0
    <2>1. ~(n <= 0) /\ h[n] - 0 = h[n]
      BY <1>1, <1>11, <1>13, SMT
    <2>2. QED
      BY <1>10, <1>11, <2>1 DEF Diff
  <1>14. QED
    BY <1>12, <1>13

\* The sum of no numbers, of one more, and what a sum can come to.
LEMMA TotalFacts ==
  ASSUME NEW t, NEW n \in Nat
  PROVE  /\ Total(t, 0) = 0
         /\ Total(t, n) \in Nat
         /\ Total(t, n + 1) = Total(t, n) + NumberAt(t, n + 1)
  <1>1. n + 1 \in Nat /\ 0 \in 0..(n + 1) /\ n \in 0..(n + 1)
                      /\ n + 1 \in 0..(n + 1) /\ n + 1 \in 1..(n + 1) /\ (n + 1) - 1 = n
    BY SMT
  <1>2. PICK h : AddsUp(t, n + 1, h)
    BY <1>1, SumsExist
  <1>3. Total(t, 0) = h[0] /\ Total(t, n) = h[n] /\ Total(t, n + 1) = h[n + 1]
    BY <1>1, <1>2, TotalIs
  <1>4. QED
    BY <1>1, <1>2, <1>3 DEF AddsUp

\* No number of two digits exceeds 99, nor their average.
LEMMA TotalBound == \A t : \A n \in Nat : Total(t, n) <= 99 * n
  <1> TAKE t
  <1> DEFINE G == {n \in Nat : Total(t, n) <= 99 * n}
  <1>1. 0 \in G
    <2>1. 0 \in Nat /\ 0 <= 99 * 0
      BY SMT
    <2>2. QED
      BY <2>1, TotalFacts
  <1>2. ASSUME NEW n \in Nat, n \in G PROVE n + 1 \in G
    <2>1. /\ Total(t, n) \in Nat /\ Total(t, n) <= 99 * n
          /\ Total(t, n + 1) = Total(t, n) + NumberAt(t, n + 1)
          /\ NumberAt(t, n + 1) \in 0..99
      BY <1>2, TotalFacts, NumberType DEF NumberAt
    <2>2. n + 1 \in Nat /\ Total(t, n + 1) <= 99 * (n + 1)
      BY <2>1, SMT
    <2>3. QED
      BY <2>2
  <1>3. Nat \subseteq G
    <2> HIDE DEF G
    <2>1. QED
      BY <1>1, <1>2, Numbers
  <1>4. QED
    BY <1>3

\* More numbers have no smaller sum.
LEMMA TotalGrows ==
  ASSUME NEW t, NEW m \in Nat, NEW n \in Nat, m <= n
  PROVE  Total(t, m) <= Total(t, n)
  <1> DEFINE G == {d \in Nat : Total(t, m) <= Total(t, m + d)}
  <1>1. 0 \in G
    <2>1. Total(t, m) \in Nat /\ m + 0 = m /\ 0 \in Nat
      BY TotalFacts, SMT
    <2>2. Total(t, m) <= Total(t, m)
      BY <2>1, SMT
    <2>3. QED
      BY <2>1, <2>2
  <1>2. ASSUME NEW d \in Nat, d \in G PROVE d + 1 \in G
    <2>1. m + d \in Nat /\ m + (d + 1) = (m + d) + 1 /\ d + 1 \in Nat
      BY SMT
    <2>2. /\ Total(t, m) \in Nat /\ Total(t, m + d) \in Nat
          /\ Total(t, (m + d) + 1) = Total(t, m + d) + NumberAt(t, (m + d) + 1)
          /\ NumberAt(t, (m + d) + 1) \in 0..99
          /\ Total(t, m) <= Total(t, m + d)
      BY <1>2, <2>1, TotalFacts, NumberType DEF NumberAt
    <2>3. Total(t, m) <= Total(t, (m + d) + 1)
      BY <2>2, SMT
    <2>4. QED
      BY <2>1, <2>3
  <1>3. Nat \subseteq G
    <2> HIDE DEF G
    <2>1. QED
      BY <1>1, <1>2, Numbers
  <1>4. n - m \in Nat /\ m + (n - m) = n
    BY SMT
  <1>5. QED
    BY <1>3, <1>4

-----------------------------------------------------------------------------
(* strtoul of the C library *)

\* The equation of Value.
Digits(s, first, V, k) ==
  IF k < first THEN 0
  ELSE IF \A m \in first..k : IsDigit(s[m]) THEN 10 * V[k - 1] + Digit(s[k]) ELSE V[k - 1]

Values(s, first) == CHOOSE V : V = [k \in (first - 1)..Len(s) |-> Digits(s, first, V, k)]

\* Value is the last entry of its table.
LEMMA ValueDef == \A s, first : Value(s, first) = Values(s, first)[Len(s)]
  BY DEF Value, Values, Digits

\* The equation has a solution for a string of any length.
LEMMA DigitsExist ==
  ASSUME NEW s, NEW f \in Nat \ {0}, NEW n \in Nat
  PROVE  \E h : h = [k \in (f - 1)..n |-> Digits(s, f, h, k)]
  <1> DEFINE G == {m \in Nat : \E h : h = [k \in (f - 1)..m |-> Digits(s, f, h, k)]}
  <1>1. 0 \in G
    <2> DEFINE h == [k \in (f - 1)..0 |-> 0]
    <2>1. 0 \in Nat /\ \A k \in (f - 1)..0 : k < f
      BY SMT
    <2>2. \A k \in (f - 1)..0 : Digits(s, f, h, k) = 0
      BY <2>1 DEF Digits
    <2>3. h = [k \in (f - 1)..0 |-> Digits(s, f, h, k)]
      BY <2>2
    <2>4. QED
      BY <2>1, <2>3
  <1>2. ASSUME NEW m \in Nat, m \in G PROVE m + 1 \in G
    <2>1. PICK h : h = [k \in (f - 1)..m |-> Digits(s, f, h, k)]
      BY <1>2
    <2> DEFINE g == [k \in (f - 1)..(m + 1) |-> Digits(s, f, h, k)]
    <2>2. /\ m + 1 \in Nat
          /\ \A k \in (f - 1)..(m + 1) : ~(k < f) =>
               k - 1 \in (f - 1)..m /\ k - 1 \in (f - 1)..(m + 1)
      BY SMT
    <2>3. \A k \in (f - 1)..m : h[k] = Digits(s, f, h, k)
      BY <2>1
    <2>4. \A k \in (f - 1)..(m + 1) : g[k] = Digits(s, f, h, k)
      OBVIOUS
    <2> HIDE DEF g
    <2>5. ASSUME NEW k \in (f - 1)..(m + 1) PROVE Digits(s, f, h, k) = Digits(s, f, g, k)
      <3>1. CASE k < f
        BY <3>1 DEF Digits
      <3>2. CASE ~(k < f)
        <4>1. g[k - 1] = h[k - 1]
          BY <2>2, <2>3, <2>4, <3>2
        <4>2. QED
          BY <3>2, <4>1 DEF Digits
      <3>3. QED
        BY <3>1, <3>2
    <2>6. g = [k \in (f - 1)..(m + 1) |-> Digits(s, f, g, k)]
      BY <2>5 DEF g
    <2>7. QED
      BY <2>2, <2>6
  <1>3. Nat \subseteq G
    <2> HIDE DEF G
    <2>1. QED
      BY <1>1, <1>2, Numbers
  <1>4. QED
    BY <1>3

\* Every entry of the table satisfies the recurrence that defines it.
LEMMA ValuesFacts ==
  ASSUME NEW s, Len(s) \in Nat, NEW f \in Nat \ {0}, NEW k \in (f - 1)..Len(s)
  PROVE  Values(s, f)[k] = Digits(s, f, Values(s, f), k)
  <1> DEFINE V == Values(s, f)
  <1>1. V = [x \in (f - 1)..Len(s) |-> Digits(s, f, V, x)]
    BY DigitsExist DEF Values
  <1> HIDE DEF V
  <1>2. V[k] = Digits(s, f, V, k)
    BY <1>1
  <1>3. QED
    BY <1>2 DEF V

\* The value of digits is a number.
LEMMA ValueType ==
  ASSUME NEW s, Len(s) \in Nat, NEW f \in 1..Len(s)
  PROVE  Value(s, f) \in Nat
  <1> DEFINE n == Len(s)
             V == Values(s, f)
             G == {d \in Nat : f - 1 + d <= n => V[f - 1 + d] \in Nat}
  <1>0. f \in Nat \ {0} /\ n \in Nat /\ f - 1 \in Nat /\ n - (f - 1) \in Nat
    BY SMT
  <1>1. \A k \in (f - 1)..n : V[k] = Digits(s, f, V, k)
    BY <1>0, ValuesFacts
  <1> HIDE DEF V
  <1>2. 0 \in G
    <2>1. /\ 0 \in Nat /\ (f - 1) + 0 = f - 1 /\ f - 1 + 0 = f - 1
          /\ f - 1 \in (f - 1)..n /\ f - 1 < f
      BY <1>0, SMT
    <2>2. V[f - 1] = 0
      BY <1>1, <2>1 DEF Digits
    <2>3. QED
      BY <2>1, <2>2
  <1>3. ASSUME NEW d \in Nat, d \in G PROVE d + 1 \in G
    <2>0. d + 1 \in Nat
      BY SMT
    <2> SUFFICES ASSUME f - 1 + (d + 1) <= n PROVE V[f - 1 + (d + 1)] \in Nat
      BY <2>0
    <2> DEFINE k == f - 1 + (d + 1)
    <2>1. /\ d + 1 \in Nat /\ k \in (f - 1)..n /\ ~(k < f) /\ k - 1 = f - 1 + d
          /\ f - 1 + d <= n /\ k \in f..k
      BY <1>0, SMT
    <2> HIDE DEF k
    <2>2. V[k - 1] \in Nat
      BY <1>3, <2>1
    <2>3. CASE \A m \in f..k : IsDigit(s[m])
      <3>1. IsDigit(s[k]) /\ V[k] = 10 * V[k - 1] + Digit(s[k])
        BY <1>1, <2>1, <2>3 DEF Digits
      <3>2. Digit(s[k]) \in Nat
        BY <3>1, DigitFacts
      <3>3. 10 * V[k - 1] + Digit(s[k]) \in Nat
        BY <2>2, <3>2, SMT
      <3>4. QED
        BY <2>1, <3>1, <3>3 DEF k
    <2>4. CASE ~(\A m \in f..k : IsDigit(s[m]))
      <3>1. V[k] = V[k - 1]
        BY <1>1, <2>1, <2>4 DEF Digits
      <3>2. QED
        BY <2>1, <2>2, <3>1 DEF k
    <2>5. QED
      BY <2>3, <2>4
  <1>4. Nat \subseteq G
    <2> HIDE DEF G
    <2>1. QED
      BY <1>2, <1>3, Numbers
  <1>5. f - 1 + (n - (f - 1)) = n /\ n <= n
    BY <1>0, SMT
  <1>6. V[n] \in Nat
    <2>1. n - (f - 1) \in G
      BY <1>0, <1>4
    <2>2. QED
      BY <1>5, <2>1
  <1>7. QED
    BY <1>6, ValueDef DEF V

\* Of up to four bytes, one or two digits that nothing but other bytes follow.
LEMMA ValueFacts ==
  ASSUME NEW s, NEW n \in 1..4, Len(s) = n, NEW f \in 1..n, IsDigit(s[f]),
         f + 2 <= n => ~(IsDigit(s[f + 1]) /\ IsDigit(s[f + 2]))
  PROVE  Value(s, f) = IF f < n /\ IsDigit(s[f + 1])
                       THEN 10 * Digit(s[f]) + Digit(s[f + 1]) ELSE Digit(s[f])
  <1> DEFINE d == Digit(s[f])
             e == Digit(s[f + 1])
             More == f < n /\ IsDigit(s[f + 1])
             x == IF More THEN 10 * d + e ELSE d
             D == (f - 1)..n
             All(k) == \A m \in f..k : IsDigit(s[m])
             V == Values(s, f)
  <1>1. d \in 0..9 /\ (More => e \in 0..9)
    BY DigitFacts
  <1>2. 10 * 0 + d = d
    <2> HIDE DEF d, e, More
    <2> QED
      BY <1>1, SMT
  <1>3. /\ f \in Nat /\ n \in Nat /\ f - 1 \in D /\ f \in D /\ n \in D
        /\ f - 1 < f /\ ~(f < f) /\ f - 1 # f
        /\ f < n => f + 1 \in D /\ ~(f + 1 < f) /\ (f + 1) - 1 = f /\ f + 1 # f
        /\ f + 2 <= n => f + 2 \in D /\ ~(f + 2 < f) /\ (f + 2) - 1 = f + 1
        /\ f + 3 <= n => f + 3 \in D /\ ~(f + 3 < f) /\ (f + 3) - 1 = f + 2
        /\ n = f \/ n = f + 1 \/ n = f + 2 \/ n = f + 3
        /\ n = f + 2 => f + 2 <= n /\ f < n
        /\ n = f + 3 => f + 3 <= n /\ f + 2 <= n /\ f < n
        /\ n = f + 1 => f < n
        /\ n = f => ~(f < n)
        /\ \A k \in D : k < f \/ k = f \/ k = f + 1 \/ k >= f + 2
        /\ \A k \in D : k = f + 1 => f < n
        /\ \A k \in D : k >= f + 2 =>
             f + 2 <= n /\ f < n /\ ~(k < f) /\ k - 1 \in D /\ ~(k - 1 < f) /\ k - 1 # f /\ k # f
    BY SMT
  <1>4. All(f)
    <2>1. \A m \in f..f : m = f
      BY <1>3, SMT
    <2>2. QED
      BY <2>1
  <1>5. f < n => (All(f + 1) <=> More)
    <2>1. /\ \A m \in f..(f + 1) : m = f \/ m = f + 1
          /\ f + 1 \in f..(f + 1)
      BY <1>3, SMT
    <2>2. QED
      BY <2>1
  <1>6. \A k \in D : k >= f + 2 => ~All(k)
    <2> SUFFICES ASSUME NEW k \in D, k >= f + 2, All(k) PROVE FALSE
      OBVIOUS
    <2>1. f + 1 \in f..k /\ f + 2 \in f..k /\ f + 2 <= n
      BY <1>3, SMT
    <2>2. QED
      BY <2>1
  <1> HIDE DEF All
  <1>7. ASSUME NEW g, NEW k \in D
        PROVE  /\ k < f => Digits(s, f, g, k) = 0
               /\ k = f => Digits(s, f, g, k) = 10 * g[f - 1] + d
               /\ k = f + 1 => Digits(s, f, g, k) = IF More THEN 10 * g[f] + e ELSE g[f]
               /\ k >= f + 2 => Digits(s, f, g, k) = g[k - 1]
    <2>1. CASE k < f
      BY <1>3, <2>1, SMT DEF Digits
    <2>2. CASE k = f
      BY <1>3, <1>4, <2>2, SMT DEF Digits, All
    <2>3. CASE k = f + 1
      BY <1>3, <1>5, <2>3, SMT DEF Digits, All
    <2>4. CASE k >= f + 2
      BY <1>3, <1>6, <2>4, SMT DEF Digits, All
    <2>5. QED
      BY <1>3, <2>1, <2>2, <2>3, <2>4
  <1>10. Value(s, f) = V[n]
    BY ValueDef
  <1>11. \A k \in D : V[k] = Digits(s, f, V, k)
    <2>1. f \in Nat \ {0}
      BY SMT
    <2>2. Len(s) \in Nat
      BY <1>3
    <2>3. \A k \in (f - 1)..Len(s) : Values(s, f)[k] = Digits(s, f, Values(s, f), k)
      BY <2>1, <2>2, ValuesFacts
    <2>4. QED
      BY <2>3
  <1> HIDE DEF V, d, e, More
  <1>12. V[f - 1] = 0 /\ V[f] = d
    <2> HIDE DEF D
    <2>1. V[f - 1] = 0
      BY <1>3, <1>7, <1>11
    <2>2. V[f] = 10 * V[f - 1] + d
      BY <1>3, <1>7, <1>11
    <2>3. QED
      BY <1>2, <2>1, <2>2
  <1>13. f < n => V[f + 1] = x
    BY <1>3, <1>7, <1>11, <1>12
  <1>14. f + 2 <= n => V[f + 2] = x
    <2>1. f + 2 <= n => f + 2 >= f + 2 /\ f < n
      BY <1>3, SMT
    <2> HIDE DEF x, D
    <2>2. f + 2 <= n => V[f + 2] = V[(f + 2) - 1]
      BY <1>3, <1>7, <1>11, <2>1
    <2>3. QED
      BY <1>3, <1>13, <2>1, <2>2
  <1>15. f + 3 <= n => V[f + 3] = x
    <2>1. f + 3 <= n => f + 3 >= f + 2 /\ f + 2 <= n
      BY <1>3, SMT
    <2> HIDE DEF x, D
    <2>2. f + 3 <= n => V[f + 3] = V[(f + 3) - 1]
      BY <1>3, <1>7, <1>11, <2>1
    <2>3. QED
      BY <1>3, <1>14, <2>1, <2>2
  <1>16. V[n] = x
    <2>1. n = f => x = d
      BY <1>3 DEF More
    <2>2. QED
      BY <1>3, <1>12, <1>13, <1>14, <1>15, <2>1
  <1>17. QED
    BY <1>10, <1>16 DEF x, d, e, More

\* A byte is only one of a digit, white space and a sign.
LEMMA ByteKinds ==
  \A c : IsDigit(c) => ~IsSpace(c) /\ c \notin {43, 45} /\ c # NUL
  BY SMT DEF IsDigit, IsSpace, NUL

\* White space is skipped up to the first digit.
LEMMA LibcFacts ==
  ASSUME NEW s, NEW n \in 1..4, Len(s) = n, NEW f \in 1..n, IsDigit(s[f]),
         \A m \in 1..(f - 1) : IsSpace(s[m])
  PROVE  Libc(s) = Value(s, f)
  <1> DEFINE Starts(k) == /\ \A m \in 1..(k - 1) : IsSpace(s[m])
                          /\ k <= Len(s) => ~IsSpace(s[k])
             start == CHOOSE k \in 1..(Len(s) + 1) : Starts(k)
  <1>1. ~IsSpace(s[f]) /\ s[f] \notin {43, 45}
    BY ByteKinds
  <1>2. f \in 1..(n + 1) /\ f <= n /\ ~(f > n)
    BY SMT
  <1>3. start \in 1..(n + 1) /\ Starts(start)
    <2>1. Starts(f)
      BY <1>1
    <2>2. QED
      BY <1>2, <2>1
  <1> HIDE DEF start
  <1>4. start = f
    <2>1. CASE start < f
      <3>1. start \in 1..(f - 1) /\ start <= n
        BY <1>2, <1>3, <2>1, SMT
      <3>2. QED
        BY <1>3, <3>1
    <2>2. CASE f < start
      <3>1. f \in 1..(start - 1)
        BY <1>2, <1>3, <2>2, SMT
      <3>2. QED
        BY <1>1, <1>3, <3>1
    <2>3. start < f \/ f < start \/ start = f
      BY <1>2, <1>3, SMT
    <2>4. QED
      BY <2>1, <2>2, <2>3
  <1>5. Libc(s) = LET sign  == start <= Len(s) /\ s[start] \in {43, 45}
                      first == IF sign THEN start + 1 ELSE start
                      value == IF first > Len(s) THEN 0 ELSE Value(s, first)
                  IN  IF sign /\ s[start] = 45 THEN (ULONG - value) % ULONG ELSE value
    BY DEF Libc, start
  <1>6. QED
    BY <1>1, <1>2, <1>4, <1>5

\* On two bytes in which bpf_strtoul finds a number the C library finds the same.
LEMMA LibcTwo ==
  ASSUME NEW a, NEW b, Parses(a, b)
  PROVE  Libc(<<a, b>>) = Number(a, b)
  <1> DEFINE s == <<a, b>>
  <1>1. Len(s) = 2 /\ s[1] = a /\ s[2] = b
    BY SMT
  <1> HIDE DEF s
  <1>2. /\ 2 \in 1..4 /\ 1 \in 1..2 /\ 2 \in 1..2 /\ 1 < 2 /\ ~(2 < 2) /\ 1 + 1 = 2
        /\ ~(1 + 2 <= 2) /\ ~(2 + 2 <= 2)
        /\ \A m \in 1..(1 - 1) : FALSE
        /\ \A m \in 1..(2 - 1) : m = 1
    BY SMT
  <1>3. CASE IsDigit(a)
    <2>1. Libc(s) = Value(s, 1)
      BY <1>1, <1>2, <1>3, LibcFacts
    <2>2. Value(s, 1) = IF IsDigit(b) THEN 10 * Digit(a) + Digit(b) ELSE Digit(a)
      <3>1. Value(s, 1) = IF 1 < 2 /\ IsDigit(s[1 + 1])
                          THEN 10 * Digit(s[1]) + Digit(s[1 + 1]) ELSE Digit(s[1])
        BY <1>1, <1>2, <1>3, ValueFacts
      <3>2. QED
        BY <1>1, <1>2, <3>1
    <2>3. ~IsSpace(a)
      BY <1>3, ByteKinds
    <2>4. QED
      BY <1>3, <2>1, <2>2, <2>3 DEF Number, s
  <1>4. CASE ~IsDigit(a)
    <2>0. IsSpace(a) /\ IsDigit(b)
      BY <1>4 DEF Parses
    <2>1. Libc(s) = Value(s, 2)
      BY <1>1, <1>2, <2>0, LibcFacts
    <2>2. Value(s, 2) = Digit(b)
      <3>1. Value(s, 2) = IF 2 < 2 /\ IsDigit(s[2 + 1])
                          THEN 10 * Digit(s[2]) + Digit(s[2 + 1]) ELSE Digit(s[2])
        BY <1>1, <1>2, <2>0, ValueFacts
      <3>2. QED
        BY <1>1, <1>2, <3>1
    <2>3. QED
      BY <1>4, <2>0, <2>1, <2>2 DEF Number, s
  <1>5. QED
    BY <1>3, <1>4

\* Two digits and a byte that ends them; what lies beyond does not matter.
LEMMA LibcFour ==
  ASSUME NEW a, NEW b, NEW c, NEW x, IsDigit(a), IsDigit(b), ~IsDigit(c)
  PROVE  Libc(<<a, b, c, x>>) = Number(a, b)
  <1> DEFINE s == <<a, b, c, x>>
  <1>1. Len(s) = 4 /\ s[1] = a /\ s[2] = b /\ s[3] = c
    BY SMT
  <1> HIDE DEF s
  <1>2. /\ 4 \in 1..4 /\ 1 \in 1..4 /\ 1 < 4 /\ 1 + 1 = 2 /\ 1 + 2 = 3
        /\ \A m \in 1..(1 - 1) : FALSE
    BY SMT
  <1>3. Libc(s) = Value(s, 1)
    BY <1>1, <1>2, LibcFacts
  <1>4. Value(s, 1) = 10 * Digit(a) + Digit(b)
    <2>1. Value(s, 1) = IF 1 < 4 /\ IsDigit(s[1 + 1])
                        THEN 10 * Digit(s[1]) + Digit(s[1 + 1]) ELSE Digit(s[1])
      BY <1>1, <1>2, ValueFacts
    <2>2. QED
      BY <1>1, <1>2, <2>1
  <1>5. ~IsSpace(a)
    BY ByteKinds
  <1>6. QED
    BY <1>3, <1>4, <1>5 DEF Number, s

\* strtoul returns a number whatever the bytes are.
LEMMA LibcType ==
  ASSUME NEW s, Len(s) \in Nat
  PROVE  Libc(s) \in Nat
  <1> DEFINE n == Len(s)
             Starts(k) == /\ \A m \in 1..(k - 1) : IsSpace(s[m])
                          /\ k <= Len(s) => ~IsSpace(s[k])
             start == CHOOSE k \in 1..(Len(s) + 1) : Starts(k)
             sign  == start <= Len(s) /\ s[start] \in {43, 45}
             first == IF sign THEN start + 1 ELSE start
             value == IF first > Len(s) THEN 0 ELSE Value(s, first)
  <1>1. start \in 1..(n + 1)
    <2> DEFINE K == {k \in 1..(n + 1) : k <= n => ~IsSpace(s[k])}
    <2>1. K \subseteq Nat /\ n + 1 \in K
      <3>1. (1..(n + 1)) \subseteq Nat /\ n + 1 \in 1..(n + 1) /\ ~(n + 1 <= n)
        BY SMT
      <3>2. QED
        BY <3>1
    <2>2. PICK k \in K : \A m \in K : k <= m
      BY <2>1, LeastNumber
    <2>3. Starts(k)
      <3> SUFFICES ASSUME NEW m \in 1..(k - 1) PROVE IsSpace(s[m])
        OBVIOUS
      <3>1. k \in 1..(n + 1)
        OBVIOUS
      <3>2. m \in 1..(n + 1) /\ m <= n /\ ~(k <= m)
        BY <3>1, SMT
      <3>3. QED
        BY <2>2, <3>2
    <2>4. QED
      BY <2>3
  <1> HIDE DEF start
  <1>2. first \in Nat /\ (~(first > n) => first \in 1..n)
    <2>1. CASE sign
      BY <1>1, <2>1, SMT
    <2>2. CASE ~sign
      <3> HIDE DEF sign
      <3> QED
        BY <1>1, <2>2, SMT
    <2>3. QED
      BY <2>1, <2>2
  <1> HIDE DEF first, sign
  <1>3. value \in Nat
    <2>1. 0 \in Nat
      BY SMT
    <2>2. QED
      BY <1>2, <2>1, ValueType
  <1>4. Libc(s) = IF sign /\ s[start] = 45 THEN (ULONG - value) % ULONG ELSE value
    BY DEF Libc, start, sign, first
  <1> HIDE DEF value
  <1>5. (ULONG - value) % ULONG \in Nat
    <2>1. ULONG \in Nat \ {0}
      <3>1. CHUNK * CHUNKS \in Nat
        <4>1. CHUNK \in Nat /\ CHUNKS \in Nat
          BY ChunkAssumption
        <4>2. QED
          BY <4>1, SMT
      <3>2. PAGE_SIZE \in Nat
        BY <3>1 DEF PAGE_SIZE
      <3>3. QED
        BY <3>2, SumAssumption, SMT
    <2>2. QED
      BY <1>3, <2>1, SMT
  <1>6. QED
    BY <1>3, <1>4, <1>5

-----------------------------------------------------------------------------
(* The page *)

\* The file in the page cache is a sequence of bytes no longer than the page.
LEMMA TextFacts ==
  TypeInv => Len(text) \in Nat /\ Len(text) <= PAGE_SIZE /\ DOMAIN text = 1..Len(text)
  <1> SUFFICES ASSUME TypeInv PROVE Len(text) \in Nat /\ Len(text) <= PAGE_SIZE
                                    /\ DOMAIN text = 1..Len(text)
    OBVIOUS
  <1>1. text \in Seq(Byte) /\ Len(text) <= PAGE_SIZE
    BY FileAssumption DEF TypeInv, text
  <1> HIDE DEF text
  <1>2. Len(text) \in Nat /\ DOMAIN text = 1..Len(text)
    BY <1>1, SMT
  <1>3. QED
    BY <1>1, <1>2

\* The assumptions on the sizes, in the form the steps use.
LEMMA Sizes ==
  /\ CHUNK \in Nat /\ TRIPLES \in Nat /\ CHUNKS \in Nat /\ ULONG \in Nat /\ PAGE_SIZE \in Nat
  /\ CHUNK # 0 /\ TRIPLES # 0 /\ CHUNKS # 0
  /\ 3 * TRIPLES < CHUNK /\ 99 * PAGE_SIZE < ULONG /\ UBUFFSIZE = 9
  <1>1. /\ CHUNK \in Nat /\ TRIPLES \in Nat /\ CHUNKS \in Nat
        /\ CHUNK # 0 /\ TRIPLES # 0 /\ CHUNKS # 0
    BY ChunkAssumption
  <1>2. CHUNK * CHUNKS \in Nat
    BY <1>1, SMT
  <1>3. QED
    BY <1>1, <1>2, ChunkAssumption, SumAssumption DEF PAGE_SIZE

\* bpf_probe_read_str copies up to a zero and no further than size - 1 bytes.
LEMMA ReadStrFacts ==
  ASSUME NEW old, NEW size \in Nat, 2 <= size, NEW at \in Nat
  PROVE  /\ PageByte(at) = NUL => ReadStr(old, size, at)[0] = NUL
         /\ (\A k \in 0..(size - 2) : PageByte(at + k) # NUL) =>
              \A k \in 0..(size - 2) : ReadStr(old, size, at)[k] = PageByte(at + k)
  <1> DEFINE Inside(k) == \A m \in 0..k : PageByte(at + m) # NUL
             Arm(k) == IF k < size - 1 /\ Inside(k) THEN PageByte(at + k)
                       ELSE IF k = 0 \/ Inside(k - 1) THEN NUL ELSE old[k]
             u == ReadStr(old, size, at)
  <1>1. u = [k \in 0..(size - 1) |-> Arm(k)]
    BY DEF ReadStr
  <1> HIDE DEF Arm, u
  <1>2. \A k \in 0..(size - 1) : u[k] = Arm(k)
    BY <1>1
  <1>3. ASSUME PageByte(at) = NUL PROVE u[0] = NUL
    <2>1. 0 \in 0..(size - 1) /\ 0 \in 0..0 /\ at + 0 = at
      BY SMT
    <2>2. ~Inside(0)
      BY <1>3, <2>1
    <2>3. Arm(0) = NUL
      BY <2>2 DEF Arm
    <2>4. QED
      BY <1>2, <2>1, <2>3
  <1>4. ASSUME \A k \in 0..(size - 2) : PageByte(at + k) # NUL, NEW k \in 0..(size - 2)
        PROVE  u[k] = PageByte(at + k)
    <2>1. /\ k \in 0..(size - 1) /\ k < size - 1
          /\ \A m \in 0..k : m \in 0..(size - 2)
      BY SMT
    <2>2. Inside(k)
      BY <1>4, <2>1
    <2>3. QED
      BY <1>2, <2>1, <2>2 DEF Arm
  <1>5. QED
    BY <1>3, <1>4 DEF u

\* A regular file has no zero in it.
LEMMA RegularFacts ==
  ASSUME NEW t, Regular(t)
  PROVE  /\ \A k \in DOMAIN t : t[k] # NUL
         /\ \A k \in DOMAIN t : k % 3 = 0 => IsSpace(t[k]) /\ ~IsDigit(t[k])
         /\ \A k \in DOMAIN t : k % 3 # 0 => IsDigit(t[k]) /\ ~IsSpace(t[k])
  <1>1. \A c : IsSpace(c) => c # NUL
    BY SMT DEF IsSpace, NUL
  <1>2. QED
    BY <1>1, ByteKinds DEF Regular

\* A triple of a regular page, in step or not, is at most the number it touches.
LEMMA OutOfStep ==
  ASSUME NEW t, NEW n \in Nat, DOMAIN t = 1..n, Regular(t), NEW p \in Nat, p + 3 <= n
  PROVE  /\ Number3(t[p + 1], t[p + 2], t[p + 3]) \in Nat
         /\ Number3(t[p + 1], t[p + 2], t[p + 3]) <= NumberAt(t, Before(p) + 1)
         /\ Before(p) \in Nat /\ Before(p) + 1 = Before(p + 3)
  <1>1. p + 1 \in DOMAIN t /\ p + 2 \in DOMAIN t /\ p + 3 \in DOMAIN t
    BY SMT
  <1>2. Before(p) \in Nat /\ Before(p) + 1 = Before(p + 3)
    BY SMT DEF Before
  <1>0. \A a, b : Number(a, b) \in Nat /\ Number(a, b) <= Number(a, b)
    <2>1. \A x \in 0..99 : x \in Nat /\ x <= x
      BY SMT
    <2>2. QED
      BY <2>1, NumberType
  <1>3. CASE p % 3 = 0
    <2>1. /\ (p + 1) % 3 # 0 /\ (p + 2) % 3 # 0 /\ (p + 3) % 3 = 0
          /\ 3 * (Before(p) + 1) - 2 = p + 1 /\ 3 * (Before(p) + 1) - 1 = p + 2
      BY <1>3, SMT DEF Before
    <2>2. IsDigit(t[p + 1]) /\ ~IsSpace(t[p + 1]) /\ ~IsDigit(t[p + 3])
      BY <1>1, <2>1, RegularFacts
    <2>3. Number3(t[p + 1], t[p + 2], t[p + 3]) = NumberAt(t, Before(p) + 1)
      BY <2>1, <2>2 DEF Number3, NumberAt
    <2>4. QED
      BY <1>0, <1>2, <2>3 DEF NumberAt
  <1>4. CASE p % 3 = 1
    <2>1. /\ p \in DOMAIN t /\ p % 3 # 0
          /\ (p + 1) % 3 # 0 /\ (p + 2) % 3 = 0
          /\ 3 * (Before(p) + 1) - 2 = p /\ 3 * (Before(p) + 1) - 1 = p + 1
      BY <1>4, SMT DEF Before
    <2>2. /\ IsDigit(t[p]) /\ ~IsSpace(t[p]) /\ IsDigit(t[p + 1]) /\ ~IsSpace(t[p + 1])
          /\ ~IsDigit(t[p + 2])
      BY <1>1, <2>1, RegularFacts
    <2>3. /\ Number3(t[p + 1], t[p + 2], t[p + 3]) = Digit(t[p + 1])
          /\ NumberAt(t, Before(p) + 1) = 10 * Digit(t[p]) + Digit(t[p + 1])
      BY <2>1, <2>2 DEF Number3, NumberAt, Number
    <2>4. Digit(t[p]) \in 0..9 /\ Digit(t[p + 1]) \in 0..9
      BY <2>2, DigitFacts
    <2>5. Digit(t[p + 1]) \in Nat /\ Digit(t[p + 1]) <= 10 * Digit(t[p]) + Digit(t[p + 1])
      <3>1. \A d, e \in 0..9 : e \in Nat /\ e <= 10 * d + e
        BY SMT
      <3>2. QED
        BY <2>4, <3>1
    <2>6. QED
      BY <1>2, <2>3, <2>5
  <1>5. CASE p % 3 = 2
    <2>1. /\ (p + 1) % 3 = 0
          /\ 3 * (Before(p) + 1) - 2 = p + 2 /\ 3 * (Before(p) + 1) - 1 = p + 3
      BY <1>5, SMT DEF Before
    <2>2. IsSpace(t[p + 1])
      BY <1>1, <2>1, RegularFacts
    <2>3. Number3(t[p + 1], t[p + 2], t[p + 3]) = NumberAt(t, Before(p) + 1)
      BY <2>1, <2>2 DEF Number3, NumberAt
    <2>4. QED
      BY <1>0, <1>2, <2>3 DEF NumberAt
  <1>6. p % 3 \in {0, 1, 2}
    BY SMT
  <1>7. QED
    BY <1>3, <1>4, <1>5, <1>6

-----------------------------------------------------------------------------
(* The inductive invariant *)

\* The multiples of the chunks: chunk n of the page lies inside the page.
LEMMA Chunk ==
  ASSUME NEW n \in Nat, n < CHUNKS
  PROVE  /\ n * CHUNK \in Nat /\ (n + 1) * CHUNK = n * CHUNK + CHUNK
         /\ n * CHUNK + CHUNK <= PAGE_SIZE
  <1>1. CHUNK \in Nat /\ CHUNKS \in Nat
    BY Sizes
  <1>2. n * CHUNK \in Nat /\ (n + 1) * CHUNK = n * CHUNK + CHUNK
    BY <1>1, SMT
  <1>3. \E m \in Nat : CHUNKS = n + 1 + m
    <2>1. CHUNKS - n - 1 \in Nat /\ CHUNKS = n + 1 + (CHUNKS - n - 1)
      BY <1>1, SMT
    <2>2. QED
      BY <2>1
  <1>4. PICK m \in Nat : CHUNKS = n + 1 + m
    BY <1>3
  <1>5. CHUNK * (n + 1 + m) = n * CHUNK + CHUNK + m * CHUNK /\ m * CHUNK \in Nat
    BY <1>1, SMT
  <1>6. n * CHUNK + CHUNK <= CHUNK * (n + 1 + m)
    <2> DEFINE a == n * CHUNK
               b == m * CHUNK
               c == CHUNK * (n + 1 + m)
    <2>1. a \in Nat /\ b \in Nat /\ c = a + CHUNK + b
      BY <1>2, <1>5
    <2> HIDE DEF a, b, c
    <2>2. a + CHUNK <= c
      BY <1>1, <2>1, SMT
    <2>3. QED
      BY <2>2 DEF a, c
  <1>7. QED
    BY <1>2, <1>4, <1>6 DEF PAGE_SIZE

\* Products of the sizes and the loop variables.
LEMMA Products ==
  ASSUME NEW n \in Nat
  PROVE  /\ n * TRIPLES \in Nat /\ (n + 1) * TRIPLES = n * TRIPLES + TRIPLES
         /\ n * CHUNK \in Nat /\ (n + 1) * CHUNK = n * CHUNK + CHUNK
         /\ 0 * TRIPLES = 0 /\ 0 * CHUNK = 0
  <1>1. CHUNK \in Nat /\ TRIPLES \in Nat
    BY Sizes
  <1>2. QED
    BY <1>1, SMT

\* A remainder is no more than the number, and a number that fits is itself.
LEMMA Remainder ==
  ASSUME NEW x \in Nat
  PROVE  x % ULONG \in Nat /\ x % ULONG <= x /\ (x < ULONG => x % ULONG = x)
  <1>1. ULONG \in Nat \ {0}
    <2>1. ULONG \in Nat /\ PAGE_SIZE \in Nat /\ 99 * PAGE_SIZE < ULONG
      BY Sizes
    <2>2. QED
      BY <2>1, SMT
  <1>2. QED
    BY <1>1, SMT

\* The tail call starts on the first nine bytes.
LEMMA TailCopied ==
  ASSUME NoNul(text), NEW old
  PROVE  \A k \in 0..(UBUFFSIZE - 2) : ReadStr(old, UBUFFSIZE, 0)[k] = text[k + 1]
  <1>1. UBUFFSIZE \in Nat /\ 2 <= UBUFFSIZE /\ 0 \in Nat
    BY Sizes, SMT
  <1>2. ASSUME NEW k \in 0..(UBUFFSIZE - 2)
        PROVE  0 + k = k /\ PageByte(0 + k) = text[k + 1] /\ text[k + 1] # NUL
    <2>1. UBUFFSIZE = 9
      BY Sizes
    <2>2. 0 + k = k /\ k + 1 \in 1..UBUFFSIZE
      BY <2>1, SMT
    <2>3. k < Len(text)
      <3>1. Len(text) >= UBUFFSIZE
        BY DEF NoNul
      <3>2. QED
        BY <2>1, <3>1, SMT
    <2>4. QED
      BY <2>2, <2>3 DEF NoNul, PageByte
  <1>3. \A k \in 0..(UBUFFSIZE - 2) : PageByte(0 + k) # NUL
    BY <1>2
  <1>4. \A k \in 0..(UBUFFSIZE - 2) : ReadStr(old, UBUFFSIZE, 0)[k] = PageByte(0 + k)
    BY <1>1, <1>3, ReadStrFacts
  <1>5. QED
    BY <1>2, <1>4

\* The initial states satisfy the invariant.
LEMMA InitInv == Init => IInv
  <1> SUFFICES ASSUME Init PROVE IInv
    OBVIOUS
  <1>1. 0 \in Nat /\ 3 \in Nat /\ NoResult \in Int
    BY SMT DEF NoResult
  <1>2. TypeInv
    BY <1>1 DEF Init, TypeInv
  <1>3. TailInv
    <2>1. NoNul(text) => \A k \in 0..(UBUFFSIZE - 2) : userbuff[k] = text[k + 1]
      BY TailCopied DEF Init
    <2>2. 0 # 3 /\ 0 # 6 /\ 0 # 9
      BY SMT
    <2>3. QED
      BY <2>1, <2>2 DEF Init, TailInv
  <1>4. UserInv /\ BenchInv
    BY DEF Init, UserInv, BenchInv
  <1>5. TailAgreesWithLibc /\ UserAverages
    BY DEF Init, TailAgreesWithLibc, UserAverages
  <1>6. QED
    BY <1>2, <1>3, <1>4, <1>5 DEF Init, IInv

\* Every step keeps the kinds of the variables.
LEMMA TypeStep == IInv /\ [Next]_vars => TypeInv'
  <1> SUFFICES ASSUME IInv, [Next]_vars PROVE TypeInv'
    OBVIOUS
  <1>1. /\ TypeInv
        /\ i \in Nat /\ j \in Nat /\ sum \in Nat /\ elems \in Nat
        /\ out \in [tail : Int, user : Int, bench : Int]
    BY DEF IInv, TypeInv
  <1>2. /\ i + 3 \in Nat /\ i + 1 \in Nat /\ j + 1 \in Nat /\ elems + 1 \in Nat /\ 0 \in Nat
        /\ elems # 0 => sum \div elems \in Int
        /\ NoResult \in Int
    BY <1>1, SMT DEF NoResult
  <1>3. \A x \in Nat : (sum + x) % ULONG \in Nat
    <2>1. \A x \in Nat : sum + x \in Nat
      BY <1>1, SMT
    <2>2. QED
      BY <2>1, Remainder
  <1>4. \A a, b : Number(a, b) \in Nat
    <2>1. 0..99 \subseteq Nat
      BY SMT
    <2>2. QED
      BY <2>1, NumberType
  <1>5. CASE TailTurn
    BY <1>1, <1>2, <1>3, <1>4, <1>5 DEF TypeInv, TailTurn
  <1>6. CASE TailGivesUp
    BY <1>1, <1>2, <1>6 DEF TypeInv, TailGivesUp, EnterUser
  <1>7. CASE TailPublishes
    <2>1. elems # 0
      <3>1. elems = 3
        BY <1>7 DEF TailPublishes, IInv, TailInv
      <3>2. QED
        BY <3>1, SMT
    <2>2. QED
      BY <1>1, <1>2, <1>7, <2>1 DEF TypeInv, TailPublishes, EnterUser
  <1>8. CASE UserTurn
    <2>1. PICK c \in Stack :
            sum' = (sum + Libc(<<text[i + 1], text[i + 2], text[i + 3], c>>)) % ULONG
      BY <1>8 DEF UserTurn
    <2>2. Len(<<text[i + 1], text[i + 2], text[i + 3], c>>) \in Nat
      BY SMT
    <2>3. sum' \in Nat
      BY <1>3, <2>1, <2>2, LibcType
    <2>4. QED
      BY <1>1, <1>2, <1>8, <2>3 DEF TypeInv, UserTurn
  <1>9. CASE UserDivides
    BY <1>1, <1>2, <1>9 DEF TypeInv, UserDivides, EnterBench
  <1>10. CASE BenchReads
    BY <1>1, <1>2, <1>10 DEF TypeInv, BenchReads
  <1>11. CASE BenchTurn
    <2>1. TripleNumber \in Nat
      <3>1. ASSUME NEW a, NEW b, NEW c PROVE Number3(a, b, c) \in Nat
        <4>1. CASE ~IsSpace(a) /\ IsDigit(a) /\ IsDigit(b) /\ IsDigit(c)
          <5>1. Digit(c) \in Nat /\ Number(a, b) \in Nat
            <6>1. Digit(c) \in Nat
              BY <4>1, DigitFacts
            <6>2. QED
              BY <1>4, <6>1
          <5>2. 10 * Number(a, b) + Digit(c) \in Nat
            BY <5>1, SMT
          <5>3. QED
            BY <4>1, <5>2 DEF Number3
        <4>2. CASE ~(~IsSpace(a) /\ IsDigit(a) /\ IsDigit(b) /\ IsDigit(c))
          BY <1>4, <4>2 DEF Number3
        <4>3. QED
          BY <4>1, <4>2
      <3>2. QED
        BY <3>1 DEF TripleNumber
    <2>2. QED
      BY <1>1, <1>2, <1>3, <1>11, <2>1 DEF TypeInv, BenchTurn
  <1>12. CASE BenchGivesUp
    BY <1>1, <1>2, <1>12 DEF TypeInv, BenchGivesUp
  <1>13. CASE BenchNextChunk
    BY <1>1, <1>2, <1>13 DEF TypeInv, BenchNextChunk
  <1>14. CASE BenchPublishes
    <2>1. elems # 0
      <3>1. elems = CHUNKS * TRIPLES
        BY <1>14 DEF BenchPublishes, IInv, BenchInv
      <3>2. CHUNKS \in Nat /\ TRIPLES \in Nat /\ CHUNKS # 0 /\ TRIPLES # 0
        BY Sizes
      <3>3. CHUNKS * TRIPLES # 0
        BY <3>2, SMT
      <3>4. QED
        BY <3>1, <3>3
    <2>2. QED
      BY <1>1, <1>2, <1>14, <2>1 DEF TypeInv, BenchPublishes
  <1>15. CASE UNCHANGED vars
    BY <1>1, <1>15 DEF TypeInv, vars
  <1>16. QED
    BY <1>5, <1>6, <1>7, <1>8, <1>9, <1>10, <1>11, <1>12, <1>13, <1>14, <1>15 DEF Next

\* Every turn of the tail call adds what strtoul returns for its triple.
LEMMA TailStep == IInv /\ [Next]_vars => TailInv'
  <1> SUFFICES ASSUME IInv, [Next]_vars PROVE TailInv'
    OBVIOUS
  <1>1. TailInv /\ TypeInv
    BY DEF IInv
  <1>2. CASE TailTurn
    <2>1. /\ pc = "tail" /\ i < UBUFFSIZE /\ Parses(userbuff[i], userbuff[i + 1])
          /\ sum' = (sum + Number(userbuff[i], userbuff[i + 1])) % ULONG
          /\ i' = i + 3 /\ text' = text /\ pc' = pc /\ userbuff' = userbuff
          /\ elems' = elems /\ out' = out
      BY <1>2 DEF TailTurn, InTail, text
    <2>2. /\ elems = 3 /\ i \in {0, 3, 6, 9} /\ out.tail = NoResult /\ UBUFFSIZE = 9
      BY <1>1, <2>1, Sizes DEF TailInv
    <2>3. /\ i \in {0, 3, 6} /\ i' \in {3, 6, 9}
          /\ i' = 3 => i = 0
          /\ i' = 6 => i = 3
          /\ i' = 9 => i = 6
          /\ i' # 0
      BY <2>1, <2>2, SMT
    <2>4. ASSUME NoNul(text)
          PROVE  /\ i' = 3 => sum' = First(text) /\ sum' <= 99
                 /\ i' = 6 => sum' = First(text) + Second(text) /\ sum' <= 198
                 /\ i' = 9 => sum' = First(text) + Second(text) + Third(text)
      <3> DEFINE x == Number(userbuff[i], userbuff[i + 1])
      <3>1. x \in 0..99
        BY NumberType
      <3>2. /\ 297 < ULONG /\ ULONG \in Nat
        <4>1. Len(text) >= 9 /\ Len(text) \in Nat /\ Len(text) <= PAGE_SIZE
          BY <1>1, <2>2, <2>4, TextFacts DEF NoNul
        <4>2. PAGE_SIZE \in Nat /\ ULONG \in Nat /\ 99 * PAGE_SIZE < ULONG
          BY Sizes
        <4>3. QED
          BY <4>1, <4>2, SMT
      <3>3. sum \in Nat
        BY <1>1 DEF TypeInv
      <3>4. sum <= 198 => sum' = sum + x
        <4> HIDE DEF x
        <4>1. sum + x \in Nat /\ (sum <= 198 => sum + x < ULONG)
          BY <3>1, <3>2, <3>3, SMT
        <4>2. QED
          BY <2>1, <4>1, Remainder DEF x
      <3>5. /\ \A k \in 0..7 : userbuff[k] = text[k + 1]
            /\ i = 0 => sum = 0
            /\ i = 3 => sum = First(text) /\ sum <= 99
            /\ i = 6 => sum = First(text) + Second(text) /\ sum <= 198
        <4>1. UBUFFSIZE - 2 = 7
          BY <2>2, SMT
        <4>2. QED
          BY <1>1, <2>1, <2>4, <4>1 DEF TailInv
      <3>6. /\ i = 0 => userbuff[i] = text[1] /\ userbuff[i + 1] = text[2]
            /\ i = 3 => userbuff[i] = text[4] /\ userbuff[i + 1] = text[5]
            /\ i = 6 => userbuff[i] = text[7] /\ userbuff[i + 1] = text[8]
        <4>1. /\ 0 \in 0..7 /\ 1 \in 0..7 /\ 3 \in 0..7 /\ 4 \in 0..7 /\ 6 \in 0..7 /\ 7 \in 0..7
              /\ 0 + 1 = 1 /\ 1 + 1 = 2 /\ 3 + 1 = 4 /\ 4 + 1 = 5 /\ 6 + 1 = 7 /\ 7 + 1 = 8
          BY SMT
        <4>2. QED
          BY <3>5, <4>1
      <3>7. /\ i = 0 => x = First(text)
            /\ i = 3 => x = Second(text)
            /\ i = 6 => x = Third(text)
        <4>1. x = Libc(<<userbuff[i], userbuff[i + 1]>>)
          BY <2>1, LibcTwo
        <4>2. QED
          BY <3>6, <4>1 DEF First, Second, Third
      <3> HIDE DEF x
      <3>8. CASE i = 0
        <4>1. sum' = x /\ sum' <= 99 /\ i' = 3 /\ i' # 6 /\ i' # 9
          BY <2>1, <3>1, <3>4, <3>5, <3>8, SMT
        <4>2. QED
          BY <3>7, <3>8, <4>1
      <3>9. CASE i = 3
        <4>1. sum' = sum + x /\ sum' <= 198 /\ i' # 3 /\ i' = 6 /\ i' # 9
          BY <2>1, <3>1, <3>3, <3>4, <3>5, <3>9, SMT
        <4>2. QED
          BY <3>5, <3>7, <3>9, <4>1
      <3>10. CASE i = 6
        <4>1. sum' = sum + x /\ i' # 3 /\ i' # 6 /\ i' = 9
          BY <2>1, <3>4, <3>5, <3>10, SMT
        <4>2. QED
          BY <3>5, <3>7, <3>10, <4>1
      <3>11. QED
        BY <2>3, <3>8, <3>9, <3>10
    <2>5. NoNul(text) => \A k \in 0..(UBUFFSIZE - 2) : userbuff[k] = text[k + 1]
      BY <1>1, <2>1 DEF TailInv
    <2>6. QED
      BY <2>1, <2>2, <2>3, <2>4, <2>5 DEF TailInv, NoNul, First, Second, Third
  <1>3. CASE UNCHANGED vars
    <2>1. /\ pc' = pc /\ elems' = elems /\ i' = i /\ out' = out /\ sum' = sum
          /\ userbuff' = userbuff /\ text' = text
      BY <1>3 DEF vars, text
    <2>2. QED
      BY <1>1, <2>1 DEF TailInv, NoNul, First, Second, Third
  <1>4. CASE ~TailTurn /\ Next
    <2>1. pc' # "tail"
      BY <1>4 DEF Next, TailGivesUp, TailPublishes, EnterUser, UserTurn, InUser, UserDivides,
                  EnterBench, BenchReads, BenchTurn, BenchGivesUp, BenchNextChunk,
                  BenchPublishes, InChunk
    <2>2. QED
      BY <2>1 DEF TailInv
  <1>5. QED
    BY <1>2, <1>3, <1>4

\* What the tail call publishes at the end of its loop is the average.
LEMMA AgreesStep == IInv /\ [Next]_vars => TailAgreesWithLibc'
  <1> SUFFICES ASSUME IInv, [Next]_vars PROVE TailAgreesWithLibc'
    OBVIOUS
  <1>1. TailInv /\ TypeInv /\ TailAgreesWithLibc /\ out \in [tail : Int, user : Int, bench : Int]
    BY DEF IInv, TypeInv
  <1>2. CASE TailPublishes
    <2>1. /\ pc = "tail" /\ ~(i < UBUFFSIZE) /\ out'.tail = sum \div elems /\ text' = text
      BY <1>1, <1>2 DEF TailPublishes, InTail, EnterUser, text
    <2>2. elems = 3 /\ i = 9
      <3>1. elems = 3 /\ i \in {0, 3, 6, 9} /\ UBUFFSIZE = 9
        BY <1>1, <2>1, Sizes DEF TailInv
      <3>2. QED
        BY <2>1, <3>1, SMT
    <2>3. NoNul(text) => sum = First(text) + Second(text) + Third(text)
      BY <1>1, <2>1, <2>2 DEF TailInv
    <2>4. QED
      BY <2>1, <2>2, <2>3 DEF TailAgreesWithLibc, NoNul, First, Second, Third
  <1>3. CASE ~TailPublishes
    <2>1. out'.tail = out.tail /\ text' = text
      BY <1>1, <1>3 DEF Next, vars, text, TailTurn, TailGivesUp, EnterUser, UserTurn, UserDivides,
                  EnterBench, BenchReads, BenchTurn, BenchGivesUp, BenchNextChunk,
                  BenchPublishes
    <2>2. QED
      BY <1>1, <2>1 DEF TailAgreesWithLibc
  <1>4. QED
    BY <1>2, <1>3

\* Every turn of userbench adds the next number of a regular file.
LEMMA UserStep == IInv /\ [Next]_vars => UserInv'
  <1> SUFFICES ASSUME IInv, [Next]_vars PROVE UserInv'
    OBVIOUS
  <1>1. UserInv /\ TypeInv /\ out \in [tail : Int, user : Int, bench : Int]
    BY DEF IInv, TypeInv
  <1>2. CASE TailGivesUp \/ TailPublishes
    <2>1. /\ pc = "tail" /\ pc' = "user" /\ i' = 0 /\ sum' = 0 /\ elems' = 0
          /\ out'.user = out.user
      BY <1>1, <1>2 DEF TailGivesUp, TailPublishes, InTail, EnterUser
    <2>2. 0 = 3 * 0
      BY SMT
    <2>3. Total(text', 0) = 0
      <3>1. 0 \in Nat
        BY SMT
      <3>2. QED
        BY <3>1, TotalFacts
    <2>4. out'.user = NoResult
      BY <1>1, <2>1 DEF UserInv
    <2>5. QED
      BY <2>1, <2>2, <2>3, <2>4 DEF UserInv
  <1>3. CASE UserTurn
    <2>1. /\ pc = "user" /\ pc' = pc /\ i < Len(text) - 3 /\ i' = i + 3 /\ elems' = elems + 1
          /\ out' = out /\ text' = text
      BY <1>3 DEF UserTurn, InUser, readbytes, text
    <2>2. PICK c \in Stack :
            sum' = (sum + Libc(<<text[i + 1], text[i + 2], text[i + 3], c>>)) % ULONG
      BY <1>3 DEF UserTurn
    <2>3. /\ i = 3 * elems /\ (Regular(text) => sum = Total(text, elems))
          /\ i \in Nat /\ elems \in Nat /\ Len(text) \in Nat /\ Len(text) <= PAGE_SIZE
          /\ DOMAIN text = 1..Len(text)
      BY <1>1, <2>1, TextFacts DEF UserInv, TypeInv
    <2>4. /\ i' = 3 * elems' /\ i' < Len(text)
          /\ i + 1 \in 1..Len(text) /\ i + 2 \in 1..Len(text) /\ i + 3 \in 1..Len(text)
          /\ (i + 1) % 3 # 0 /\ (i + 2) % 3 # 0 /\ (i + 3) % 3 = 0
          /\ 3 * (elems + 1) - 2 = i + 1 /\ 3 * (elems + 1) - 1 = i + 2
          /\ elems + 1 \in Nat
      BY <2>1, <2>3, SMT
    <2>5. ASSUME Regular(text) PROVE sum' = Total(text, elems + 1)
      <3>1. IsDigit(text[i + 1]) /\ IsDigit(text[i + 2]) /\ ~IsDigit(text[i + 3])
        BY <2>3, <2>4, <2>5, RegularFacts
      <3>2. Libc(<<text[i + 1], text[i + 2], text[i + 3], c>>) = NumberAt(text, elems + 1)
        BY <2>4, <3>1, LibcFour DEF NumberAt
      <3>3. sum' = Total(text, elems + 1) % ULONG
        BY <2>2, <2>3, <2>5, <3>2, TotalFacts
      <3>4. Total(text, elems + 1) \in Nat /\ Total(text, elems + 1) <= 99 * (elems + 1)
        BY <2>4, TotalFacts, TotalBound
      <3>5. Total(text, elems + 1) < ULONG
        <4>1. PAGE_SIZE \in Nat /\ ULONG \in Nat /\ 99 * PAGE_SIZE < ULONG
          BY Sizes
        <4>2. elems + 1 <= PAGE_SIZE
          BY <2>1, <2>3, <2>4, <4>1, SMT
        <4>3. QED
          BY <2>3, <3>4, <4>1, <4>2, SMT
      <3>6. QED
        BY <3>3, <3>4, <3>5, Remainder
    <2>6. out.user = NoResult
      BY <1>1, <2>1 DEF UserInv
    <2>7. QED
      BY <2>1, <2>4, <2>5, <2>6 DEF UserInv
  <1>4. CASE TailTurn \/ UNCHANGED vars
    <2>1. /\ pc' = pc /\ out' = out /\ text' = text
          /\ pc # "tail" => i' = i /\ sum' = sum
          /\ elems' = elems
      BY <1>4 DEF TailTurn, InTail, vars, text
    <2>2. QED
      BY <1>1, <2>1 DEF UserInv
  <1>5. CASE \/ UserDivides \/ BenchReads \/ BenchTurn \/ BenchGivesUp \/ BenchNextChunk
             \/ BenchPublishes
    <2>1. pc' \notin {"tail", "user"}
      BY <1>5 DEF UserDivides, EnterBench, BenchReads, BenchTurn, BenchGivesUp, BenchNextChunk,
                  BenchPublishes, InChunk
    <2>2. QED
      BY <2>1 DEF UserInv
  <1>6. QED
    BY <1>2, <1>3, <1>4, <1>5 DEF Next

\* The numbers userbench has counted when its loop ends.
LEMMA Counted ==
  ASSUME NEW n \in Nat, NEW e \in Nat, e = 0 \/ 3 * e < n, ~(3 * e < n - 3)
  PROVE  /\ n <= 3 <=> e = 0
         /\ n > 3 => e = IF n % 3 = 1 THEN (n + 1) \div 3 ELSE (n + 1) \div 3 - 1
  <1>1. n <= 3 <=> e = 0
    BY SMT
  <1>2. CASE n > 3
    <2>1. e # 0 /\ 3 * e < n /\ n <= 3 * e + 3
      BY <1>2, SMT
    <2>2. n = 3 * e + 1 \/ n = 3 * e + 2 \/ n = 3 * e + 3
      BY <2>1, SMT
    <2>3. QED
      BY <1>1, <2>2, SMT
  <1>3. QED
    BY <1>1, <1>2, SMT

\* What userbench prints is the average of the numbers it has counted.
LEMMA AverageStep == IInv /\ [Next]_vars => UserAverages'
  <1> SUFFICES ASSUME IInv, [Next]_vars PROVE UserAverages'
    OBVIOUS
  <1>1. /\ UserInv /\ TypeInv /\ UserAverages
        /\ out \in [tail : Int, user : Int, bench : Int]
        /\ sum \in Nat /\ elems \in Nat
    BY DEF IInv, TypeInv
  <1>2. CASE UserDivides
    <2>1. /\ pc = "user" /\ ~(i < Len(text) - 3) /\ text' = text
          /\ out'.user = IF elems = 0 THEN NoResult ELSE sum \div elems
      BY <1>1, <1>2 DEF UserDivides, InUser, readbytes, EnterBench, text
    <2>2. /\ i = 3 * elems /\ (elems = 0 \/ i < Len(text))
          /\ Regular(text) => sum = Total(text, elems)
      BY <1>1, <2>1 DEF UserInv
    <2>3. Len(text) \in Nat
      BY <1>1, TextFacts
    <2>4. /\ Len(text) <= 3 <=> elems = 0
          /\ Len(text) > 3 =>
               elems = IF Len(text) % 3 = 1 THEN (Len(text) + 1) \div 3
                                            ELSE (Len(text) + 1) \div 3 - 1
      BY <1>1, <2>1, <2>2, <2>3, Counted
    <2>5. elems # 0 => sum \div elems # NoResult
      BY <1>1, SMT DEF NoResult
    <2>6. out'.user = NoResult <=> Len(text) <= 3
      BY <2>1, <2>4, <2>5
    <2>7. Len(text) > 3 => elems # 0
      BY <2>3, <2>4, SMT
    <2>8. QED
      BY <2>1, <2>2, <2>4, <2>6, <2>7 DEF UserAverages, NumbersIn
  <1>3. CASE TailTurn \/ TailGivesUp \/ TailPublishes \/ UserTurn
    <2>1. pc' \notin {"read", "bench", "done"}
      BY <1>3 DEF TailTurn, TailGivesUp, TailPublishes, InTail, EnterUser, UserTurn, InUser
    <2>2. QED
      BY <2>1 DEF UserAverages
  <1>4. CASE \/ BenchReads \/ BenchTurn \/ BenchGivesUp \/ BenchNextChunk \/ BenchPublishes
             \/ UNCHANGED vars
    <2>1. /\ out'.user = out.user /\ text' = text
          /\ pc' \in {"read", "bench", "done"} => pc \in {"read", "bench", "done"}
      BY <1>1, <1>4 DEF BenchReads, BenchTurn, BenchGivesUp, BenchNextChunk, BenchPublishes,
                        InChunk, vars, text
    <2>2. QED
      BY <1>1, <2>1 DEF UserAverages
  <1>5. QED
    BY <1>2, <1>3, <1>4 DEF Next

\* The buffer of bpfbench holds the triple at its place in a whole page.
LEMMA InPage ==
  ASSUME TypeInv, Whole(text), Copied, i < CHUNKS, j < TRIPLES
  PROVE  /\ Place(i, j) \in Nat /\ Place(i, j) + 3 <= Len(text)
         /\ userbuff[3 * j] = text[Place(i, j) + 1]
         /\ userbuff[3 * j + 1] = text[Place(i, j) + 2]
         /\ userbuff[3 * j + 2] = text[Place(i, j) + 3]
  <1> DEFINE a == i * CHUNK
  <1>1. /\ a \in Nat /\ a + CHUNK <= PAGE_SIZE /\ i \in Nat /\ j \in Nat
        /\ CHUNK \in Nat /\ TRIPLES \in Nat /\ 3 * TRIPLES < CHUNK /\ PAGE_SIZE \in Nat
    BY Sizes, Chunk DEF TypeInv
  <1>2. Len(text) = PAGE_SIZE /\ DOMAIN text = 1..PAGE_SIZE /\ Regular(text)
    BY TextFacts DEF Whole
  <1>3. Place(i, j) = a + 3 * j
    BY DEF Place
  <1> HIDE DEF a
  <1>4. ASSUME NEW k \in 0..(CHUNK - 2)
        PROVE  PageByte(a + k) = text[a + k + 1] /\ PageByte(a + k) # NUL
    <2>1. a + k < Len(text) /\ a + k + 1 \in 1..PAGE_SIZE
      BY <1>1, <1>2, SMT
    <2>2. PageByte(a + k) = text[a + k + 1]
      BY <2>1 DEF PageByte
    <2>3. QED
      BY <1>2, <2>1, <2>2, RegularFacts
  <1>5. \A k \in 0..(CHUNK - 2) : userbuff[k] = text[a + k + 1]
    BY <1>4 DEF Copied, a
  <1>6. /\ 3 * j \in 0..(CHUNK - 2) /\ 3 * j + 1 \in 0..(CHUNK - 2) /\ 3 * j + 2 \in 0..(CHUNK - 2)
        /\ a + 3 * j \in Nat /\ a + 3 * j + 3 <= PAGE_SIZE
        /\ a + 3 * j + 1 = (a + 3 * j) + 1
        /\ a + (3 * j + 1) + 1 = (a + 3 * j) + 2
        /\ a + (3 * j + 2) + 1 = (a + 3 * j) + 3
    BY <1>1, SMT
  <1>7. QED
    BY <1>2, <1>3, <1>5, <1>6

\* A chunk that starts beyond the file does not parse.
LEMMA EndOfFile ==
  ASSUME Copied, PageByte(i * CHUNK) = NUL, j = 0
  PROVE  ~TripleParses
  <1>1. userbuff[0] = NUL
    BY DEF Copied
  <1>2. ~IsDigit(NUL) /\ ~IsSpace(NUL) /\ 3 * 0 = 0
    BY SMT DEF IsDigit, IsSpace, NUL
  <1>3. QED
    BY <1>1, <1>2 DEF TripleParses, Parses3, Parses

\* Every turn of bpfbench adds at most the number that its triple lies in.
LEMMA BenchStep == IInv /\ [Next]_vars => BenchInv'
  <1> SUFFICES ASSUME IInv, [Next]_vars PROVE BenchInv'
    OBVIOUS
  <1>1. /\ BenchInv /\ TypeInv /\ out \in [tail : Int, user : Int, bench : Int]
        /\ i \in Nat /\ j \in Nat /\ sum \in Nat /\ elems \in Nat
    BY DEF IInv, TypeInv
  <1>2. CASE TailTurn \/ TailGivesUp \/ TailPublishes \/ UserTurn
    <2>1. pc' \in {"tail", "user"} /\ pc # "done" /\ out'.bench = out.bench
      BY <1>1, <1>2 DEF TailTurn, TailGivesUp, TailPublishes, InTail, EnterUser, UserTurn, InUser
    <2>2. QED
      BY <1>1, <2>1 DEF BenchInv
  <1>3. CASE UserDivides
    <2>1. /\ pc = "user" /\ pc' = "read" /\ i' = 0 /\ sum' = 0 /\ elems' = 0
          /\ out'.bench = out.bench
      BY <1>1, <1>3 DEF UserDivides, EnterBench
    <2>2. out'.bench = NoResult
      BY <1>1, <2>1 DEF BenchInv
    <2>3. CHUNKS \in Nat /\ 0 \in Nat
      BY Sizes, SMT
    <2>4. 0 <= CHUNKS /\ 0 = 0 * TRIPLES
      <3>1. 0 <= CHUNKS
        BY <2>3, SMT
      <3>2. QED
        BY <2>3, <3>1, Products
    <2>5. 0 <= Total(text', Before(Place(0, 0)))
      <3>1. 0 * CHUNK = 0
        BY <2>3, Products
      <3>2. Before(Place(0, 0)) \in Nat
        BY <3>1, SMT DEF Before, Place
      <3>3. Total(text', Before(Place(0, 0))) \in Nat
        BY <3>2, TotalFacts
      <3>4. QED
        BY <3>3, SMT
    <2>6. QED
      BY <2>1, <2>2, <2>4, <2>5 DEF BenchInv
  <1>4. CASE BenchReads
    <2>1. /\ pc = "read" /\ i < CHUNKS /\ userbuff' = ReadStr(userbuff, CHUNK, i * CHUNK)
          /\ j' = 0 /\ pc' = "bench" /\ file' = file /\ i' = i /\ sum' = sum /\ elems' = elems
          /\ out' = out /\ text' = text
      BY <1>4 DEF BenchReads, text
    <2>2. /\ elems = i * TRIPLES /\ out.bench = NoResult
          /\ Whole(text) => sum <= Total(text, Before(Place(i, 0)))
      BY <1>1, <2>1 DEF BenchInv
    <2>3. elems' = i' * TRIPLES + j' /\ j' <= TRIPLES
      <3>1. i * TRIPLES \in Nat /\ TRIPLES \in Nat
        BY <1>1, Products, Sizes
      <3>2. i * TRIPLES + 0 = i * TRIPLES /\ 0 <= TRIPLES
        BY <3>1, SMT
      <3>3. QED
        BY <2>1, <2>2, <3>2
    <2>4. Copied'
      <3>1. i * CHUNK \in Nat /\ CHUNK \in Nat /\ 2 <= CHUNK
        <4>1. CHUNK \in Nat /\ TRIPLES \in Nat /\ TRIPLES # 0 /\ 3 * TRIPLES < CHUNK
          BY Sizes
        <4>2. 2 <= CHUNK
          BY <4>1, SMT
        <4>3. QED
          BY <1>1, <4>1, <4>2, Products
      <3>2. /\ PageByte(i * CHUNK) = NUL => userbuff'[0] = NUL
            /\ (\A k \in 0..(CHUNK - 2) : PageByte(i * CHUNK + k) # NUL) =>
                 \A k \in 0..(CHUNK - 2) : userbuff'[k] = PageByte(i * CHUNK + k)
        BY <2>1, <3>1, ReadStrFacts
      <3>3. QED
        BY <2>1, <3>2 DEF Copied, PageByte
    <2>5. QED
      BY <2>1, <2>2, <2>3, <2>4 DEF BenchInv, Whole
  <1>5. CASE BenchTurn
    <2>1. /\ pc = "bench" /\ j < TRIPLES /\ TripleParses
          /\ sum' = (sum + TripleNumber) % ULONG /\ elems' = elems + 1 /\ j' = j + 1
          /\ pc' = pc /\ file' = file /\ i' = i /\ userbuff' = userbuff /\ out' = out
          /\ text' = text
      BY <1>5 DEF BenchTurn, InChunk, text
    <2>2. /\ i < CHUNKS /\ elems = i * TRIPLES + j /\ Copied
          /\ j # 0 => i * CHUNK < Len(text)
          /\ Whole(text) => sum <= Total(text, Before(Place(i, j)))
          /\ out.bench = NoResult
      BY <1>1, <2>1 DEF BenchInv
    <2>3. elems' = i' * TRIPLES + j' /\ j' <= TRIPLES /\ j' # 0
      <3> DEFINE b == i * TRIPLES
      <3>1. b \in Nat /\ TRIPLES \in Nat
        BY <1>1, Products, Sizes
      <3> HIDE DEF b
      <3>2. (b + j) + 1 = b + (j + 1) /\ j + 1 <= TRIPLES /\ j + 1 # 0
        BY <1>1, <2>1, <3>1, SMT
      <3>3. QED
        BY <2>1, <2>2, <3>2 DEF b
    <2>4. Copied'
      BY <2>1, <2>2 DEF Copied, PageByte
    <2>5. i * CHUNK < Len(text)
      <3>1. CASE j = 0
        BY <2>1, <2>2, <3>1, EndOfFile DEF PageByte
      <3>2. QED
        BY <2>2, <3>1
    <2>6. ASSUME Whole(text) PROVE sum' <= Total(text, Before(Place(i, j + 1)))
      <3> DEFINE p == Place(i, j)
                 x == TripleNumber
      <3>1. /\ p \in Nat /\ p + 3 <= Len(text)
            /\ userbuff[3 * j] = text[p + 1]
            /\ userbuff[3 * j + 1] = text[p + 2]
            /\ userbuff[3 * j + 2] = text[p + 3]
        BY <1>1, <2>1, <2>2, <2>6, InPage
      <3>2. x = Number3(text[p + 1], text[p + 2], text[p + 3])
        BY <3>1 DEF TripleNumber
      <3>3. Len(text) \in Nat /\ DOMAIN text = 1..Len(text) /\ Regular(text)
        BY <1>1, <2>6, TextFacts DEF Whole
      <3>4. p + 3 = Place(i, j + 1)
        <4>1. i * CHUNK \in Nat
          BY <1>1, Products
        <4>2. QED
          BY <1>1, <4>1, SMT DEF Place
      <3> HIDE DEF p, x
      <3>5. x \in Nat /\ x <= NumberAt(text, Before(p) + 1) /\ Before(p) \in Nat
                      /\ Before(p) + 1 = Before(p + 3)
        BY <3>1, <3>2, <3>3, OutOfStep
      <3>6. /\ Total(text, Before(p)) \in Nat
            /\ Total(text, Before(p + 3)) = Total(text, Before(p)) + NumberAt(text, Before(p) + 1)
            /\ NumberAt(text, Before(p) + 1) \in 0..99
            /\ sum <= Total(text, Before(p))
        BY <2>2, <2>6, <3>5, TotalFacts, NumberType DEF NumberAt, p
      <3>7. sum + x \in Nat /\ sum + x <= Total(text, Before(p + 3))
        BY <1>1, <3>5, <3>6, SMT
      <3>8. sum' \in Nat /\ sum' <= sum + x
        BY <2>1, <3>7, Remainder DEF x
      <3>9. Total(text, Before(p + 3)) \in Nat
        BY <3>6, SMT
      <3>10. sum' <= Total(text, Before(p + 3))
        BY <3>7, <3>8, <3>9, SMT
      <3>11. QED
        BY <3>4, <3>10
    <2>7. QED
      BY <2>1, <2>2, <2>3, <2>4, <2>5, <2>6 DEF BenchInv, Whole
  <1>6. CASE BenchGivesUp
    <2>1. pc' = "done"
      BY <1>6 DEF BenchGivesUp
    <2>2. QED
      BY <2>1 DEF BenchInv
  <1>7. CASE BenchNextChunk
    <2>1. /\ pc = "bench" /\ ~(j < TRIPLES) /\ i' = i + 1 /\ pc' = "read" /\ sum' = sum
          /\ elems' = elems /\ out' = out /\ text' = text
      BY <1>7 DEF BenchNextChunk, InChunk, text
    <2>2. /\ i < CHUNKS /\ j <= TRIPLES /\ elems = i * TRIPLES + j
          /\ j # 0 => i * CHUNK < Len(text)
          /\ Whole(text) => sum <= Total(text, Before(Place(i, j)))
          /\ out.bench = NoResult
      BY <1>1, <2>1 DEF BenchInv
    <2>3. /\ CHUNK \in Nat /\ TRIPLES \in Nat /\ CHUNKS \in Nat /\ TRIPLES # 0
          /\ 3 * TRIPLES < CHUNK
      BY Sizes
    <2>4. j = TRIPLES /\ i + 1 <= CHUNKS /\ (i + 1) - 1 = i /\ i + 1 # 0 /\ i + 1 \in Nat
      BY <1>1, <2>1, <2>2, <2>3, SMT
    <2>5. elems = (i + 1) * TRIPLES
      BY <1>1, <2>2, <2>4, Products
    <2>6. ASSUME Whole(text) PROVE sum <= Total(text, Before(Place(i + 1, 0)))
      <3> DEFINE a == i * CHUNK
                 m == Before(Place(i, j))
                 n == Before(Place(i + 1, 0))
      <3>1. a \in Nat /\ (i + 1) * CHUNK = a + CHUNK
        BY <1>1, Products
      <3>2. m = (a + 3 * TRIPLES + 1) \div 3 /\ n = (a + CHUNK + 3 * 0 + 1) \div 3
        BY <2>4, <3>1 DEF Before, Place
      <3> HIDE DEF a, m, n
      <3>3. m \in Nat /\ n \in Nat /\ m <= n
        BY <2>3, <3>1, <3>2, SMT
      <3>4. /\ Total(text, m) \in Nat /\ Total(text, n) \in Nat
            /\ Total(text, m) <= Total(text, n)
        BY <3>3, TotalFacts, TotalGrows
      <3>5. sum <= Total(text, m)
        BY <2>2, <2>6 DEF m
      <3>6. sum <= Total(text, n)
        BY <1>1, <3>4, <3>5, SMT
      <3>7. QED
        BY <3>6 DEF n
    <2>7. QED
      BY <2>1, <2>2, <2>3, <2>4, <2>5, <2>6 DEF BenchInv, Whole
  <1>8. CASE BenchPublishes
    <2>1. pc' = "done"
      BY <1>8 DEF BenchPublishes
    <2>2. QED
      BY <2>1 DEF BenchInv
  <1>9. CASE UNCHANGED vars
    <2>1. /\ pc' = pc /\ i' = i /\ j' = j /\ sum' = sum /\ elems' = elems /\ out' = out
          /\ userbuff' = userbuff /\ text' = text /\ file' = file
      BY <1>9 DEF vars, text
    <2>2. Copied => Copied'
      BY <2>1 DEF Copied, PageByte
    <2>3. QED
      BY <1>1, <2>1, <2>2 DEF BenchInv, Whole
  <1>10. QED
    BY <1>2, <1>3, <1>4, <1>5, <1>6, <1>7, <1>8, <1>9 DEF Next

\* bpfbench publishes only after its last chunk.
LEMMA PublishedStep ==
  IInv /\ [Next]_vars =>
    (out'.bench # NoResult => elems' = CHUNKS * TRIPLES /\ Len(text') > PAGE_SIZE - CHUNK)
  <1> SUFFICES ASSUME IInv, [Next]_vars, out'.bench # NoResult
               PROVE  elems' = CHUNKS * TRIPLES /\ Len(text') > PAGE_SIZE - CHUNK
    OBVIOUS
  <1>1. /\ BenchInv /\ TypeInv /\ out \in [tail : Int, user : Int, bench : Int]
        /\ out.bench # NoResult => elems = CHUNKS * TRIPLES /\ Len(text) > PAGE_SIZE - CHUNK
    BY DEF IInv, TypeInv
  <1>2. CASE BenchPublishes
    <2>1. pc = "read" /\ i = CHUNKS /\ elems' = elems /\ text' = text
      BY <1>2 DEF BenchPublishes, text
    <2>2. elems = CHUNKS * TRIPLES /\ (CHUNKS # 0 => (CHUNKS - 1) * CHUNK < Len(text))
      BY <1>1, <2>1 DEF BenchInv
    <2>3. CHUNK \in Nat /\ CHUNKS \in Nat /\ CHUNKS # 0 /\ Len(text) \in Nat
      BY <1>1, Sizes, TextFacts
    <2>4. (CHUNKS - 1) * CHUNK = CHUNK * CHUNKS - CHUNK
      BY <2>3, SMT
    <2>5. Len(text) > PAGE_SIZE - CHUNK
      <3> DEFINE a == PAGE_SIZE - CHUNK
      <3>1. a < Len(text) /\ a \in Int
        <4>1. PAGE_SIZE \in Nat
          BY Sizes
        <4>2. PAGE_SIZE - CHUNK \in Int
          BY <2>3, <4>1, SMT
        <4>3. QED
          BY <2>2, <2>3, <2>4, <4>2 DEF PAGE_SIZE
      <3> HIDE DEF a
      <3>2. Len(text) > a
        BY <2>3, <3>1, SMT
      <3>3. QED
        BY <3>2 DEF a
    <2>6. QED
      BY <2>1, <2>2, <2>5
  <1>3. CASE ~BenchPublishes
    <2>1. out'.bench = out.bench /\ text' = text
      BY <1>1, <1>3 DEF Next, vars, text, TailTurn, TailGivesUp, TailPublishes, EnterUser,
                  UserTurn, UserDivides, EnterBench, BenchReads, BenchTurn, BenchGivesUp,
                  BenchNextChunk
    <2>2. pc = "done"
      BY <1>1, <2>1 DEF BenchInv
    <2>3. elems' = elems
      BY <1>3, <2>2 DEF Next, vars, TailTurn, InTail, TailGivesUp, TailPublishes, UserTurn, InUser,
                  UserDivides, BenchReads, BenchTurn, BenchGivesUp, InChunk, BenchNextChunk
    <2>4. QED
      BY <1>1, <2>1, <2>3
  <1>4. QED
    BY <1>2, <1>3

\* The invariant holds in every reachable state.
LEMMA IInvInvariant == Spec => []IInv
  <1>1. IInv /\ [Next]_vars => IInv'
    BY TypeStep, TailStep, AgreesStep, UserStep, AverageStep, BenchStep, PublishedStep DEF IInv, text
  <1>2. QED
    BY <1>1, InitInv, PTL DEF Spec

-----------------------------------------------------------------------------
(* Theorems *)

\* The tail call publishes the average of what the C library makes of the same
\* nine bytes (bpf_func_AVG_FUNC of tailcall_kern.c), for every file.
THEOREM TailAgrees == Spec => []TailAgreesWithLibc
  <1>1. IInv => TailAgreesWithLibc
    BY DEF IInv
  <1>2. QED
    BY <1>1, IInvInvariant, PTL

\* userbench prints the average of all the numbers of a regular file, but for
\* the last one unless a byte follows its separator, and prints nothing exactly
\* if the file has no fourth byte (main of userbench.c), for every file and page.
THEOREM UserAveragesCorrect == Spec => []UserAverages
  <1>1. IInv => UserAverages
    BY DEF IInv
  <1>2. QED
    BY <1>1, IInvInvariant, PTL

\* bpfbench publishes only for a file that reaches into the last chunk, having
\* counted every triple of every chunk, and on a regular page its sum is never
\* more than the page's (bpf_copyout of bpfbench_kern.c), for every chunk size.
THEOREM BenchCorrect == Spec => []BenchNeedsWholePage
  <1>1. ASSUME IInv PROVE BenchNeedsWholePage
    <2>1. TypeInv /\ BenchInv /\ i \in Nat /\ j \in Nat /\ sum \in Nat
      BY <1>1 DEF IInv, TypeInv
    <2>2. ASSUME pc \in {"read", "bench"}, Whole(text) PROVE sum <= Total(text, NumbersIn(text))
      <3> DEFINE k == IF pc = "read" THEN 0 ELSE j
                 a == i * CHUNK
                 m == Before(Place(i, k))
                 n == NumbersIn(text)
      <3>1. sum <= Total(text, m) /\ k \in Nat
        <4>1. 0 \in Nat
          BY SMT
        <4>2. QED
          BY <2>1, <2>2, <4>1 DEF BenchInv
      <3>2. a \in Nat /\ a + 3 * k <= PAGE_SIZE
        <4>1. /\ CHUNK \in Nat /\ TRIPLES \in Nat /\ CHUNKS \in Nat /\ PAGE_SIZE \in Nat
              /\ 3 * TRIPLES < CHUNK
          BY Sizes
        <4>2. CASE i < CHUNKS
          <5>1. a \in Nat /\ a + CHUNK <= PAGE_SIZE
            BY <2>1, <4>2, Chunk
          <5>2. k <= TRIPLES
            <6>1. 0 <= TRIPLES
              BY <4>1, SMT
            <6>2. QED
              BY <2>1, <2>2, <6>1 DEF BenchInv
          <5> HIDE DEF a, k
          <5>3. QED
            BY <3>1, <4>1, <5>1, <5>2, SMT
        <4>3. CASE ~(i < CHUNKS)
          <5>1. pc = "read" /\ i <= CHUNKS
            BY <2>1, <2>2, <4>3 DEF BenchInv
          <5>2. i = CHUNKS
            BY <2>1, <4>1, <4>3, <5>1, SMT
          <5>3. CHUNKS * CHUNK = CHUNK * CHUNKS
            BY <4>1, SMT
          <5>4. a = PAGE_SIZE /\ k = 0
            BY <5>1, <5>2, <5>3 DEF PAGE_SIZE
          <5> HIDE DEF a, k
          <5>5. QED
            BY <4>1, <5>4, SMT
        <4>4. QED
          BY <4>2, <4>3
      <3>3. m = (a + 3 * k + 1) \div 3 /\ n = (PAGE_SIZE + 1) \div 3
        BY <2>2 DEF Before, Place, NumbersIn, Whole
      <3> HIDE DEF a, k, m, n
      <3>4. m \in Nat /\ n \in Nat /\ m <= n
        <4>1. PAGE_SIZE \in Nat
          BY Sizes
        <4>2. QED
          BY <3>1, <3>2, <3>3, <4>1, SMT
      <3>5. /\ Total(text, m) \in Nat /\ Total(text, n) \in Nat
            /\ Total(text, m) <= Total(text, n)
        BY <3>4, TotalFacts, TotalGrows
      <3>6. sum <= Total(text, n)
        BY <2>1, <3>1, <3>5, SMT
      <3>7. QED
        BY <3>6 DEF n
    <2>3. QED
      BY <1>1, <2>2 DEF IInv, BenchNeedsWholePage, Whole
  <1>2. IInv => BenchNeedsWholePage
    BY <1>1
  <1>3. QED
    BY <1>2, IInvInvariant, PTL

\* The loop variables, the sums and what is published are always numbers: the
\* divisions of the tail call and of bpfbench are never divisions by zero, and
\* strtoul returns a number for whatever bytes userbench hands to it.
THEOREM TypeCorrect == Spec => []TypeInv
  <1>1. IInv => TypeInv
    BY DEF IInv
  <1>2. QED
    BY <1>1, IInvInvariant, PTL
=============================================================================
