-------------------------- MODULE ReadTraceProofs --------------------------
(***************************************************************************)
(* The safety properties of ReadTrace, for any processes, descriptors and  *)
(* addresses.                                                              *)
(***************************************************************************)
EXTENDS ReadTrace, TLAPS

\* Where the user program can be while its read is where it is.
PlaceInv ==
  /\ main # "reading" => pc[Owner] \in {"user"}
  /\ main = "pid" => my_map = Owner /\ Program = "buffermap"
  /\ main = "looked" => Program = "readbuff"
  /\ \A p \in Procs : pc[p] = "store" => Program # "buffermap"
  /\ \A p \in Procs : pc[p] = "find" => Program = "buffermap"

\* passfd and readbuff: the probes that have compared since my_map was set hold
\* the right value, and the user program's own leaves it in my_read_map.
Right == IF Program = "passfd" THEN Fd[Owner] ELSE Buf[Owner]

HandInv ==
  Program # "buffermap" /\ main \in {"registered", "reading", "looked", "printed"} =>
    /\ my_map = Fd[Owner]
    /\ early = {} /\ UnsharedFd =>
         /\ \A p \in Procs : pc[p] = "store" => val[p] = Right
         /\ main = "reading" /\ pc[Owner] \notin {"entry", "store"} => my_read_map = Right
         /\ main \in {"looked", "printed"} => buffaddr = Right

\* buffermap: only the watched process's probe gets as far as the buffer, and
\* it finds the byte there.
CharInv ==
  Program = "buffermap" =>
    /\ my_map \in {0, Owner}
    /\ main \in {"registered", "reading", "printed"} =>
         my_map = Owner /\ my_read_map = Buf[Owner]
    /\ \A p \in Procs : pc[p] \in {"find", "put"} => p = Owner /\ main = "reading"
    /\ pc[Owner] = "put" => val[Owner] = ubuf[Owner]
    /\ CharIsMine

\* A probe that is about to store has what fits the map.
ValInv ==
  \A p \in Procs : /\ pc[p] = "store" => val[p] \in (IF Program = "passfd" THEN Fds ELSE Addresses)
                   /\ pc[p] = "put" => val[p] \in Bytes

\* Once set, my_map is a descriptor where descriptors are passed.
MapInv == Program # "buffermap" => my_map \in Fds

IInv == TypeOK /\ PlaceInv /\ ValInv /\ MapInv /\ HandInv /\ CharInv

-----------------------------------------------------------------------------
\* What the proofs use of the constants.
LEMMA Facts ==
  /\ Owner \in Procs /\ 0 \notin Procs
  /\ 0 \in Bytes /\ 0 \in Fds /\ 0 \in Addresses
  /\ \A p \in Procs : Fd[p] \in Fds /\ Buf[p] \in Addresses /\ Data[p] \in Bytes
  /\ Garbage \subseteq Bytes
  /\ Fd[Owner] # 0
  <1>1. Owner \in Procs /\ 0 \notin Procs /\ Fd[Owner] # 0
    BY TraceAssumption
  <1>2. 0 \in Bytes /\ Garbage \subseteq Bytes /\ \A p \in Procs : Data[p] \in Bytes
    <2>1. 0 \in Bytes
      BY DEF Bytes
    <2>2. Garbage \subseteq Bytes /\ Data \in [Procs -> Bytes]
      BY TraceAssumption, Zenon DEF Bytes
    <2>3. QED
      BY <2>1, <2>2
  <1>3. 0 \in Fds /\ 0 \in Addresses
    BY DEF Fds, Addresses
  <1>4. \A p \in Procs : Fd[p] \in Fds /\ Buf[p] \in Addresses
    BY DEF Fds, Addresses
  <1>5. QED
    BY <1>1, <1>2, <1>3, <1>4

\* The lowest byte of an address is a byte.
LEMMA FirstByteFacts == \A a \in Addresses : FirstByte(a) \in Bytes
  <1>1. Addresses \subseteq Nat
    BY TraceAssumption DEF Addresses
  <1>2. \A n \in Nat : n % 256 \in 0..255
    OBVIOUS
  <1>3. QED
    BY <1>1, <1>2 DEF FirstByte, Bytes

\* The maps start at 0 and no probe runs.
LEMMA IInvInit == Init => IInv
  <1> SUFFICES ASSUME Init PROVE IInv
    OBVIOUS
  <1> USE Facts DEF Init
  <1>1. TypeOK
    <2>1. ubuf \in [Procs -> Bytes]
      OBVIOUS
    <2>2. val \in [Procs -> Bytes \cup Addresses \cup Fds]
      OBVIOUS
    <2>3. QED
      BY <2>1, <2>2 DEF TypeOK
  <1>2. PlaceInv /\ ValInv /\ MapInv
    BY DEF PlaceInv, ValInv, MapInv
  <1>3. HandInv /\ CharInv
    BY DEF HandInv, CharInv, CharIsMine, Returned
  <1>4. QED
    BY <1>1, <1>2, <1>3 DEF IInv

-----------------------------------------------------------------------------
\* Types are kept.
LEMMA TypeStep == IInv /\ Next => TypeOK'
  <1> SUFFICES ASSUME IInv, Next PROVE TypeOK'
    OBVIOUS
  <1>0. TypeOK /\ ValInv /\ MapInv /\ PlaceInv /\ Program' = Program
    BY DEF IInv, Next
  <1>1. CASE Main
    BY <1>0, <1>1, Facts DEF Main, Load, Fail, RegisterFd, RegisterPid, RegisterBuffer,
       LookupRead, LookupChar, Exit, out, TypeOK, ThirdMap, PlaceInv
  <1>2. ASSUME NEW p \in Procs, Read(p) PROVE TypeOK'
    <2>1. CASE EnterRead(p)
      BY <1>0, <2>1 DEF EnterRead, TypeOK, out
    <2>2. CASE EntryProbe(p)
      <3>1. my_map \in Fds \cup Procs
        BY <1>0 DEF TypeOK
      <3>2. QED
        BY <1>0, <2>2, Facts DEF EntryProbe, Go, PassedFd, TypeOK, out, MapInv
    <2>3. CASE Store(p)
      BY <1>0, <2>3, Facts DEF Store, Go, TypeOK, ValInv, out
    <2>4. CASE Kernel(p)
      BY <1>0, <2>4, Facts DEF Kernel, Go, TypeOK, out
    <2>5. CASE ExitProbe(p)
      BY <1>0, <2>5, Facts, FirstByteFacts DEF ExitProbe, Go, TypeOK, out
    <2>6. CASE Find(p)
      BY <1>0, <2>6, Facts DEF Find, Go, TypeOK, out
    <2>7. CASE Put(p)
      BY <1>0, <2>7, Facts DEF Put, Go, TypeOK, ValInv, out
    <2>8. QED
      BY <1>2, <2>1, <2>2, <2>3, <2>4, <2>5, <2>6, <2>7 DEF Read
  <1>3. QED
    BY <1>1, <1>2 DEF Next

\* Where the user program and the reads are.
LEMMA PlaceStep == IInv /\ Next => (PlaceInv /\ ValInv /\ MapInv)'
  <1> SUFFICES ASSUME IInv, Next PROVE (PlaceInv /\ ValInv /\ MapInv)'
    OBVIOUS
  <1>0. TypeOK /\ ValInv /\ MapInv /\ PlaceInv /\ Program' = Program
    BY DEF IInv, Next
  <1> USE Facts DEF PlaceInv, ValInv, MapInv
  <1>1. CASE Main
    <2>1. CASE RegisterFd
      BY <1>0, <2>1 DEF RegisterFd
    <2>2. CASE RegisterPid \/ RegisterBuffer
      BY <1>0, <2>2 DEF RegisterPid, RegisterBuffer
    <2>3. CASE LookupRead \/ LookupChar
      <3>1. Program \in {"passfd", "readbuff", "buffermap"}
        BY <1>0, TraceAssumption DEF TypeOK
      <3>2. QED
        BY <1>0, <2>3, <3>1 DEF LookupRead, LookupChar, Returned
    <2>4. CASE Load \/ Fail \/ Exit
      BY <1>0, <2>4 DEF Load, Fail, Exit
    <2>5. QED
      BY <1>1, <2>1, <2>2, <2>3, <2>4 DEF Main
  <1>2. ASSUME NEW p \in Procs, Read(p) PROVE (PlaceInv /\ ValInv /\ MapInv)'
    <2>1. CASE EnterRead(p)
      BY <1>0, <2>1 DEF EnterRead, TypeOK, out
    <2>2. CASE EntryProbe(p)
      BY <1>0, <2>2 DEF EntryProbe, Go, PassedFd, Attached, TypeOK, out
    <2>3. CASE Store(p)
      BY <1>0, <2>3 DEF Store, Go, TypeOK, out
    <2>4. CASE Kernel(p)
      BY <1>0, <2>4 DEF Kernel, Go, TypeOK, out
    <2>5. CASE ExitProbe(p)
      BY <1>0, <2>5, FirstByteFacts DEF ExitProbe, Go, TypeOK, out
    <2>6. CASE Find(p)
      BY <1>0, <2>6 DEF Find, Go, TypeOK, out
    <2>7. CASE Put(p)
      BY <1>0, <2>7 DEF Put, Go, TypeOK, out
    <2>8. QED
      BY <1>2, <2>1, <2>2, <2>3, <2>4, <2>5, <2>6, <2>7 DEF Read
  <1>3. QED
    BY <1>1, <1>2 DEF Next

\* What the probes of passfd and readbuff hold and leave behind.
LEMMA HandStep == IInv /\ Next => HandInv'
  <1> SUFFICES ASSUME IInv, Next PROVE HandInv'
    OBVIOUS
  <1>0. TypeOK /\ HandInv /\ PlaceInv /\ Program' = Program
    BY DEF IInv, Next
  <1> USE Facts DEF HandInv, Right
  <1>1. CASE Main
    <2>1. CASE RegisterFd
      BY <1>0, <2>1 DEF RegisterFd, out, PlaceInv
    <2>2. CASE LookupRead
      BY <1>0, <2>2 DEF LookupRead, Returned
    <2>3. CASE LookupChar \/ Exit \/ Load \/ Fail \/ RegisterPid \/ RegisterBuffer
      BY <1>0, <2>3 DEF LookupChar, Exit, Load, Fail, RegisterPid, RegisterBuffer, out, PlaceInv
    <2>4. QED
      BY <1>1, <2>1, <2>2, <2>3 DEF Main
  <1>2. ASSUME NEW p \in Procs, Read(p) PROVE HandInv'
    <2>1. CASE EnterRead(p)
      BY <1>0, <2>1 DEF EnterRead, TypeOK, out, PlaceInv
    <2>2. CASE EntryProbe(p)
      <3>1. Program \in {"passfd", "readbuff", "buffermap"}
        BY <1>0, TraceAssumption DEF TypeOK
      <3>2. CASE Attached /\ Program = "passfd"
        BY <1>0, <2>2, <3>2 DEF EntryProbe, Go, PassedFd, TypeOK, out
      <3>3. CASE Attached /\ Program = "readbuff" /\ TargetedFd(p)
        BY <1>0, <2>2, <3>3 DEF EntryProbe, Go, TargetedFd, UnsharedFd, TypeOK, out
      <3>4. CASE ~(Attached /\ Program = "passfd")
                   /\ ~(Attached /\ Program = "readbuff" /\ TargetedFd(p))
        <4>1. Go(p, "kernel", 0) /\ UNCHANGED <<main, my_map, my_read_map, buffaddr, early>>
          BY <2>2, <3>4 DEF EntryProbe, out
        <4>2. Program # "buffermap" /\ main \in {"registered", "reading", "looked", "printed"}
                => p # Owner
          BY <1>0, <2>2, <3>1, <3>4 DEF EntryProbe, Attached, TargetedFd, PlaceInv
        <4>3. QED
          BY <1>0, <4>1, <4>2 DEF Go, TypeOK
      <3>5. QED
        BY <3>2, <3>3, <3>4
    <2>3. CASE Store(p)
      BY <1>0, <2>3 DEF Store, Go, TypeOK, out
    <2>4. CASE Kernel(p)
      BY <1>0, <2>4 DEF Kernel, Go, TypeOK, out
    <2>5. CASE ExitProbe(p)
      BY <1>0, <2>5 DEF ExitProbe, Go, TypeOK, out
    <2>6. CASE Find(p)
      BY <1>0, <2>6 DEF Find, Go, TypeOK, out
    <2>7. CASE Put(p)
      BY <1>0, <2>7 DEF Put, Go, TypeOK, out
    <2>8. QED
      BY <1>2, <2>1, <2>2, <2>3, <2>4, <2>5, <2>6, <2>7 DEF Read
  <1>3. QED
    BY <1>1, <1>2 DEF Next

\* Who gets to my_char_map in buffermap, and with what.
LEMMA CharStep == IInv /\ Next => CharInv'
  <1> SUFFICES ASSUME IInv, Next PROVE CharInv'
    OBVIOUS
  <1>0. TypeOK /\ CharInv /\ PlaceInv /\ Program' = Program
    BY DEF IInv, Next
  <1> USE Facts DEF CharInv, CharIsMine, Returned
  <1>1. CASE Main
    <2>1. CASE RegisterPid
      BY <1>0, <2>1 DEF RegisterPid, PlaceInv
    <2>2. CASE RegisterBuffer
      BY <1>0, <2>2 DEF RegisterBuffer, PlaceInv
    <2>3. CASE LookupChar
      BY <1>0, <2>3 DEF LookupChar, PlaceInv
    <2>4. CASE RegisterFd \/ LookupRead
      BY <1>0, <2>4 DEF RegisterFd, LookupRead
    <2>5. CASE Load \/ Fail \/ Exit
      BY <1>0, <2>5 DEF Load, Fail, Exit, PlaceInv
    <2>6. QED
      BY <1>1, <2>1, <2>2, <2>3, <2>4, <2>5 DEF Main
  <1>2. ASSUME NEW p \in Procs, Read(p) PROVE CharInv'
    <2>1. CASE EnterRead(p)
      BY <1>0, <2>1 DEF EnterRead, TypeOK, out, PlaceInv
    <2>2. CASE EntryProbe(p)
      BY <1>0, <2>2 DEF EntryProbe, Go, TypeOK, out
    <2>3. CASE Store(p)
      BY <1>0, <2>3 DEF Store, Go, TypeOK, out, PlaceInv
    <2>4. CASE Kernel(p)
      BY <1>0, <2>4 DEF Kernel, Go, TypeOK, out, PlaceInv
    <2>5. CASE ExitProbe(p)
      BY <1>0, <2>5 DEF ExitProbe, Go, TargetedPid, Attached, TypeOK, out, PlaceInv
    <2>6. CASE Find(p)
      BY <1>0, <2>6 DEF Find, Go, TypeOK, out
    <2>7. CASE Put(p)
      BY <1>0, <2>7 DEF Put, Go, TypeOK, out
    <2>8. QED
      BY <1>2, <2>1, <2>2, <2>3, <2>4, <2>5, <2>6, <2>7 DEF Read
  <1>3. QED
    BY <1>1, <1>2 DEF Next

\* The invariant holds throughout.
LEMMA Invariance == Spec => []IInv
  <1>1. IInv /\ UNCHANGED vars => IInv'
    BY DEF IInv, vars, TypeOK, PlaceInv, ValInv, MapInv, HandInv, CharInv, CharIsMine,
       Returned, Right
  <1>2. IInv /\ [Next]_vars => IInv'
    BY <1>1, TypeStep, PlaceStep, HandStep, CharStep DEF IInv
  <1>3. QED
    BY IInvInit, <1>2, PTL DEF Spec

-----------------------------------------------------------------------------
\* my_read_map holds a descriptor or an address and my_char_map a byte, whatever
\* probe wrote them.
THEOREM TypeCorrect == Spec => []TypeOK
  BY Invariance, PTL DEF IInv

\* passfd and readbuff hand the user program its own descriptor or address, among
\* any number of other readers, if no probe had read my_map before it was set.
THEOREM HandOverCorrect == Spec => []HandOver
  <1>1. IInv => HandOver
    BY DEF IInv, HandInv, HandOver, Right
  <1>2. QED
    BY <1>1, Invariance, PTL

\* buffermap's my_char_map has the byte of the watched process, whatever others
\* read, at the same address too.
THEOREM CharCorrect == Spec => []CharIsMine
  <1>1. IInv => CharIsMine
    BY DEF IInv, CharInv, CharIsMine
  <1>2. QED
    BY <1>1, Invariance, PTL
=============================================================================
