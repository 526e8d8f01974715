-------------------------- MODULE OverrideProofs --------------------------
(***************************************************************************)
(* The safety properties of Override for any processes, addresses (the     *)
(* null address included) and number of iterations.                        *)
(***************************************************************************)
EXTENDS Override, TLAPS

Places == {"idle", "user", "probe", "load", "store", "reload", "restore",
           "mark", "copy", "filled", "return", "done"}

TypeInv ==
  /\ Program \in {"override_exec", "procfs_override"}
  /\ pc \in [Procs -> Places]
  /\ reg \in [Procs -> Nat]
  /\ buf \in [Procs -> {"zero", "42", "file"}]
  /\ ppos \in [Procs -> {0, 1}] /\ ret \in [Procs -> {-1, 0, 1}]
  /\ leak \in [Procs -> Int] /\ got \in [Procs -> Nat]
  /\ {counter_map, hits, seen, override_count} \subseteq Nat

\* Which code a process is in: the user program only reads while the kprobe is
\* attached, and each kernel function belongs to one of the experiments.
PlaceInv ==
  /\ pc[Me] # "idle" => main = "read"
  /\ pc[Me] \notin {"user", "done", "filled"}
  /\ \A p \in Procs :
       /\ pc[p] \in {"load", "store", "reload", "restore", "mark", "copy"}
            => Program = "override_exec"
       /\ pc[p] \in {"user", "filled", "done"} => Program = "procfs_override"
       /\ pc[p] = "filled" => p \in Full /\ ppos[p] = 0

\* Neither the count nor what a probe has loaded exceeds the executions.
CountInv ==
  /\ counter_map <= hits
  /\ \A p \in Procs : pc[p] \in {"store", "restore"} => reg[p] <= hits

\* Without an overlap one probe counts at a time, and what it has loaded is
\* the count.
AloneInv ==
  ~mixed =>
    /\ counter_map = hits
    /\ \A p \in Procs : pc[p] \in {"store", "restore"} => reg[p] = counter_map
    /\ \A p, q \in Procs : Counting(p) /\ Counting(q) => p = q

\* The user program's buffer is clear until its read is marked or copied.
SeenInv ==
  file \in {"empty", "text"} /\ main # "end" =>
    /\ pc[Me] \in {"probe", "load", "store", "reload", "restore", "mark"}
         => buf[Me] = "zero"
    /\ pc[Me] = "return" /\ buf[Me] = "42" => seen = override_count + 1
    /\ ~(pc[Me] = "return" /\ buf[Me] = "42") => seen = override_count

\* A buffer is kept by a read that is under way or was the last.
LeakInv ==
  /\ leak[Me] = 0
  /\ \A p \in Procs :
       /\ leak[p] \in {0, 1}
       /\ leak[p] = 1 => \/ pc[p] \in {"filled", "done"}
                         \/ pc[p] = "return" /\ ret[p] <= 0
       /\ pc[p] = "filled" => leak[p] = 1
       /\ Program = "override_exec" => leak[p] = 0

\* The position moves exactly when the contents are given.
GotInv ==
  \A p \in Full :
    /\ got[p] = ppos[p]
    /\ Program = "procfs_override" /\ pc[p] \in {"return", "done"} /\ ret[p] = 0
         => ppos[p] = 1

IInv == TypeInv /\ PlaceInv /\ CountInv /\ AloneInv /\ SeenInv /\ LeakInv /\ GotInv

-----------------------------------------------------------------------------
(* Each conjunct of the invariant *)

\* Every step keeps the types.
LEMMA TypeStep == TypeInv /\ PlaceInv /\ LeakInv /\ [Next]_vars => TypeInv'
  <1> SUFFICES ASSUME TypeInv, PlaceInv, LeakInv, [Next]_vars PROVE TypeInv'
    OBVIOUS
  <1>0. /\ UNCHANGED <<Program, file>>
        /\ Me \in Procs /\ Full \subseteq Procs /\ Me \notin Full
    BY OverrideAssumption DEF Next, vars
  <1> USE <1>0 DEF TypeInv, Places
  <1>1. ASSUME NEW p \in Procs, Compare(p) PROVE TypeInv'
    BY <1>1 DEF Compare, counts, maps, procfs, ghosts
  <1>2. ASSUME NEW p \in Procs, Load(p) PROVE TypeInv'
    BY <1>2 DEF Load, counts, maps, procfs, ghosts
  <1>3. ASSUME NEW p \in Procs, Store(p) PROVE TypeInv'
    BY <1>3 DEF Store, counts, maps, procfs, ghosts
  <1>4. ASSUME NEW p \in Procs, Reload(p) PROVE TypeInv'
    BY <1>4 DEF Reload, counts, maps, procfs, ghosts
  <1>5. ASSUME NEW p \in Procs, Restore(p) PROVE TypeInv'
    BY <1>5 DEF Restore, counts, maps, procfs, ghosts
  <1>6. ASSUME NEW p \in Procs, Mark(p) PROVE TypeInv'
    BY <1>6 DEF Mark, counts, maps, procfs, ghosts
  <1>7. ASSUME NEW p \in Procs, Copyout(p) PROVE TypeInv'
    BY <1>7 DEF Copyout, counts, maps, procfs, ghosts
  <1>8. ASSUME NEW p \in Procs, ReadReplaced(p) PROVE TypeInv'
    BY <1>8 DEF ReadReplaced, counts, maps, procfs, ghosts
  <1>9. ASSUME NEW p \in Procs, Allocate(p) PROVE TypeInv'
    BY <1>9 DEF Allocate, counts, maps, procfs, ghosts
  <1>10. ASSUME NEW p \in Procs, CopyFaults(p) PROVE TypeInv'
    BY <1>10 DEF CopyFaults, counts, maps, procfs, ghosts
  <1>11. ASSUME NEW p \in Procs, CopyToUser(p) PROVE TypeInv'
    BY <1>11 DEF CopyToUser, counts, maps, procfs, ghosts
  <1>12. ASSUME NEW p \in Procs, Begin(p) PROVE TypeInv'
    BY <1>12 DEF Begin, EnterRead, counts, maps, procfs, ghosts
  <1>13. ASSUME NEW p \in Procs, Continue(p) PROVE TypeInv'
    BY <1>13 DEF Continue, EnterRead, counts, maps, procfs, ghosts
  <1>14. ASSUME NEW p \in Procs, Return(p) PROVE TypeInv'
    BY <1>14 DEF Return, counts, maps, procfs, ghosts
  <1>15. CASE Cleanup
    BY <1>15 DEF Cleanup, counts, maps, procfs, ghosts
  <1>16. CASE Start
    BY <1>16 DEF Start, counts, maps, procfs, ghosts
  <1>17. CASE ZeroCounter
    BY <1>17 DEF ZeroCounter, counts, maps, procfs, ghosts
  <1>18. CASE Register
    BY <1>18 DEF Register, counts, maps, procfs, ghosts
  <1>19. CASE Open
    BY <1>19 DEF Open, counts, maps, procfs, ghosts
  <1>20. CASE Read
    BY <1>20 DEF Read, EnterRead, counts, maps, procfs, ghosts
  <1>21. CASE Classify
    BY <1>21 DEF Classify, counts, maps, procfs, ghosts
  <1>22. CASE Report
    BY <1>22 DEF Report, counts, maps, procfs, ghosts
  <1>23. CASE Killed
    BY <1>23 DEF Killed, counts, maps, procfs, ghosts
  <1>24. CASE UNCHANGED vars
    BY <1>24 DEF vars
  <1>25. QED
    BY <1>1, <1>2, <1>3, <1>4, <1>5, <1>6, <1>7, <1>8, <1>9, <1>10, <1>11, <1>12,
       <1>13, <1>14, <1>15, <1>16, <1>17, <1>18, <1>19, <1>20, <1>21, <1>22, <1>23,
       <1>24 DEF Next, Main, Kernel

\* Processes stay in the code of the program that is run.
LEMMA PlaceStep == TypeInv /\ PlaceInv /\ [Next]_vars => PlaceInv'
  <1> SUFFICES ASSUME TypeInv, PlaceInv, [Next]_vars PROVE PlaceInv'
    OBVIOUS
  <1>0. /\ UNCHANGED <<Program, file>>
        /\ Me \in Procs /\ Full \subseteq Procs /\ Me \notin Full
    BY OverrideAssumption DEF Next, vars
  <1> USE <1>0 DEF TypeInv, PlaceInv, Places
  <1>1. ASSUME NEW p \in Procs, Compare(p) PROVE PlaceInv'
    BY <1>1 DEF Compare, Attached, counts, maps, procfs, ghosts
  <1>2. ASSUME NEW p \in Procs, Load(p) PROVE PlaceInv'
    BY <1>2 DEF Load, counts, maps, procfs, ghosts
  <1>3. ASSUME NEW p \in Procs, Store(p) PROVE PlaceInv'
    BY <1>3 DEF Store, counts, maps, procfs, ghosts
  <1>4. ASSUME NEW p \in Procs, Reload(p) PROVE PlaceInv'
    BY <1>4 DEF Reload, counts, maps, procfs, ghosts
  <1>5. ASSUME NEW p \in Procs, Restore(p) PROVE PlaceInv'
    BY <1>5 DEF Restore, counts, maps, procfs, ghosts
  <1>6. ASSUME NEW p \in Procs, Mark(p) PROVE PlaceInv'
    BY <1>6 DEF Mark, counts, maps, procfs, ghosts
  <1>7. ASSUME NEW p \in Procs, Copyout(p) PROVE PlaceInv'
    BY <1>7 DEF Copyout, counts, maps, procfs, ghosts
  <1>8. ASSUME NEW p \in Procs, ReadReplaced(p) PROVE PlaceInv'
    BY <1>8 DEF ReadReplaced, Attached, counts, maps, procfs, ghosts
  <1>9. ASSUME NEW p \in Procs, Allocate(p) PROVE PlaceInv'
    BY <1>9 DEF Allocate, Attached, counts, maps, procfs, ghosts
  <1>10. ASSUME NEW p \in Procs, CopyFaults(p) PROVE PlaceInv'
    BY <1>10 DEF CopyFaults, counts, maps, procfs, ghosts
  <1>11. ASSUME NEW p \in Procs, CopyToUser(p) PROVE PlaceInv'
    BY <1>11 DEF CopyToUser, counts, maps, procfs, ghosts
  <1>12. ASSUME NEW p \in Procs, Begin(p) PROVE PlaceInv'
    BY <1>12 DEF Begin, EnterRead, counts, maps, procfs, ghosts
  <1>13. ASSUME NEW p \in Procs, Continue(p) PROVE PlaceInv'
    BY <1>13 DEF Continue, EnterRead, counts, maps, procfs, ghosts
  <1>14. ASSUME NEW p \in Procs, Return(p) PROVE PlaceInv'
    BY <1>14 DEF Return, counts, maps, procfs, ghosts
  <1>15. CASE Cleanup
    BY <1>15 DEF Cleanup, counts, maps, procfs, ghosts
  <1>16. CASE Start
    BY <1>16 DEF Start, Attached, counts, maps, procfs, ghosts
  <1>17. CASE ZeroCounter
    BY <1>17 DEF ZeroCounter, counts, maps, procfs, ghosts
  <1>18. CASE Register
    BY <1>18 DEF Register, counts, maps, procfs, ghosts
  <1>19. CASE Open
    BY <1>19 DEF Open, counts, maps, procfs, ghosts
  <1>20. CASE Read
    BY <1>20 DEF Read, EnterRead, counts, maps, procfs, ghosts
  <1>21. CASE Classify
    BY <1>21 DEF Classify, counts, maps, procfs, ghosts
  <1>22. CASE Report
    BY <1>22 DEF Report, counts, maps, procfs, ghosts
  <1>23. CASE Killed
    BY <1>23 DEF Killed, Attached, counts, maps, procfs, ghosts
  <1>24. CASE UNCHANGED vars
    BY <1>24 DEF vars
  <1>25. QED
    BY <1>1, <1>2, <1>3, <1>4, <1>5, <1>6, <1>7, <1>8, <1>9, <1>10, <1>11, <1>12,
       <1>13, <1>14, <1>15, <1>16, <1>17, <1>18, <1>19, <1>20, <1>21, <1>22, <1>23,
       <1>24 DEF Next, Main, Kernel

\* No store raises the counter above the executions.
LEMMA CountStep == TypeInv /\ CountInv /\ [Next]_vars => CountInv'
  <1> SUFFICES ASSUME TypeInv, CountInv, [Next]_vars PROVE CountInv'
    OBVIOUS
  <1>0. /\ UNCHANGED <<Program, file>>
        /\ Me \in Procs /\ Full \subseteq Procs /\ Me \notin Full
    BY OverrideAssumption DEF Next, vars
  <1> USE <1>0 DEF TypeInv, CountInv, Places
  <1>1. ASSUME NEW p \in Procs, Compare(p) PROVE CountInv'
    BY <1>1 DEF Compare, Attached, counts, maps, procfs, ghosts
  <1>2. ASSUME NEW p \in Procs, Load(p) PROVE CountInv'
    BY <1>2 DEF Load, counts, maps, procfs, ghosts
  <1>3. ASSUME NEW p \in Procs, Store(p) PROVE CountInv'
    BY <1>3 DEF Store, counts, maps, procfs, ghosts
  <1>4. ASSUME NEW p \in Procs, Reload(p) PROVE CountInv'
    BY <1>4 DEF Reload, counts, maps, procfs, ghosts
  <1>5. ASSUME NEW p \in Procs, Restore(p) PROVE CountInv'
    BY <1>5 DEF Restore, counts, maps, procfs, ghosts
  <1>6. ASSUME NEW p \in Procs, Mark(p) PROVE CountInv'
    BY <1>6 DEF Mark, counts, maps, procfs, ghosts
  <1>7. ASSUME NEW p \in Procs, Copyout(p) PROVE CountInv'
    BY <1>7 DEF Copyout, counts, maps, procfs, ghosts
  <1>8. ASSUME NEW p \in Procs, ReadReplaced(p) PROVE CountInv'
    BY <1>8 DEF ReadReplaced, Attached, counts, maps, procfs, ghosts
  <1>9. ASSUME NEW p \in Procs, Allocate(p) PROVE CountInv'
    BY <1>9 DEF Allocate, Attached, counts, maps, procfs, ghosts
  <1>10. ASSUME NEW p \in Procs, CopyFaults(p) PROVE CountInv'
    BY <1>10 DEF CopyFaults, counts, maps, procfs, ghosts
  <1>11. ASSUME NEW p \in Procs, CopyToUser(p) PROVE CountInv'
    BY <1>11 DEF CopyToUser, counts, maps, procfs, ghosts
  <1>12. ASSUME NEW p \in Procs, Begin(p) PROVE CountInv'
    BY <1>12 DEF Begin, EnterRead, counts, maps, procfs, ghosts
  <1>13. ASSUME NEW p \in Procs, Continue(p) PROVE CountInv'
    BY <1>13 DEF Continue, EnterRead, counts, maps, procfs, ghosts
  <1>14. ASSUME NEW p \in Procs, Return(p) PROVE CountInv'
    BY <1>14 DEF Return, counts, maps, procfs, ghosts
  <1>15. CASE Cleanup
    BY <1>15 DEF Cleanup, counts, maps, procfs, ghosts
  <1>16. CASE Start
    BY <1>16 DEF Start, Attached, counts, maps, procfs, ghosts
  <1>17. CASE ZeroCounter
    BY <1>17 DEF ZeroCounter, counts, maps, procfs, ghosts
  <1>18. CASE Register
    BY <1>18 DEF Register, counts, maps, procfs, ghosts
  <1>19. CASE Open
    BY <1>19 DEF Open, counts, maps, procfs, ghosts
  <1>20. CASE Read
    BY <1>20 DEF Read, EnterRead, counts, maps, procfs, ghosts
  <1>21. CASE Classify
    BY <1>21 DEF Classify, counts, maps, procfs, ghosts
  <1>22. CASE Report
    BY <1>22 DEF Report, counts, maps, procfs, ghosts
  <1>23. CASE Killed
    BY <1>23 DEF Killed, Attached, counts, maps, procfs, ghosts
  <1>24. CASE UNCHANGED vars
    BY <1>24 DEF vars
  <1>25. QED
    BY <1>1, <1>2, <1>3, <1>4, <1>5, <1>6, <1>7, <1>8, <1>9, <1>10, <1>11, <1>12,
       <1>13, <1>14, <1>15, <1>16, <1>17, <1>18, <1>19, <1>20, <1>21, <1>22, <1>23,
       <1>24 DEF Next, Main, Kernel

\* Without overlapping copies the counter is exact.
LEMMA AloneStep == TypeInv /\ AloneInv /\ [Next]_vars => AloneInv'
  <1> SUFFICES ASSUME TypeInv, AloneInv, [Next]_vars PROVE AloneInv'
    OBVIOUS
  <1>0. /\ UNCHANGED <<Program, file>>
        /\ Me \in Procs /\ Full \subseteq Procs /\ Me \notin Full
    BY OverrideAssumption DEF Next, vars
  <1> USE <1>0 DEF TypeInv, AloneInv, Counting, Places
  <1>1. ASSUME NEW p \in Procs, Compare(p) PROVE AloneInv'
    BY <1>1 DEF Compare, Attached, counts, maps, procfs, ghosts
  <1>2. ASSUME NEW p \in Procs, Load(p) PROVE AloneInv'
    BY <1>2 DEF Load, counts, maps, procfs, ghosts
  <1>3. ASSUME NEW p \in Procs, Store(p) PROVE AloneInv'
    BY <1>3 DEF Store, counts, maps, procfs, ghosts
  <1>4. ASSUME NEW p \in Procs, Reload(p) PROVE AloneInv'
    BY <1>4 DEF Reload, counts, maps, procfs, ghosts
  <1>5. ASSUME NEW p \in Procs, Restore(p) PROVE AloneInv'
    BY <1>5 DEF Restore, counts, maps, procfs, ghosts
  <1>6. ASSUME NEW p \in Procs, Mark(p) PROVE AloneInv'
    BY <1>6 DEF Mark, counts, maps, procfs, ghosts
  <1>7. ASSUME NEW p \in Procs, Copyout(p) PROVE AloneInv'
    BY <1>7 DEF Copyout, counts, maps, procfs, ghosts
  <1>8. ASSUME NEW p \in Procs, ReadReplaced(p) PROVE AloneInv'
    BY <1>8 DEF ReadReplaced, Attached, counts, maps, procfs, ghosts
  <1>9. ASSUME NEW p \in Procs, Allocate(p) PROVE AloneInv'
    BY <1>9 DEF Allocate, Attached, counts, maps, procfs, ghosts
  <1>10. ASSUME NEW p \in Procs, CopyFaults(p) PROVE AloneInv'
    BY <1>10 DEF CopyFaults, counts, maps, procfs, ghosts
  <1>11. ASSUME NEW p \in Procs, CopyToUser(p) PROVE AloneInv'
    BY <1>11 DEF CopyToUser, counts, maps, procfs, ghosts
  <1>12. ASSUME NEW p \in Procs, Begin(p) PROVE AloneInv'
    BY <1>12 DEF Begin, EnterRead, counts, maps, procfs, ghosts
  <1>13. ASSUME NEW p \in Procs, Continue(p) PROVE AloneInv'
    BY <1>13 DEF Continue, EnterRead, counts, maps, procfs, ghosts
  <1>14. ASSUME NEW p \in Procs, Return(p) PROVE AloneInv'
    BY <1>14 DEF Return, counts, maps, procfs, ghosts
  <1>15. CASE Cleanup
    BY <1>15 DEF Cleanup, counts, maps, procfs, ghosts
  <1>16. CASE Start
    BY <1>16 DEF Start, Attached, counts, maps, procfs, ghosts
  <1>17. CASE ZeroCounter
    <2>1. /\ UNCHANGED <<pc, reg, hits>> /\ counter_map' = 0
          /\ mixed' = (mixed \/ hits > 0 \/ \E q \in Procs : Counting(q))
      BY <1>17 DEF ZeroCounter
    <2>2. ~mixed' => ~(hits > 0) /\ \A q \in Procs : ~Counting(q)
      BY <2>1, Zenon
    <2>3. ~mixed' => hits = 0
      BY <2>2
    <2>4. QED
      BY <2>1, <2>2, <2>3
  <1>18. CASE Register
    BY <1>18 DEF Register, counts, maps, procfs, ghosts
  <1>19. CASE Open
    BY <1>19 DEF Open, counts, maps, procfs, ghosts
  <1>20. CASE Read
    BY <1>20 DEF Read, EnterRead, counts, maps, procfs, ghosts
  <1>21. CASE Classify
    BY <1>21 DEF Classify, counts, maps, procfs, ghosts
  <1>22. CASE Report
    BY <1>22 DEF Report, counts, maps, procfs, ghosts
  <1>23. CASE Killed
    BY <1>23 DEF Killed, Attached, counts, maps, procfs, ghosts
  <1>24. CASE UNCHANGED vars
    BY <1>24 DEF vars
  <1>25. QED
    BY <1>1, <1>2, <1>3, <1>4, <1>5, <1>6, <1>7, <1>8, <1>9, <1>10, <1>11, <1>12,
       <1>13, <1>14, <1>15, <1>16, <1>17, <1>18, <1>19, <1>20, <1>21, <1>22, <1>23,
       <1>24 DEF Next, Main, Kernel

\* A 42 in the user program's buffer is the one its probe has left.
LEMMA SeenStep == TypeInv /\ PlaceInv /\ SeenInv /\ [Next]_vars => SeenInv'
  <1> SUFFICES ASSUME TypeInv, PlaceInv, SeenInv, [Next]_vars PROVE SeenInv'
    OBVIOUS
  <1>0. /\ UNCHANGED <<Program, file>>
        /\ Me \in Procs /\ Full \subseteq Procs /\ Me \notin Full
    BY OverrideAssumption DEF Next, vars
  <1> USE <1>0 DEF TypeInv, PlaceInv, SeenInv, Places
  <1>1. ASSUME NEW p \in Procs, Compare(p) PROVE SeenInv'
    BY <1>1 DEF Compare, Attached, counts, maps, procfs, ghosts
  <1>2. ASSUME NEW p \in Procs, Load(p) PROVE SeenInv'
    BY <1>2 DEF Load, counts, maps, procfs, ghosts
  <1>3. ASSUME NEW p \in Procs, Store(p) PROVE SeenInv'
    BY <1>3 DEF Store, counts, maps, procfs, ghosts
  <1>4. ASSUME NEW p \in Procs, Reload(p) PROVE SeenInv'
    BY <1>4 DEF Reload, counts, maps, procfs, ghosts
  <1>5. ASSUME NEW p \in Procs, Restore(p) PROVE SeenInv'
    BY <1>5 DEF Restore, counts, maps, procfs, ghosts
  <1>6. ASSUME NEW p \in Procs, Mark(p) PROVE SeenInv'
    BY <1>6 DEF Mark, counts, maps, procfs, ghosts
  <1>7. ASSUME NEW p \in Procs, Copyout(p) PROVE SeenInv'
    BY <1>7 DEF Copyout, counts, maps, procfs, ghosts
  <1>8. ASSUME NEW p \in Procs, ReadReplaced(p) PROVE SeenInv'
    BY <1>8 DEF ReadReplaced, Attached, counts, maps, procfs, ghosts
  <1>9. ASSUME NEW p \in Procs, Allocate(p) PROVE SeenInv'
    BY <1>9 DEF Allocate, Attached, counts, maps, procfs, ghosts
  <1>10. ASSUME NEW p \in Procs, CopyFaults(p) PROVE SeenInv'
    BY <1>10 DEF CopyFaults, counts, maps, procfs, ghosts
  <1>11. ASSUME NEW p \in Procs, CopyToUser(p) PROVE SeenInv'
    BY <1>11 DEF CopyToUser, counts, maps, procfs, ghosts
  <1>12. ASSUME NEW p \in Procs, Begin(p) PROVE SeenInv'
    BY <1>12 DEF Begin, EnterRead, counts, maps, procfs, ghosts
  <1>13. ASSUME NEW p \in Procs, Continue(p) PROVE SeenInv'
    BY <1>13 DEF Continue, EnterRead, counts, maps, procfs, ghosts
  <1>14. ASSUME NEW p \in Procs, Return(p) PROVE SeenInv'
    BY <1>14 DEF Return, counts, maps, procfs, ghosts
  <1>15. CASE Cleanup
    BY <1>15 DEF Cleanup, counts, maps, procfs, ghosts
  <1>16. CASE Start
    BY <1>16 DEF Start, Attached, counts, maps, procfs, ghosts
  <1>17. CASE ZeroCounter
    BY <1>17 DEF ZeroCounter, counts, maps, procfs, ghosts
  <1>18. CASE Register
    BY <1>18 DEF Register, counts, maps, procfs, ghosts
  <1>19. CASE Open
    BY <1>19 DEF Open, counts, maps, procfs, ghosts
  <1>20. CASE Read
    BY <1>20 DEF Read, EnterRead, counts, maps, procfs, ghosts
  <1>21. CASE Classify
    BY <1>21 DEF Classify, Begins42, Partial, counts, maps, procfs, ghosts
  <1>22. CASE Report
    BY <1>22 DEF Report, counts, maps, procfs, ghosts
  <1>23. CASE Killed
    BY <1>23 DEF Killed, Attached, counts, maps, procfs, ghosts
  <1>24. CASE UNCHANGED vars
    BY <1>24 DEF vars
  <1>25. QED
    BY <1>1, <1>2, <1>3, <1>4, <1>5, <1>6, <1>7, <1>8, <1>9, <1>10, <1>11, <1>12,
       <1>13, <1>14, <1>15, <1>16, <1>17, <1>18, <1>19, <1>20, <1>21, <1>22, <1>23,
       <1>24 DEF Next, Main, Kernel

\* Only a process that has come to the end of the file keeps a buffer of myread.
LEMMA LeakStep == TypeInv /\ PlaceInv /\ LeakInv /\ [Next]_vars => LeakInv'
  <1> SUFFICES ASSUME TypeInv, PlaceInv, LeakInv, [Next]_vars PROVE LeakInv'
    OBVIOUS
  <1>0. /\ UNCHANGED <<Program, file>>
        /\ Me \in Procs /\ Full \subseteq Procs /\ Me \notin Full
    BY OverrideAssumption DEF Next, vars
  <1> USE <1>0 DEF TypeInv, PlaceInv, LeakInv, Places
  <1>1. ASSUME NEW p \in Procs, Compare(p) PROVE LeakInv'
    BY <1>1 DEF Compare, Attached, counts, maps, procfs, ghosts
  <1>2. ASSUME NEW p \in Procs, Load(p) PROVE LeakInv'
    BY <1>2 DEF Load, counts, maps, procfs, ghosts
  <1>3. ASSUME NEW p \in Procs, Store(p) PROVE LeakInv'
    BY <1>3 DEF Store, counts, maps, procfs, ghosts
  <1>4. ASSUME NEW p \in Procs, Reload(p) PROVE LeakInv'
    BY <1>4 DEF Reload, counts, maps, procfs, ghosts
  <1>5. ASSUME NEW p \in Procs, Restore(p) PROVE LeakInv'
    BY <1>5 DEF Restore, counts, maps, procfs, ghosts
  <1>6. ASSUME NEW p \in Procs, Mark(p) PROVE LeakInv'
    BY <1>6 DEF Mark, counts, maps, procfs, ghosts
  <1>7. ASSUME NEW p \in Procs, Copyout(p) PROVE LeakInv'
    BY <1>7 DEF Copyout, counts, maps, procfs, ghosts
  <1>8. ASSUME NEW p \in Procs, ReadReplaced(p) PROVE LeakInv'
    BY <1>8 DEF ReadReplaced, Attached, counts, maps, procfs, ghosts
  <1>9. ASSUME NEW p \in Procs, Allocate(p) PROVE LeakInv'
    BY <1>9 DEF Allocate, Attached, counts, maps, procfs, ghosts
  <1>10. ASSUME NEW p \in Procs, CopyFaults(p) PROVE LeakInv'
    BY <1>10 DEF CopyFaults, counts, maps, procfs, ghosts
  <1>11. ASSUME NEW p \in Procs, CopyToUser(p) PROVE LeakInv'
    BY <1>11 DEF CopyToUser, counts, maps, procfs, ghosts
  <1>12. ASSUME NEW p \in Procs, Begin(p) PROVE LeakInv'
    BY <1>12 DEF Begin, EnterRead, counts, maps, procfs, ghosts
  <1>13. ASSUME NEW p \in Procs, Continue(p) PROVE LeakInv'
    BY <1>13 DEF Continue, EnterRead, counts, maps, procfs, ghosts
  <1>14. ASSUME NEW p \in Procs, Return(p) PROVE LeakInv'
    BY <1>14 DEF Return, counts, maps, procfs, ghosts
  <1>15. CASE Cleanup
    BY <1>15 DEF Cleanup, counts, maps, procfs, ghosts
  <1>16. CASE Start
    BY <1>16 DEF Start, Attached, counts, maps, procfs, ghosts
  <1>17. CASE ZeroCounter
    BY <1>17 DEF ZeroCounter, counts, maps, procfs, ghosts
  <1>18. CASE Register
    BY <1>18 DEF Register, counts, maps, procfs, ghosts
  <1>19. CASE Open
    BY <1>19 DEF Open, counts, maps, procfs, ghosts
  <1>20. CASE Read
    BY <1>20 DEF Read, EnterRead, counts, maps, procfs, ghosts
  <1>21. CASE Classify
    BY <1>21 DEF Classify, counts, maps, procfs, ghosts
  <1>22. CASE Report
    BY <1>22 DEF Report, counts, maps, procfs, ghosts
  <1>23. CASE Killed
    BY <1>23 DEF Killed, Attached, counts, maps, procfs, ghosts
  <1>24. CASE UNCHANGED vars
    BY <1>24 DEF vars
  <1>25. QED
    BY <1>1, <1>2, <1>3, <1>4, <1>5, <1>6, <1>7, <1>8, <1>9, <1>10, <1>11, <1>12,
       <1>13, <1>14, <1>15, <1>16, <1>17, <1>18, <1>19, <1>20, <1>21, <1>22, <1>23,
       <1>24 DEF Next, Main, Kernel

\* A reader has the contents before it is told of the end.
LEMMA GotStep == TypeInv /\ PlaceInv /\ GotInv /\ [Next]_vars => GotInv'
  <1> SUFFICES ASSUME TypeInv, PlaceInv, GotInv, [Next]_vars PROVE GotInv'
    OBVIOUS
  <1>0. /\ UNCHANGED <<Program, file>>
        /\ Me \in Procs /\ Full \subseteq Procs /\ Me \notin Full
    BY OverrideAssumption DEF Next, vars
  <1> USE <1>0 DEF TypeInv, PlaceInv, GotInv, Places
  <1>1. ASSUME NEW p \in Procs, Compare(p) PROVE GotInv'
    BY <1>1 DEF Compare, Attached, counts, maps, procfs, ghosts
  <1>2. ASSUME NEW p \in Procs, Load(p) PROVE GotInv'
    BY <1>2 DEF Load, counts, maps, procfs, ghosts
  <1>3. ASSUME NEW p \in Procs, Store(p) PROVE GotInv'
    BY <1>3 DEF Store, counts, maps, procfs, ghosts
  <1>4. ASSUME NEW p \in Procs, Reload(p) PROVE GotInv'
    BY <1>4 DEF Reload, counts, maps, procfs, ghosts
  <1>5. ASSUME NEW p \in Procs, Restore(p) PROVE GotInv'
    BY <1>5 DEF Restore, counts, maps, procfs, ghosts
  <1>6. ASSUME NEW p \in Procs, Mark(p) PROVE GotInv'
    BY <1>6 DEF Mark, counts, maps, procfs, ghosts
  <1>7. ASSUME NEW p \in Procs, Copyout(p) PROVE GotInv'
    BY <1>7 DEF Copyout, counts, maps, procfs, ghosts
  <1>8. ASSUME NEW p \in Procs, ReadReplaced(p) PROVE GotInv'
    BY <1>8 DEF ReadReplaced, Attached, counts, maps, procfs, ghosts
  <1>9. ASSUME NEW p \in Procs, Allocate(p) PROVE GotInv'
    BY <1>9 DEF Allocate, Attached, counts, maps, procfs, ghosts
  <1>10. ASSUME NEW p \in Procs, CopyFaults(p) PROVE GotInv'
    BY <1>10 DEF CopyFaults, counts, maps, procfs, ghosts
  <1>11. ASSUME NEW p \in Procs, CopyToUser(p) PROVE GotInv'
    BY <1>11, SMTT(30) DEF CopyToUser, counts, maps, procfs, ghosts
  <1>12. ASSUME NEW p \in Procs, Begin(p) PROVE GotInv'
    BY <1>12 DEF Begin, EnterRead, counts, maps, procfs, ghosts
  <1>13. ASSUME NEW p \in Procs, Continue(p) PROVE GotInv'
    BY <1>13, SMTT(30) DEF Continue, EnterRead, counts, maps, procfs, ghosts
  <1>14. ASSUME NEW p \in Procs, Return(p) PROVE GotInv'
    BY <1>14 DEF Return, counts, maps, procfs, ghosts
  <1>15. CASE Cleanup
    BY <1>15 DEF Cleanup, counts, maps, procfs, ghosts
  <1>16. CASE Start
    BY <1>16 DEF Start, Attached, counts, maps, procfs, ghosts
  <1>17. CASE ZeroCounter
    BY <1>17 DEF ZeroCounter, counts, maps, procfs, ghosts
  <1>18. CASE Register
    BY <1>18 DEF Register, counts, maps, procfs, ghosts
  <1>19. CASE Open
    BY <1>19 DEF Open, counts, maps, procfs, ghosts
  <1>20. CASE Read
    BY <1>20 DEF Read, EnterRead, counts, maps, procfs, ghosts
  <1>21. CASE Classify
    BY <1>21 DEF Classify, counts, maps, procfs, ghosts
  <1>22. CASE Report
    BY <1>22 DEF Report, counts, maps, procfs, ghosts
  <1>23. CASE Killed
    BY <1>23 DEF Killed, Attached, counts, maps, procfs, ghosts
  <1>24. CASE UNCHANGED vars
    BY <1>24 DEF vars
  <1>25. QED
    BY <1>1, <1>2, <1>3, <1>4, <1>5, <1>6, <1>7, <1>8, <1>9, <1>10, <1>11, <1>12,
       <1>13, <1>14, <1>15, <1>16, <1>17, <1>18, <1>19, <1>20, <1>21, <1>22, <1>23,
       <1>24 DEF Next, Main, Kernel

-----------------------------------------------------------------------------
(* The invariant *)

\* No probe is attached and no read is under way: the invariant holds at the start.
LEMMA IInvInit == Init => IInv
  <1> SUFFICES ASSUME Init PROVE IInv
    OBVIOUS
  <1>1. /\ Program \in {"override_exec", "procfs_override"} /\ Me \in Procs
        /\ Full \subseteq Procs
    BY OverrideAssumption DEF Init
  <1>2. TypeInv
    BY <1>1 DEF Init, TypeInv, Places
  <1>3. PlaceInv /\ CountInv
    BY <1>1 DEF Init, PlaceInv, CountInv
  <1>4. AloneInv
    BY DEF Init, AloneInv, Counting
  <1>5. SeenInv /\ LeakInv /\ GotInv
    BY <1>1 DEF Init, SeenInv, LeakInv, GotInv
  <1>6. QED
    BY <1>2, <1>3, <1>4, <1>5 DEF IInv

\* Every step preserves the invariant.
LEMMA IInvStep == IInv /\ [Next]_vars => IInv'
  BY TypeStep, PlaceStep, CountStep, AloneStep, SeenStep, LeakStep, GotStep DEF IInv

\* So it holds throughout.
LEMMA Invariance == Spec => []IInv
  BY IInvInit, IInvStep, PTL DEF Spec

-----------------------------------------------------------------------------
(* What follows *)

\* override_count counts the user program's own replaced reads and no others.
THEOREM SuccessCorrect == Spec => []SuccessIsOverride
  <1>1. IInv => SuccessIsOverride
    BY DEF IInv, PlaceInv, SeenInv, SuccessIsOverride
  <1>2. QED
    BY <1>1, Invariance, PTL

\* counter_map is the number of executions of bpf_copyout when none overlap.
THEOREM CountCorrect == Spec => []CountIsExact
  <1>1. IInv => CountIsExact
    BY DEF IInv, AloneInv, CountIsExact
  <1>2. QED
    BY <1>1, Invariance, PTL

\* A full-size reader sees the end of /proc/helloworld only after its contents.
THEOREM EndCorrect == Spec => []EndAfterContents
  <1>1. IInv => EndAfterContents
    BY DEF IInv, GotInv, EndAfterContents
  <1>2. QED
    BY <1>1, Invariance, PTL

\* myread keeps at most one buffer per reader, and none for procfs_override.
THEOREM LeaksCorrect == Spec => []LeaksBounded
  <1>1. IInv => LeaksBounded
    BY DEF IInv, LeakInv, LeaksBounded
  <1>2. QED
    BY <1>1, Invariance, PTL

\* counter_map implements a tally that may forget, and be set back.
THEOREM TallyImplemented == Spec => ImplementsTally
  <1> DEFINE H == [k \in {"copyout"} |-> hits]
             V == [k \in {"copyout"} |-> counter_map]
  <1>1. Init => T!TallyInit
    BY DEF Init, T!TallyInit
  <1>2. IInv /\ [Next]_vars => [T!TallyNext]_(T!tallyVars)
    <2> SUFFICES ASSUME IInv, [Next]_vars PROVE [T!TallyNext]_(T!tallyVars)
      OBVIOUS
    <2>0. TypeInv /\ CountInv
      BY DEF IInv
    <2>1. ASSUME NEW p \in Procs, Store(p) PROVE T!Count("copyout")
      <3>1. /\ counter_map' = reg[p] + 1 /\ hits' = hits + 1
            /\ reg[p] + 1 \in 1..(hits + 1)
        BY <2>0, <2>1 DEF Store, TypeInv, CountInv
      <3>2. /\ H' = [H EXCEPT !["copyout"] = @ + 1]
            /\ V' = [V EXCEPT !["copyout"] = reg[p] + 1]
            /\ H["copyout"] = hits
        BY <3>1
      <3>3. QED
        BY <3>1, <3>2 DEF T!Count
    <2>2. ASSUME NEW p \in Procs, Restore(p)
          PROVE  T!Rewrite("copyout") \/ T!Reset("copyout")
      <3>1. counter_map' = reg[p] /\ hits' = hits /\ reg[p] \in 0..hits
        BY <2>0, <2>2 DEF Restore, TypeInv, CountInv, ghosts
      <3>2. /\ H' = H /\ H["copyout"] = hits
            /\ V' = [V EXCEPT !["copyout"] = reg[p]]
        BY <3>1
      <3>3. CASE reg[p] = 0
        BY <3>2, <3>3 DEF T!Reset
      <3>4. CASE reg[p] \in 1..hits
        BY <3>2, <3>4 DEF T!Rewrite
      <3>5. QED
        BY <2>0, <3>1, <3>3, <3>4 DEF TypeInv
    <2>3. ASSUME ZeroCounter PROVE T!Reset("copyout")
      <3>1. counter_map' = 0 /\ hits' = hits
        BY <2>3 DEF ZeroCounter
      <3>2. H' = H /\ V' = [V EXCEPT !["copyout"] = 0]
        BY <3>1
      <3>3. QED
        BY <3>2 DEF T!Reset
    <2>4. CASE UNCHANGED <<counter_map, hits>>
      BY <2>4 DEF T!tallyVars
    <2>5. \/ \E p \in Procs : Store(p) \/ Restore(p)
          \/ ZeroCounter
          \/ UNCHANGED <<counter_map, hits>>
      BY ZenonT(40) DEF Next, Main, Kernel, Compare, Load, Reload, Mark, Copyout, ReadReplaced,
         Allocate, CopyFaults, CopyToUser, Begin, Continue, Return, Cleanup, Start,
         Register, Open, Read, Classify, Report, Killed, maps, ghosts, vars
    <2>6. QED
      BY <2>1, <2>2, <2>3, <2>4, <2>5 DEF T!TallyNext
  <1>3. QED
    BY <1>1, <1>2, Invariance, PTL DEF Spec, ImplementsTally, T!TallySpec

-----------------------------------------------------------------------------
(* The user program *)

\* The three counts add up to the reads that were classified, and a read is only
\* begun while iterations are left.
LoopInv ==
  /\ Program \in Programs /\ file \in Files \cup {"text"}
  /\ main \in {"off", "zero", "register", "open", "read", "end"}
  /\ i \in 0..ITERATIONS /\ (main = "read" => i < ITERATIONS)
  /\ override_count \in Nat /\ partial_override_count \in Nat /\ exec_count \in Nat
  /\ override_count + partial_override_count + exec_count = i
  /\ my_read_map \in {None, addr[Me]}

\* What the other processes and the module do besides.
ReadsInv ==
  /\ module \in BOOLEAN /\ mixed \in BOOLEAN
  /\ reads \in [Procs -> 0..MaxReads]

\* Only the user program changes its loop and its counts.
LEMMA LoopStep == LoopInv /\ [Next]_vars => LoopInv'
  <1> SUFFICES ASSUME LoopInv, [Next]_vars PROVE LoopInv'
    OBVIOUS
  <1>0. UNCHANGED <<Program, file>> /\ ITERATIONS \in Nat
    BY OverrideAssumption DEF Next, vars
  <1>1. CASE UNCHANGED <<main, i, counts, my_read_map>>
    BY <1>0, <1>1 DEF LoopInv, counts
  <1>2. CASE Start
    BY <1>0, <1>2 DEF LoopInv, Start, counts, maps
  <1>3. CASE ZeroCounter \/ Register
    BY <1>0, <1>3 DEF LoopInv, ZeroCounter, Register, counts, maps
  <1>4. CASE Open \/ Report \/ Killed
    BY <1>0, <1>4 DEF LoopInv, Open, Report, Killed, counts, maps
  <1>5. CASE Classify
    <2>1. i' = i + 1 /\ i < ITERATIONS /\ main' = "open" /\ my_read_map' = my_read_map
      BY <1>5 DEF LoopInv, Classify, maps
    <2>2. \/ /\ partial_override_count' = partial_override_count + 1
             /\ UNCHANGED <<override_count, exec_count>>
          \/ /\ override_count' = override_count + 1
             /\ UNCHANGED <<partial_override_count, exec_count>>
          \/ /\ exec_count' = exec_count + 1
             /\ UNCHANGED <<override_count, partial_override_count>>
      BY <1>5 DEF Classify
    <2>3. QED
      BY <1>0, <2>1, <2>2 DEF LoopInv
  <1>6. \/ Start \/ ZeroCounter \/ Register \/ Open \/ Report \/ Killed \/ Classify
        \/ UNCHANGED <<main, i, counts, my_read_map>>
    BY ZenonT(40)
    DEF Next, Main, Kernel, Compare, Load, Store, Reload, Restore, Mark, Copyout,
        ReadReplaced, Allocate, CopyFaults, CopyToUser, Begin, Continue, Return, Cleanup,
        Read, maps, vars, counts
  <1>7. QED
    BY <1>1, <1>2, <1>3, <1>4, <1>5, <1>6

\* A process begins at most MaxReads reads.
LEMMA ReadsStep == ReadsInv /\ [Next]_vars => ReadsInv'
  <1> SUFFICES ASSUME ReadsInv, [Next]_vars PROVE ReadsInv'
    OBVIOUS
  <1>1. mixed' \in BOOLEAN
    <2>1. mixed' = mixed \/ ZeroCounter \/ \E p \in Procs : Compare(p)
      BY ZenonT(40) DEF Next, Main, Kernel, Load, Store, Reload, Restore, Mark, Copyout,
         ReadReplaced, Allocate, CopyFaults, CopyToUser, Begin, Continue, Return, Cleanup,
         Start, Register, Open, Read, Classify, Report, Killed, vars, ghosts
    <2>2. QED
      BY <2>1, Zenon DEF ReadsInv, ZeroCounter, Compare
  <1>2. module' \in BOOLEAN
    <2>1. module' = module \/ Cleanup
      BY ZenonT(40) DEF Next, Main, Kernel, Compare, Load, Store, Reload, Restore, Mark,
         Copyout, ReadReplaced, Allocate, CopyFaults, CopyToUser, Begin, Continue, Return,
         Start, ZeroCounter, Register, Open, Read, Classify, Report, Killed, vars, procfs
    <2>2. QED
      BY <2>1, Zenon DEF ReadsInv, Cleanup
  <1>3. CASE UNCHANGED reads
    BY <1>1, <1>2, <1>3 DEF ReadsInv
  <1>4. ASSUME NEW p \in Procs, Begin(p) PROVE ReadsInv'
    <2>1. reads[p] + 1 \in 0..MaxReads
      BY <1>4, OverrideAssumption DEF Begin, ReadsInv
    <2>2. QED
      BY <1>1, <1>2, <1>4, <2>1 DEF Begin, ReadsInv
  <1>5. reads' = reads \/ \E p \in Procs : Begin(p)
    BY ZenonT(40)
    DEF Next, Main, Kernel, Compare, Load, Store, Reload, Restore, Mark, Copyout,
        ReadReplaced, Allocate, CopyFaults, CopyToUser, Continue, Return, Cleanup,
        Start, ZeroCounter, Register, Open, Read, Classify, Report, Killed, vars
  <1>6. QED
    BY <1>3, <1>4, <1>5

\* The counts that override_exec_user.c and procfs_override_user.c print add up to
\* the iterations of their loops, whatever the kernel does meanwhile; no map, buffer
\* or position takes a value of another kind.
THEOREM TypeCorrect == Spec => []TypeOK
  <1>1. Init => LoopInv /\ ReadsInv
    <2> SUFFICES ASSUME Init PROVE LoopInv /\ ReadsInv
      OBVIOUS
    <2>1. file \in Files \cup {"text"} /\ Program \in Programs
      BY DEF Init
    <2>2. LoopInv
      <3>1. 0 \in 0..ITERATIONS /\ 0 + 0 + 0 = 0 /\ 0 \in Nat
        BY OverrideAssumption
      <3>2. QED
        BY <2>1, <3>1 DEF Init, LoopInv
    <2>3. ReadsInv
      <3>1. 0 \in 0..MaxReads
        BY OverrideAssumption
      <3>2. module \in BOOLEAN /\ mixed \in BOOLEAN
        BY Zenon DEF Init
      <3>3. reads \in [Procs -> 0..MaxReads]
        BY <3>1 DEF Init
      <3>4. QED
        BY <3>2, <3>3 DEF ReadsInv
    <2>4. QED
      BY <2>2, <2>3
  <1>2. IInv /\ LoopInv /\ ReadsInv => TypeOK
    <2> SUFFICES ASSUME IInv, LoopInv, ReadsInv PROVE TypeOK
      OBVIOUS
    <2>1. /\ {override_count, partial_override_count, exec_count, counter_map} \subseteq Nat
          /\ hits \in Nat /\ seen \in Nat
      BY DEF IInv, TypeInv, LoopInv
    <2>2. /\ pc \in [Procs -> Places] /\ reg \in [Procs -> Nat]
          /\ buf \in [Procs -> {"zero", "42", "file"}] /\ got \in [Procs -> Nat]
      BY DEF IInv, TypeInv
    <2>3. ppos \in [Procs -> 0..1] /\ ret \in [Procs -> -1..1] /\ leak \in [Procs -> Nat]
      BY DEF IInv, TypeInv, LeakInv
    <2>4. QED
      BY <2>1, <2>2, <2>3 DEF TypeOK, Places, LoopInv, ReadsInv
  <1>3. QED
    BY <1>1, <1>2, Invariance, LoopStep, ReadsStep, PTL DEF Spec
=============================================================================
