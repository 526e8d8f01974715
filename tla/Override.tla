------------------------------ MODULE Override ------------------------------
(***************************************************************************)
(* Two experiments that replace a function of the kernel by a kprobe which *)
(* writes "42" into the reader's buffer, and count how often the reader    *)
(* sees it:                                                                *)
(*   override_exec    replaces the copy to the one buffer whose address is *)
(*                    registered, and counts itself in counter_map;        *)
(*   procfs_override  replaces all of myread, the read of /proc/helloworld *)
(*                    that the module procfs_read provides.                *)
(* Other processes read at the same time: other buffers, one of them       *)
(* perhaps at the same address, or the same file in /proc.                 *)
(***************************************************************************)
EXTENDS Integers, FiniteSets

CONSTANTS
  Programs,   \* which of the two are run, one at a time
  Procs, Me,  \* the processes; the user program of the experiment
  addr,       \* addr[p]: the address of p's buffer
  Full,       \* the processes that read at least BUFSIZE bytes at a time
  Once,       \* those that read once, as usertest does; others read to the end
  Files,      \* what the file may hold
  ITERATIONS,
  MaxReads    \* bound: the reads of each other process in override_exec

ASSUME OverrideAssumption ==
  /\ Programs \subseteq {"override_exec", "procfs_override"}
  /\ Full \subseteq Procs /\ Me \in Procs \ Full
  /\ Files \subseteq {"empty", "text", "42x", "42a"}
  /\ {ITERATIONS, MaxReads} \subseteq Nat

None == "none"   \* the value of my_read_map before an address is registered

VARIABLES
  Program, file,
  main,          \* where the user program is
  i,             \* its loop counter
  override_count, partial_override_count, exec_count,
  my_read_map, counter_map,
  pc,            \* pc[p]: where p's read is; "user" between two reads of a file
  reg,           \* reg[p]: what its probe has loaded from counter_map
  buf,           \* buf[p]: "zero", "42" or "file", what it begins with
  ppos, ret,     \* the position of p's file, and what its read returns
  module,        \* the module procfs_read is there
  leak,          \* leak[p]: buffers that p's reads have not freed
  reads,         \* reads[p]: how many reads p has begun
  got,           \* got[p]: how often myread gave it the contents
  hits, mixed,   \* probes that have counted; two overlapped, or one came before
                 \* the count was set to 0
  seen           \* reads of the user program that were overridden and marked

counts == <<override_count, partial_override_count, exec_count>>
maps   == <<my_read_map, counter_map>>
procfs == <<ppos, ret, module, leak, got>>
ghosts == <<hits, mixed, seen>>
vars   == <<Program, file, main, i, override_count, partial_override_count,
            exec_count, my_read_map, counter_map, pc, reg, buf, ppos, ret, module,
            leak, reads, got, hits, mixed, seen>>

Init ==
  /\ Program \in Programs
  /\ file \in IF Program = "override_exec" THEN Files ELSE {"text"}
  /\ main = "off" /\ i = 0
  /\ override_count = 0 /\ partial_override_count = 0 /\ exec_count = 0
  /\ my_read_map = None /\ counter_map = 0
  /\ pc = [p \in Procs |-> "idle"] /\ reg = [p \in Procs |-> 0]
  /\ buf = [p \in Procs |-> "zero"]
  /\ ppos = [p \in Procs |-> 0] /\ ret = [p \in Procs |-> 0]
  /\ module = TRUE
  /\ leak = [p \in Procs |-> 0]
  /\ reads = [p \in Procs |-> 0]
  /\ got = [p \in Procs |-> 0]
  /\ hits = 0 /\ mixed = FALSE /\ seen = 0

\* Mutant: the kprobe outlives the user program.
AttachedForGood == main # "off"

\* The kprobe is attached as long as the user program lives.
Attached == main \notin {"off", "end"}

-----------------------------------------------------------------------------
(* bpf_copyout of override_exec, called by p's read *)

Counting(p) == pc[p] \in {"load", "store", "reload", "restore"}

\* The address is compared with the registered one.
Compare(p) ==
  /\ Program = "override_exec" /\ pc[p] = "probe"
  /\ pc' = [pc EXCEPT ![p] = IF Attached /\ my_read_map = addr[p] THEN "load" ELSE "copy"]
  /\ mixed' = (mixed \/ (pc'[p] = "load" /\ \E q \in Procs : Counting(q)))
  /\ UNCHANGED <<main, i, counts, maps, reg, buf, procfs, reads, hits, seen>>

\* *counter += 1
Load(p) ==
  /\ pc[p] = "load"
  /\ reg' = [reg EXCEPT ![p] = counter_map]
  /\ pc' = [pc EXCEPT ![p] = "store"]
  /\ UNCHANGED <<main, i, counts, maps, buf, procfs, reads, ghosts>>

\* Mutant: the probe counts twice.
StoreTwo(p) ==
  /\ pc[p] = "store"
  /\ counter_map' = reg[p] + 2
  /\ hits' = hits + 1
  /\ pc' = [pc EXCEPT ![p] = "reload"]
  /\ UNCHANGED <<main, i, counts, my_read_map, reg, buf, procfs, reads, mixed, seen>>

Store(p) ==
  /\ pc[p] = "store"
  /\ counter_map' = reg[p] + 1
  /\ hits' = hits + 1
  /\ pc' = [pc EXCEPT ![p] = "reload"]
  /\ UNCHANGED <<main, i, counts, my_read_map, reg, buf, procfs, reads, mixed, seen>>

\* Mutant: what was loaded before the increment is written back.
ReloadNothing(p) ==
  /\ pc[p] = "reload"
  /\ pc' = [pc EXCEPT ![p] = "restore"]
  /\ UNCHANGED <<main, i, counts, maps, reg, buf, procfs, reads, ghosts>>

\* bpf_map_update_elem copies the entry onto itself.
Reload(p) ==
  /\ pc[p] = "reload"
  /\ reg' = [reg EXCEPT ![p] = counter_map]
  /\ pc' = [pc EXCEPT ![p] = "restore"]
  /\ UNCHANGED <<main, i, counts, maps, buf, procfs, reads, ghosts>>

Restore(p) ==
  /\ pc[p] = "restore"
  /\ counter_map' = reg[p]
  /\ pc' = [pc EXCEPT ![p] = "mark"]
  /\ UNCHANGED <<main, i, counts, my_read_map, reg, buf, procfs, reads, ghosts>>

\* bpf_override_return and bpf_probe_write_user.  The write fails if the page is
\* not there; the copy may take place in spite of the override (report.md).
Mark(p) ==
  /\ pc[p] = "mark"
  /\ \/ /\ buf' = [buf EXCEPT ![p] = "42"]
        /\ pc' = [pc EXCEPT ![p] = "return"]
        /\ seen' = IF p = Me THEN seen + 1 ELSE seen
     \/ /\ pc' = [pc EXCEPT ![p] = "return"]
        /\ UNCHANGED <<buf, seen>>
     \/ /\ buf' = [buf EXCEPT ![p] = "42"]
        /\ pc' = [pc EXCEPT ![p] = "copy"]
        /\ UNCHANGED seen
  /\ UNCHANGED <<main, i, counts, maps, reg, procfs, reads, hits, mixed>>

\* The copy itself.
Copyout(p) ==
  /\ pc[p] = "copy"
  /\ buf' = [buf EXCEPT ![p] = "file"]
  /\ pc' = [pc EXCEPT ![p] = "return"]
  /\ UNCHANGED <<main, i, counts, maps, reg, procfs, reads, ghosts>>

-----------------------------------------------------------------------------
(* myread of procfs_read.c, and bpf_read of procfs_override *)

\* bpf_read returns what was asked for and leaves the position alone.
ReadReplaced(p) ==
  /\ Program = "procfs_override" /\ pc[p] = "probe" /\ Attached
  /\ \/ /\ buf' = [buf EXCEPT ![p] = "42"]
        /\ seen' = IF p = Me THEN seen + 1 ELSE seen
     \/ UNCHANGED <<buf, seen>>
  /\ ret' = [ret EXCEPT ![p] = 1]
  /\ pc' = [pc EXCEPT ![p] = "return"]
  /\ UNCHANGED <<main, i, counts, maps, reg, ppos, module, leak, reads, got, hits, mixed>>

\* Mutant: count <= BUFSIZE, which a read of exactly BUFSIZE satisfies.
AllocateAbove(p) ==
  /\ Program = "procfs_override" /\ pc[p] = "probe" /\ ~Attached
  /\ leak' = [leak EXCEPT ![p] = @ + 1]
  /\ IF ppos[p] > 0 \/ p \notin Full \/ p \in Once
     THEN ret' = [ret EXCEPT ![p] = 0] /\ pc' = [pc EXCEPT ![p] = "return"]
     ELSE pc' = [pc EXCEPT ![p] = "filled"] /\ UNCHANGED ret
  /\ UNCHANGED <<main, i, counts, maps, reg, buf, ppos, module, reads, got, ghosts>>

\* kmalloc, and the early return, which keeps the buffer
Allocate(p) ==
  /\ Program = "procfs_override" /\ pc[p] = "probe" /\ ~Attached
  /\ leak' = [leak EXCEPT ![p] = @ + 1]
  /\ IF ppos[p] > 0 \/ p \notin Full
     THEN ret' = [ret EXCEPT ![p] = 0] /\ pc' = [pc EXCEPT ![p] = "return"]
     ELSE pc' = [pc EXCEPT ![p] = "filled"] /\ UNCHANGED ret
  /\ UNCHANGED <<main, i, counts, maps, reg, buf, ppos, module, reads, got, ghosts>>

\* copy_to_user fails; the buffer is kept
CopyFaults(p) ==
  /\ pc[p] = "filled"
  /\ ret' = [ret EXCEPT ![p] = -1]
  /\ pc' = [pc EXCEPT ![p] = "return"]
  /\ UNCHANGED <<main, i, counts, maps, reg, buf, ppos, module, leak, reads, got, ghosts>>

\* Mutant: kfree is missing.
CopyAndKeep(p) ==
  /\ pc[p] = "filled"
  /\ buf' = [buf EXCEPT ![p] = "file"]
  /\ got' = [got EXCEPT ![p] = @ + 1]
  /\ ppos' = [ppos EXCEPT ![p] = 1]
  /\ ret' = [ret EXCEPT ![p] = 1]
  /\ pc' = [pc EXCEPT ![p] = "return"]
  /\ UNCHANGED <<main, i, counts, maps, reg, module, leak, reads, ghosts>>

CopyToUser(p) ==
  /\ pc[p] = "filled"
  /\ buf' = [buf EXCEPT ![p] = "file"]
  /\ got' = [got EXCEPT ![p] = @ + 1]
  /\ leak' = [leak EXCEPT ![p] = @ - 1]
  /\ ppos' = [ppos EXCEPT ![p] = 1]
  /\ ret' = [ret EXCEPT ![p] = 1]
  /\ pc' = [pc EXCEPT ![p] = "return"]
  /\ UNCHANGED <<main, i, counts, maps, reg, module, reads, ghosts>>

\* simple_cleanup: proc_remove waits for the reads that are under way.
Cleanup ==
  /\ Program = "procfs_override" /\ module
  /\ \A p \in Procs : pc[p] \in {"idle", "user", "done"}
  /\ module' = FALSE
  /\ UNCHANGED <<main, i, counts, maps, pc, reg, buf, ppos, ret, leak, reads, got, ghosts>>

-----------------------------------------------------------------------------
(* The reads: of a file with one page at most, or of /proc/helloworld *)

EnterRead(p) ==
  \/ /\ Program = "override_exec"
     /\ pc' = [pc EXCEPT ![p] = IF file = "empty" THEN "return" ELSE "probe"]
     /\ UNCHANGED ret
  \/ /\ Program = "procfs_override" /\ module
     /\ pc' = [pc EXCEPT ![p] = "probe"]
     /\ UNCHANGED ret
  \/ /\ Program = "procfs_override" /\ ~module   \* the file is gone
     /\ pc' = [pc EXCEPT ![p] = "return"]
     /\ ret' = [ret EXCEPT ![p] = -1]

\* A read of another process, its first or the next.
Begin(p) ==
  /\ p # Me /\ pc[p] = "idle" /\ reads[p] < MaxReads
  /\ Program = "procfs_override" => module
  /\ reads' = [reads EXCEPT ![p] = @ + 1]
  /\ EnterRead(p)
  /\ UNCHANGED <<main, i, counts, maps, reg, buf, ppos, module, leak, got, ghosts>>

Continue(p) ==
  /\ p # Me /\ pc[p] = "user"
  /\ EnterRead(p)
  /\ UNCHANGED <<main, i, counts, maps, reg, buf, ppos, module, leak, reads, got, ghosts>>

Return(p) ==
  /\ p # Me /\ pc[p] = "return"
  /\ pc' = [pc EXCEPT ![p] = IF Program = "override_exec" THEN "idle"
                             ELSE IF p \in Once \/ ret[p] <= 0 THEN "done" ELSE "user"]
  /\ UNCHANGED <<main, i, counts, maps, reg, buf, procfs, reads, ghosts>>

-----------------------------------------------------------------------------
(* main of override_exec_user.c and procfs_override_user.c *)

\* load_bpf_file
Start ==
  /\ main = "off"
  /\ main' \in {IF Program = "override_exec" THEN "zero" ELSE "open", "end"}
  /\ UNCHANGED <<i, counts, maps, pc, reg, buf, procfs, reads, ghosts>>

ZeroCounter ==
  /\ main = "zero"
  /\ counter_map' = 0
  /\ mixed' = (mixed \/ hits > 0 \/ \E q \in Procs : Counting(q))
  /\ main' = "register"
  /\ UNCHANGED <<i, counts, my_read_map, pc, reg, buf, procfs, reads, hits, seen>>

Register ==
  /\ main = "register"
  /\ my_read_map' = addr[Me]
  /\ main' = "open"
  /\ UNCHANGED <<i, counts, counter_map, pc, reg, buf, procfs, reads, ghosts>>

Open ==
  /\ main = "open" /\ i < ITERATIONS
  /\ main' \in IF module THEN {"read", "end"} ELSE {"end"}
  /\ ppos' = [ppos EXCEPT ![Me] = 0]
  /\ UNCHANGED <<i, counts, maps, pc, reg, buf, ret, module, leak, got, reads, ghosts>>

\* Mutant: the buffer is not cleared.
ReadUncleared ==
  /\ main = "read" /\ pc[Me] = "idle"
  /\ EnterRead(Me)
  /\ UNCHANGED <<main, i, counts, maps, reg, buf, ppos, module, leak, got, reads, ghosts>>

\* memset and read
Read ==
  /\ main = "read" /\ pc[Me] = "idle"
  /\ buf' = [buf EXCEPT ![Me] = "zero"]
  /\ EnterRead(Me)
  /\ UNCHANGED <<main, i, counts, maps, reg, ppos, module, leak, got, reads, ghosts>>

Begins42 == buf[Me] = "42" \/ (buf[Me] = "file" /\ file \in {"42x", "42a"})
Partial  == Program = "override_exec" /\ buf[Me] = "file" /\ file = "42a"

\* The comparison with "42", close, and the second memset, which the next
\* memset makes invisible.
Classify ==
  /\ main = "read" /\ pc[Me] = "return"
  /\ pc' = [pc EXCEPT ![Me] = "idle"]
  /\ \/ /\ Begins42 /\ Partial
        /\ partial_override_count' = partial_override_count + 1
        /\ UNCHANGED <<override_count, exec_count>>
     \/ /\ Begins42 /\ ~Partial
        /\ override_count' = override_count + 1
        /\ UNCHANGED <<partial_override_count, exec_count>>
     \/ /\ ~Begins42
        /\ exec_count' = exec_count + 1
        /\ UNCHANGED <<override_count, partial_override_count>>
  /\ i' = i + 1
  /\ main' = "open"
  /\ UNCHANGED <<maps, reg, buf, procfs, reads, ghosts>>

\* The counts are printed; readsize * 2 exceeds MAX_READ, so the loop is left (and
\* the counts, set to 0, are not used again).  override_exec looks up counter_map
\* and prints it.
Report ==
  /\ main = "open" /\ i = ITERATIONS
  /\ main' = "end"
  /\ UNCHANGED <<i, counts, maps, pc, reg, buf, procfs, reads, ghosts>>

\* A signal ends the program, and with it the kprobe.
Killed ==
  /\ Attached /\ pc[Me] = "idle"
  /\ main' = "end"
  /\ UNCHANGED <<i, counts, maps, pc, reg, buf, procfs, reads, ghosts>>

-----------------------------------------------------------------------------
Kernel(p) == \/ Compare(p) \/ Load(p) \/ Store(p) \/ Reload(p) \/ Restore(p) \/ Mark(p)
             \/ Copyout(p) \/ ReadReplaced(p) \/ Allocate(p) \/ CopyToUser(p)

Main == ZeroCounter \/ Register \/ Open \/ Read \/ Classify \/ Report

Next == /\ \/ Start \/ Main \/ Killed \/ Cleanup
           \/ \E p \in Procs : Kernel(p) \/ CopyFaults(p) \/ Begin(p) \/ Continue(p) \/ Return(p)
        /\ UNCHANGED <<Program, file>>

Spec == Init /\ [][Next]_vars

\* Calls of the kernel run to their end, the user program goes on, and a process
\* that reads a file to its end goes on reading.
FairSpec == /\ Spec
            /\ WF_vars(Main /\ UNCHANGED <<Program, file>>)
            /\ \A p \in Procs : WF_vars((Kernel(p) \/ Continue(p) \/ Return(p))
                                          /\ UNCHANGED <<Program, file>>)

-----------------------------------------------------------------------------
(* Properties *)

\* The counts of the user program add up to its iterations, and positions, return
\* values and buffers are those that the reads can leave.
TypeOK ==
  /\ Program \in Programs /\ file \in Files \cup {"text"}
  /\ main \in {"off", "zero", "register", "open", "read", "end"}
  /\ i \in 0..ITERATIONS
  /\ {override_count, partial_override_count, exec_count, counter_map} \subseteq Nat
  /\ override_count + partial_override_count + exec_count = i
  /\ my_read_map \in {None, addr[Me]}
  /\ pc \in [Procs -> {"idle", "user", "probe", "load", "store", "reload", "restore",
                       "mark", "copy", "filled", "return", "done"}]
  /\ reg \in [Procs -> Nat]
  /\ buf \in [Procs -> {"zero", "42", "file"}]
  /\ ppos \in [Procs -> 0..1] /\ ret \in [Procs -> -1..1] /\ module \in BOOLEAN
  /\ leak \in [Procs -> Nat] /\ reads \in [Procs -> 0..MaxReads] /\ got \in [Procs -> Nat]
  /\ hits \in Nat /\ mixed \in BOOLEAN /\ seen \in Nat

\* "success" counts the reads that were replaced and marked, unless the file itself
\* begins with 42: nothing of an earlier read and nothing of another process's.
SuccessIsOverride ==
  main = "open" /\ file \in {"empty", "text"} => override_count = seen

\* "kprobe executed N times" is the number of executions if no two overlapped
\* and none came before the count was set to 0.
CountIsExact ==
  ~mixed /\ (\A p \in Procs : ~Counting(p)) => counter_map = hits

T == INSTANCE Tally WITH Keys <- {"copyout"}, kind <- "rewritten",
                         hits <- [k \in {"copyout"} |-> hits],
                         value <- [k \in {"copyout"} |-> counter_map]

\* Overlapping or not, counter_map is the count at some execution, and never
\* exceeds the number of executions.
ImplementsTally == T!TallySpec

\* A reader of /proc/helloworld that asks for at least BUFSIZE and is told that
\* the file has ended has been given the contents, once, however its reads
\* were replaced in between.
EndAfterContents ==
  \A p \in Full : Program = "procfs_override" /\ pc[p] = "done" /\ ret[p] = 0 => got[p] = 1

\* A reader costs the kernel at most one buffer, and the experiment's own reads,
\* which would cost one each, none.
LeaksBounded == leak[Me] = 0 /\ \A p \in Procs : leak[p] <= 1

\* The experiment ends, and a reader of /proc/helloworld comes to the end of the
\* file, although no read that is replaced moves it on.
AllEnd == /\ main # "off" ~> main = "end"
          /\ \A p \in Procs \ {Me} : pc[p] = "user" ~> pc[p] = "done"
=============================================================================
