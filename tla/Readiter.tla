------------------------------ MODULE Readiter ------------------------------
(***************************************************************************)
(* The offloaded read (readiter_kern.c, readiter_user.c).  The owner loads *)
(* a kprobe on copyout_bpf, stores the address of its buffer in            *)
(* my_read_map, reads a file, and takes the average of the numbers in the  *)
(* file from result_map.  The probe runs for every read of every process:  *)
(* it recognises the owner's by the destination address alone, makes       *)
(* copyout return before it copies, reduces the page and leaves "42\n" in  *)
(* the buffer.  Processes run on their own CPUs, so the steps of two       *)
(* probes, of the owner's main and of other readers interleave.            *)
(***************************************************************************)
EXTENDS Strtoul

CONSTANTS
  Procs,      \* the processes that read files
  Owner,      \* the one that runs readiter_user
  Buf,        \* Buf[p]: the virtual address process p reads into
  UBUFFSIZE,  \* bytes of a page the probe reduces (4096 in the code)
  Pages       \* the page-cache pages that are read

Null == 0     \* the address an array map holds before it is written

ParsesAt(pg, k) == Parses(pg[3 * k], pg[3 * k + 1])
NumberAt(pg, k) == Number(pg[3 * k], pg[3 * k + 1])

\* The number of times the loop over i = 0, 3, 6, ... < UBUFFSIZE - 3 runs.
Elems == (UBUFFSIZE - 1) \div 3

ASSUME OwnerAssumption  == Owner \in Procs
ASSUME BufAssumption    == Buf \in [Procs -> Nat] /\ Buf[Owner] # Null
ASSUME SizeAssumption   == UBUFFSIZE \in Nat /\ UBUFFSIZE > 3
ASSUME PagesAssumption  == Pages \subseteq [0..(UBUFFSIZE - 1) -> Byte]

\* PrefixSum(pg)[k]: the sum of the first k numbers of pg.
PrefixSum(pg) ==
  LET S[k \in 0..Elems] == IF k = 0 THEN 0 ELSE S[k - 1] + NumberAt(pg, k - 1)
  IN  S

\* What the program is for: the average of the numbers in a page.
AllParse(pg) == \A k \in 0..(Elems - 1) : ParsesAt(pg, k)
Mean(pg)     == PrefixSum(pg)[Elems] \div Elems

VARIABLES
  main,         \* where readiter_user's main is
  attached,     \* the kprobe is live
  my_read_map,  \* the registered address
  result_map,   \* the published average
  avg,          \* main's local copy of it
  pc,           \* pc[p]: where p's read system call is
  page,         \* page[p]: the page p's copyout call is to copy from
  ubuf,         \* ubuf[p]: what p's buffer holds since its last read began
  ret,          \* ret[p]: what the last read returned
  loop          \* loop[p]: the locals of the probe that runs for p

userVars  == <<main, attached, my_read_map, avg>>
vars == <<main, attached, my_read_map, result_map, avg,
          pc, page, ubuf, ret, loop>>

\* The locals as bpf_copyout initialises them.
Fresh == [i |-> 0, sum |-> 0, elems |-> 0]

Init ==
  /\ main = "start"
  /\ attached = FALSE
  /\ my_read_map = Null
  /\ result_map = 0
  /\ avg = 0
  /\ pc = [p \in Procs |-> "user"]
  /\ page \in [Procs -> Pages]
  /\ ubuf = [p \in Procs |-> "stale"]
  /\ ret = [p \in Procs |-> "none"]
  /\ loop = [p \in Procs |-> Fresh]

-----------------------------------------------------------------------------
(* readiter_user.c: main *)

\* load_bpf_file succeeds: the maps exist and the probe on copyout is live.
Load ==
  /\ main = "start"
  /\ main' = "loaded"
  /\ attached' = TRUE
  /\ UNCHANGED <<my_read_map, result_map, avg, pc, page, ubuf, ret, loop>>

\* The file is open and the address of the malloc'ed buffer goes in the map.
Register ==
  /\ main = "loaded"
  /\ main' = "registered"
  /\ my_read_map' = Buf[Owner]
  /\ UNCHANGED <<attached, result_map, avg, pc, page, ubuf, ret, loop>>

\* Loading, opening the file or the map update fails: main returns or exits,
\* and the kernel detaches the probe with the process's descriptors.
Fail ==
  /\ main \in {"start", "loaded"}
  /\ main' = "exited"
  /\ attached' = FALSE
  /\ UNCHANGED <<my_read_map, result_map, avg, pc, page, ubuf, ret, loop>>

\* main looks the average up and prints it, whatever the read returned.
Lookup ==
  /\ main = "reading"
  /\ pc[Owner] = "user"
  /\ main' = "printed"
  /\ avg' = result_map
  /\ UNCHANGED <<attached, my_read_map, result_map, pc, page, ubuf, ret, loop>>

Exit ==
  /\ main = "printed"
  /\ main' = "exited"
  /\ attached' = FALSE
  /\ UNCHANGED <<my_read_map, result_map, avg, pc, page, ubuf, ret, loop>>

\* The owner reads once, after it has registered; the others at any time.
MayRead(p) ==
  /\ pc[p] = "user"
  /\ p = Owner => main = "registered"

EnterRead(p) == main' = IF p = Owner THEN "reading" ELSE main

\* read(fd, buf, n) reaches copyout with a page of the file.
Read(p) ==
  /\ MayRead(p)
  /\ EnterRead(p)
  /\ \E pg \in Pages : page' = [page EXCEPT ![p] = pg]
  /\ pc' = [pc EXCEPT ![p] = "copyout"]
  /\ ubuf' = [ubuf EXCEPT ![p] = "stale"]
  /\ ret' = [ret EXCEPT ![p] = "none"]
  /\ UNCHANGED <<attached, my_read_map, result_map, avg, loop>>

\* read finds nothing to copy (an empty file): copyout is not called.
ReadNothing(p) ==
  /\ MayRead(p)
  /\ EnterRead(p)
  /\ ubuf' = [ubuf EXCEPT ![p] = "stale"]
  /\ ret' = [ret EXCEPT ![p] = "eof"]
  /\ UNCHANGED <<attached, my_read_map, result_map, avg, pc, page, loop>>

-----------------------------------------------------------------------------
(* readiter_kern.c: bpf_copyout, the kprobe on copyout_bpf *)

\* Mutant: the probe takes every call over once an address is registered.
MatchesAny(p) == my_read_map # Null

\* to == *val: the probe takes the call over when the address matches.
Matches(p) == my_read_map = Buf[p]

\* The probe returns at once, or there is none: the native copy runs.
PassBy(p) ==
  /\ pc[p] = "copyout"
  /\ attached => ~Matches(p)
  /\ pc' = [pc EXCEPT ![p] = "native"]
  /\ UNCHANGED <<userVars, result_map, page, ubuf, ret, loop>>

\* bpf_override_return comes first, before anything has been reduced.
Override(p) ==
  /\ pc[p] = "copyout"
  /\ attached
  /\ Matches(p)
  /\ pc' = [pc EXCEPT ![p] = "loop"]
  /\ loop' = [loop EXCEPT ![p] = Fresh]
  /\ UNCHANGED <<userVars, result_map, page, ubuf, ret>>

\* Mutant: the loop stops one number early.
InLoopShort(p) == pc[p] = "loop" /\ loop[p].i < UBUFFSIZE - 6

InLoop(p) == pc[p] = "loop" /\ loop[p].i < UBUFFSIZE - 3

\* Mutant: the result of bpf_strtoul is not checked.
IterateUnchecked(p) ==
  /\ InLoop(p)
  /\ loop' = [loop EXCEPT ![p] =
                [i     |-> loop[p].i + 3,
                 sum   |-> loop[p].sum + Number(page[p][loop[p].i],
                                                page[p][loop[p].i + 1]),
                 elems |-> loop[p].elems + 1]]
  /\ UNCHANGED <<userVars, result_map, pc, page, ubuf, ret>>

\* One turn of the loop on bytes i, i + 1 of the page; the bound is the size
\* of a page, not the length of the read.
Iterate(p) ==
  LET a == page[p][loop[p].i]
      b == page[p][loop[p].i + 1]
  IN  /\ InLoop(p)
      /\ Parses(a, b)
      /\ loop' = [loop EXCEPT ![p] =
                    [i     |-> loop[p].i + 3,
                     sum   |-> loop[p].sum + Number(a, b),
                     elems |-> loop[p].elems + 1]]
      /\ UNCHANGED <<userVars, result_map, pc, page, ubuf, ret>>

\* res < 0: return 1.  Nothing is published, and the override stands.
GiveUp(p) ==
  /\ InLoop(p)
  /\ ~Parses(page[p][loop[p].i], page[p][loop[p].i + 1])
  /\ pc' = [pc EXCEPT ![p] = "leave"]
  /\ UNCHANGED <<userVars, result_map, page, ubuf, ret, loop>>

\* Mutant: the average is computed but result_map is not updated.
PublishNothing(p) ==
  /\ pc[p] = "loop"
  /\ ~InLoop(p)
  /\ pc' = [pc EXCEPT ![p] = "mark"]
  /\ UNCHANGED <<userVars, result_map, page, ubuf, ret, loop>>

\* result_map takes sum / elems.
Publish(p) ==
  /\ pc[p] = "loop"
  /\ ~InLoop(p)
  /\ result_map' = loop[p].sum \div loop[p].elems
  /\ pc' = [pc EXCEPT ![p] = "mark"]
  /\ UNCHANGED <<userVars, page, ubuf, ret, loop>>

\* bpf_probe_write_user of "42\n".  It may fail, for the address is not
\* mapped or not present, and its result is not looked at.
Mark(p) ==
  /\ pc[p] = "mark"
  /\ \/ Buf[p] # Null /\ ubuf' = [ubuf EXCEPT ![p] = "42"]
     \/ UNCHANGED ubuf
  /\ pc' = [pc EXCEPT ![p] = "leave"]
  /\ UNCHANGED <<userVars, result_map, page, ret, loop>>

-----------------------------------------------------------------------------
(* The kernel's side of copyout_bpf *)

\* Mutant: copyout is made to return the length, so its caller, which loops
\* until nothing is left to copy, calls it again.
OverriddenWithLength(p) ==
  /\ pc[p] = "leave"
  /\ pc' = [pc EXCEPT ![p] = "copyout"]
  /\ UNCHANGED <<userVars, result_map, page, ubuf, ret, loop>>

\* The override takes effect: copyout returns 0, nothing left to copy, and
\* the read reports the full count.
Overridden(p) ==
  /\ pc[p] = "leave"
  /\ pc' = [pc EXCEPT ![p] = "user"]
  /\ ret' = [ret EXCEPT ![p] = "full"]
  /\ UNCHANGED <<userVars, result_map, page, ubuf, loop>>

\* report.md: "sometimes the copyout code, so the buffer copy, is executed
\* anyway".  The copy then follows the probe.
OverrideLost(p) ==
  /\ pc[p] = "leave"
  /\ pc' = [pc EXCEPT ![p] = "native"]
  /\ UNCHANGED <<userVars, result_map, page, ubuf, ret, loop>>

\* The native copyout; a copy to an unmapped address leaves every byte.
NativeCopy(p) ==
  /\ pc[p] = "native"
  /\ pc' = [pc EXCEPT ![p] = "user"]
  /\ ubuf' = [ubuf EXCEPT ![p] = IF Buf[p] = Null THEN "stale" ELSE "data"]
  /\ ret' = [ret EXCEPT ![p] = IF Buf[p] = Null THEN "efault" ELSE "full"]
  /\ UNCHANGED <<userVars, result_map, page, loop>>

-----------------------------------------------------------------------------
Main == Load \/ Register \/ Fail \/ Lookup \/ Exit

Kernel(p) ==
  \/ PassBy(p) \/ Override(p)
  \/ Iterate(p) \/ GiveUp(p) \/ Publish(p) \/ Mark(p)
  \/ Overridden(p) \/ OverrideLost(p) \/ NativeCopy(p)

Next ==
  \/ Main
  \/ \E p \in Procs : Read(p) \/ ReadNothing(p) \/ Kernel(p)

Spec == Init /\ [][Next]_vars

\* A system call that has been entered keeps running, and so does main once
\* its read has returned; nobody has to start a read.
FairSpec ==
  /\ Spec
  /\ \A p \in Procs : WF_vars(Kernel(p))
  /\ WF_vars(Lookup \/ Exit)

-----------------------------------------------------------------------------
(* Properties *)

\* The loop of bpf_copyout has natural numbers for its position, its sum and its
\* count, and a read ends in one of the ways the kernel knows.
TypeOK ==
  /\ main \in {"start", "loaded", "registered", "reading", "printed", "exited"}
  /\ attached \in BOOLEAN
  /\ my_read_map \in Nat
  /\ result_map \in Nat
  /\ avg \in Nat
  /\ pc \in [Procs -> {"user", "copyout", "loop", "mark", "leave", "native"}]
  /\ page \in [Procs -> Pages]
  /\ ubuf \in [Procs -> {"stale", "42", "data"}]
  /\ ret \in [Procs -> {"none", "full", "eof", "efault"}]
  /\ loop \in [Procs -> [i : Nat, sum : Nat, elems : Nat]]

\* Nobody else reads into the owner's address, nor into the address 0 that
\* my_read_map holds until the owner has registered.
Unshared == \A q \in Procs \ {Owner} : Buf[q] \notin {Null, Buf[Owner]}

\* The filter of bpf_copyout: a read into an address that is never in
\* my_read_map and that reports its full count has delivered the file's
\* bytes, whatever the probe does to other reads meanwhile.
ForeignReadsIntact ==
  \A p \in Procs :
    (/\ Buf[p] \notin {Null, Buf[Owner]}
     /\ pc[p] = "user"
     /\ ret[p] = "full") => ubuf[p] = "data"

\* result_map never holds a partial result: it is 0, as created, or the
\* average of all the numbers of a page that parses to its end.  This is so
\* even when the probes of several processes publish at the same time.
ResultIsAMean ==
  result_map = 0 \/ \E pg \in Pages : AllParse(pg) /\ result_map = Mean(pg)

\* If main finds "42" in its buffer, the average it prints is that of the
\* page it read.  It needs Unshared: the probe compares addresses only.
AnswerIsMine ==
  (Unshared /\ main = "printed" /\ ubuf[Owner] = "42") =>
    AllParse(page[Owner]) /\ avg = Mean(page[Owner])

\* A read that reports its full count and whose page parses has not been
\* lost: the bytes are in the buffer or the average has been printed.
NoSilentLoss ==
  (/\ Unshared
   /\ main = "printed"
   /\ ret[Owner] = "full"
   /\ AllParse(page[Owner])) => \/ ubuf[Owner] = "data"
                                \/ avg = Mean(page[Owner])

\* The comment on result_map, "used to pass the average back to the user",
\* with no proviso on what other processes read: where the buffer says the
\* read was offloaded, the average printed is that of the owner's page.
AverageGoesBackToTheUser ==
  (main = "printed" /\ ubuf[Owner] = "42") => avg = Mean(page[Owner])

\* Every read that reached copyout returns, overridden or not: the loop over
\* the page ends and copyout is not called again for the same bytes.
ReadsReturn == \A p \in Procs : pc[p] = "copyout" ~> pc[p] = "user"
=============================================================================
