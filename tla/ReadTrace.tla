----------------------------- MODULE ReadTrace -----------------------------
(***************************************************************************)
(* Three experiments that trace read through maps.  The user program puts  *)
(* a descriptor or its process id into my_map and reads one byte; probes   *)
(* on the entry and the exit of every read of every process hand on        *)
(*   passfd     the descriptor itself, in my_read_map;                     *)
(*   readbuff   the address of the buffer, in my_read_map, and a           *)
(*              character, in my_char_map;                                 *)
(*   buffermap  the character only, the user program gives the address.    *)
(* The probes of different processes run at the same time.                 *)
(***************************************************************************)
EXTENDS Integers, FiniteSets

CONSTANTS
  Programs, \* which of the three are run, one at a time
  Procs,    \* the processes, by their ids
  Owner,    \* the one that runs the user program
  Fd,       \* Fd[p]: the descriptor p reads from
  Buf,      \* Buf[p]: the address p reads into
  Data,     \* Data[p]: the byte it reads
  Garbage   \* what malloc may leave in a buffer

ASSUME TraceAssumption ==
  /\ Programs \subseteq {"passfd", "readbuff", "buffermap"}
  /\ Owner \in Procs /\ Procs \subseteq Nat \ {0}
  /\ {Fd, Buf} \subseteq [Procs -> Nat]
  /\ Data \in [Procs -> 0..255] /\ Garbage \subseteq 0..255
  /\ Fd[Owner] # 0 /\ Buf[Owner] # 0

VARIABLES
  Program,      \* the experiment, which stays
  main,         \* where the user program is
  my_map, my_read_map, my_char_map,
  pc,           \* pc[p]: where p's read is
  val,          \* val[p]: what a running probe holds in a local
  ubuf,         \* ubuf[p]: the first byte of p's buffer
  buffaddr,     \* what the user program looked up in my_read_map
  charval,      \* and as a character
  early         \* the probes that read my_map before it was set

out  == <<buffaddr, charval>>
vars == <<Program, main, my_map, my_read_map, my_char_map, pc, val, ubuf,
          buffaddr, charval, early>>

Init ==
  /\ Program \in Programs
  /\ main = "start"
  /\ my_map = 0 /\ my_read_map = 0 /\ my_char_map = 0
  /\ pc = [p \in Procs |-> "user"]
  /\ val = [p \in Procs |-> 0]
  /\ ubuf \in [Procs -> Garbage]
  /\ buffaddr = 0 /\ charval = 0
  /\ early = {}

\* The probes are there from the load until the user program ends.
Attached == main \notin {"start", "exited"}

-----------------------------------------------------------------------------
(* The user program *)

Load ==
  /\ main = "start"
  /\ main' = "loaded"
  /\ UNCHANGED <<my_map, my_read_map, my_char_map, pc, val, ubuf, out, early>>

\* open, or an update of a map, fails
Fail ==
  /\ main \in {"loaded", "pid"}
  /\ main' = "exited"
  /\ UNCHANGED <<my_map, my_read_map, my_char_map, pc, val, ubuf, out, early>>

RegisterFd ==
  /\ main = "loaded" /\ Program # "buffermap"
  /\ my_map' = Fd[Owner]
  /\ early' = {p \in Procs : pc[p] = "store"}
  /\ main' = "registered"
  /\ UNCHANGED <<my_read_map, my_char_map, pc, val, ubuf, out>>

RegisterPid ==
  /\ main = "loaded" /\ Program = "buffermap"
  /\ my_map' = Owner
  /\ main' = "pid"
  /\ UNCHANGED <<my_read_map, my_char_map, pc, val, ubuf, out, early>>

RegisterBuffer ==
  /\ main = "pid"
  /\ my_read_map' = Buf[Owner]
  /\ main' = "registered"
  /\ UNCHANGED <<my_map, my_char_map, pc, val, ubuf, out, early>>

Returned == main = "reading" /\ pc[Owner] = "user"

LookupRead ==
  /\ Returned /\ Program # "buffermap"
  /\ buffaddr' = my_read_map
  /\ main' = IF Program = "passfd" THEN "printed" ELSE "looked"
  /\ UNCHANGED <<my_map, my_read_map, my_char_map, pc, val, ubuf, charval, early>>

\* map_fd[2] is the third map of the file: my_char_map in readbuff, but
\* my_buffer_map, which nobody writes, in buffermap.
ThirdMap == IF Program = "readbuff" THEN my_char_map ELSE 0

LookupChar ==
  /\ IF Program = "buffermap" THEN Returned ELSE main = "looked"
  /\ charval' = ThirdMap
  /\ main' = "printed"
  /\ UNCHANGED <<my_map, my_read_map, my_char_map, pc, val, ubuf, buffaddr, early>>

Exit ==
  /\ main = "printed"
  /\ main' = "exited"
  /\ UNCHANGED <<my_map, my_read_map, my_char_map, pc, val, ubuf, out, early>>

-----------------------------------------------------------------------------
(* read, of any process *)

EnterRead(p) ==
  /\ pc[p] = "user"
  /\ \/ p # Owner /\ UNCHANGED main
     \/ p = Owner /\ main = "registered" /\ main' = "reading"
  /\ pc' = [pc EXCEPT ![p] = "entry"]
  /\ UNCHANGED <<my_map, my_read_map, my_char_map, val, ubuf, out, early>>

Go(p, where, v) ==
  /\ pc' = [pc EXCEPT ![p] = where]
  /\ val' = [val EXCEPT ![p] = v]

PassedFd == my_map

\* Mutant: every descriptor is the targeted one.
AnyFd(p) == TRUE

TargetedFd(p) == my_map = Fd[p]

\* The probe on the entry, up to its update of my_read_map; buffermap's only
\* traces.
EntryProbe(p) ==
  /\ pc[p] = "entry"
  /\ CASE Attached /\ Program = "passfd" -> Go(p, "store", PassedFd)
       [] Attached /\ Program = "readbuff" /\ TargetedFd(p) ->
            Go(p, "store", Buf[p])
       [] OTHER -> Go(p, "kernel", 0)
  /\ UNCHANGED <<main, my_map, my_read_map, my_char_map, ubuf, out, early>>

Store(p) ==
  /\ pc[p] = "store"
  /\ my_read_map' = val[p]
  /\ Go(p, "kernel", 0)
  /\ UNCHANGED <<main, my_map, my_char_map, ubuf, out, early>>

\* The byte is copied, unless the file is at its end.
Kernel(p) ==
  /\ pc[p] = "kernel"
  /\ \/ ubuf' = [ubuf EXCEPT ![p] = Data[p]]
     \/ UNCHANGED ubuf
  /\ Go(p, "exit", 0)
  /\ UNCHANGED <<main, my_map, my_read_map, my_char_map, out, early>>

\* The character at the address of a map's value: the value's lowest byte.
FirstByte(address) == address % 256

\* Mutant: the process is not compared.
AnyPid(p) == TRUE

TargetedPid(p) == my_map = p

\* The probe on the exit.  readbuff takes the first byte of what it finds in
\* my_read_map.  buffermap deletes the id from my_map, which an array map
\* refuses, and goes on to the buffer.
ExitProbe(p) ==
  /\ pc[p] = "exit"
  /\ CASE Attached /\ Program = "readbuff" -> Go(p, "put", FirstByte(my_read_map))
       [] Attached /\ Program = "buffermap" /\ TargetedPid(p) -> Go(p, "find", 0)
       [] OTHER -> Go(p, "user", 0)
  /\ UNCHANGED <<main, my_map, my_read_map, my_char_map, ubuf, out, early>>

\* bpf_probe_read through the address in my_read_map, in p's memory; it fails
\* where p has nothing there.
Find(p) ==
  /\ pc[p] = "find"
  /\ IF my_read_map = Buf[p] THEN Go(p, "put", ubuf[p]) ELSE Go(p, "user", 0)
  /\ UNCHANGED <<main, my_map, my_read_map, my_char_map, ubuf, out, early>>

Put(p) ==
  /\ pc[p] = "put"
  /\ my_char_map' = val[p]
  /\ Go(p, "user", 0)
  /\ UNCHANGED <<main, my_map, my_read_map, ubuf, out, early>>

-----------------------------------------------------------------------------
Main == \/ Load \/ Fail \/ RegisterFd \/ RegisterPid \/ RegisterBuffer
        \/ LookupRead \/ LookupChar \/ Exit

Read(p) == \/ EnterRead(p) \/ EntryProbe(p) \/ Store(p) \/ Kernel(p)
           \/ ExitProbe(p) \/ Find(p) \/ Put(p)

Next == /\ Main \/ \E p \in Procs : Read(p)
        /\ UNCHANGED Program

Spec == Init /\ [][Next]_vars

-----------------------------------------------------------------------------
(* Properties *)

Bytes == 0..255
Addresses == {0} \cup {Buf[p] : p \in Procs}
Fds == {0} \cup {Fd[p] : p \in Procs}

\* my_read_map and my_char_map hold what their definitions have room for: a
\* descriptor or an address, and a character.
TypeOK ==
  /\ Program \in Programs
  /\ main \in {"start", "loaded", "pid", "registered", "reading", "looked",
               "printed", "exited"}
  /\ my_map \in Fds \cup Procs
  /\ my_read_map \in (IF Program = "passfd" THEN Fds ELSE Addresses)
  /\ my_char_map \in Bytes
  /\ pc \in [Procs -> {"user", "entry", "store", "kernel", "exit", "find", "put"}]
  /\ val \in [Procs -> Bytes \cup Addresses \cup Fds]
  /\ ubuf \in [Procs -> Bytes]
  /\ buffaddr \in Addresses \cup Fds /\ charval \in Bytes
  /\ early \subseteq Procs

UnsharedFd == \A p \in Procs \ {Owner} : Fd[p] # Fd[Owner]

\* What attach_read hands over to the user program is the descriptor the user
\* program passed, or the address of its own buffer, although the probe runs
\* for every read there is: unless a probe had looked at my_map before it was
\* set, and provided no other process uses the same descriptor number.
HandOver ==
  main \in {"looked", "printed"} /\ Program # "buffermap" /\ early = {} /\ UnsharedFd
    => buffaddr = IF Program = "passfd" THEN Fd[Owner] ELSE Buf[Owner]

\* When the user program's read has returned, buffermap's my_char_map has the
\* first byte of its buffer, and no read of another process, even one into the
\* same address, changes that.
CharIsMine ==
  Program = "buffermap" /\ (Returned \/ main = "printed")
    => my_char_map = ubuf[Owner]

\* "return 1 char to userland through the map, as read from the buffer upon
\* return from the read syscall": the user program looks up that character.
CharReachesTheUser == main = "printed" => charval = ubuf[Owner]
=============================================================================
