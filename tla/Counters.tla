----------------------------- MODULE Counters -----------------------------
(***************************************************************************)
(* Three programs that count events in a map while their user program      *)
(* reads it:                                                               *)
(*   open_tp   entries into open and returns from it, in two array maps;   *)
(*             the user program opens a file and expects both to be above  *)
(*             0, then sets them to 0;                                     *)
(*   sampleip  samples of the instruction pointer, in a hash map of        *)
(*             MAX_IPS entries that the user program prints in the end;    *)
(*   sock      outgoing packets by protocol, in an array map that the      *)
(*             user program prints again and again.                        *)
(* The first two add with a load and a store, sock with an atomic          *)
(* operation.  Handlers run on all CPUs at once, one on each.              *)
(***************************************************************************)
EXTENDS Integers, Sequences, FiniteSets

CONSTANTS
  Programs,  \* which of the three are run, one at a time
  Cpus,
  Me,        \* the CPU on which open_tp's user program opens its file
  Ips,       \* the addresses that are sampled, in the order of the hash
  MAX_IPS,
  Rounds,    \* how often sock prints, 5 in the code
  MaxHits    \* bound: the events of a key that other processes cause

Syscalls  == <<"enter", "exit">>
Protocols == <<"tcp", "udp", "icmp">>
Set(s)    == {s[i] : i \in DOMAIN s}
Keys      == Set(Syscalls) \cup Set(Protocols) \cup Set(Ips)

ASSUME CountersAssumption ==
  /\ Programs \subseteq {"open_tp", "sampleip", "sock"}
  /\ Me \in Cpus
  /\ Ips \in Seq(STRING)
  /\ {MAX_IPS, Rounds, MaxHits} \subseteq Nat

VARIABLES
  Program,   \* the program, which stays
  map,       \* map[k]: the count of k
  present,   \* the keys that have an entry; all of them in an array map
  armed,     \* the CPUs whose events run the handler
  at,        \* at[c]: where the handler on CPU c is
  key, reg,  \* its key, and the count it has loaded
  main,      \* where the user program is
  n,         \* the number of the map, entry or line it is at
  report,    \* report[k]: what it has read last
  complained,\* it has printed "returns value 0"
  warned,    \* it has printed "IP hash was full"
  signals,   \* how many signals it has received
  hits,      \* how many handlers for k have finished
  mixed,     \* keys with two accesses at once, or set to 0
  dropped    \* keys that found the hash map full

ghosts  == <<hits, mixed, dropped>>
cpu     == <<at, key, reg>>
verdict == <<complained, warned>>
vars    == <<Program, map, present, armed, at, key, reg, main, n, report,
             complained, warned, signals, hits, mixed, dropped>>

Init ==
  /\ Program \in Programs
  /\ map = [k \in Keys |-> 0]
  /\ present = IF Program = "sampleip" THEN {} ELSE Keys
  /\ armed = IF Program = "sampleip" THEN {} ELSE Cpus
  /\ at = [c \in Cpus |-> "idle"]
  /\ key = [c \in Cpus |-> "enter"]
  /\ reg = [c \in Cpus |-> 0]
  /\ main = CASE Program = "open_tp" -> "open"
              [] Program = "sampleip" -> "arm"
              [] OTHER -> "print"
  /\ n = 1
  /\ report = [k \in Keys |-> 0]
  /\ complained = FALSE /\ warned = FALSE
  /\ signals = 0
  /\ hits = [k \in Keys |-> 0]
  /\ mixed = {} /\ dropped = {}

-----------------------------------------------------------------------------
(* The handlers: count() of open_tp, do_sample, bpf_prog1 of sock *)

Busy(c, k) == at[c] # "idle" /\ key[c] = k

\* The handler for k starts on c and looks k up.
Lookup(c, k) ==
  /\ at[c] = "idle"
  /\ at' = [at EXCEPT ![c] = IF k \in present THEN "load" ELSE "insert"]
  /\ key' = [key EXCEPT ![c] = k]
  /\ mixed' = IF \E d \in Cpus : Busy(d, k) THEN mixed \cup {k} ELSE mixed
  /\ UNCHANGED reg

\* An event that some other process causes.
Event(c, k) ==
  /\ c \in armed
  /\ hits[k] < MaxHits
  /\ \/ Program = "open_tp" /\ k \in Set(Syscalls)
     \/ Program = "sampleip" /\ k \in Set(Ips)
  /\ Lookup(c, k)
  /\ UNCHANGED <<map, present, armed, main, n, report, verdict, signals, hits,
                 dropped>>

\* The two halves of *value += 1.
Load(c) ==
  /\ at[c] = "load"
  /\ reg' = [reg EXCEPT ![c] = map[key[c]]]
  /\ at' = [at EXCEPT ![c] = "store"]
  /\ UNCHANGED <<map, present, armed, key, main, n, report, verdict, signals,
                 ghosts>>

Finish(c) ==
  /\ at' = [at EXCEPT ![c] = "idle"]
  /\ hits' = [hits EXCEPT ![key[c]] = @ + 1]
  /\ UNCHANGED <<key, reg>>

\* Mutant: the count is stored back as it was loaded.
StoreBack(c) ==
  /\ at[c] = "store"
  /\ map' = [map EXCEPT ![key[c]] = reg[c]]
  /\ Finish(c)
  /\ UNCHANGED <<present, armed, main, n, report, verdict, signals, mixed,
                 dropped>>

Store(c) ==
  /\ at[c] = "store"
  /\ map' = [map EXCEPT ![key[c]] = reg[c] + 1]
  /\ Finish(c)
  /\ UNCHANGED <<present, armed, main, n, report, verdict, signals, mixed,
                 dropped>>

\* Mutant: room is not limited.
RoomForAll == TRUE

Room == Cardinality(present) < MAX_IPS

\* bpf_map_update_elem(..., BPF_NOEXIST) with the value 1; it fails if the
\* key has got an entry by now or the hash map is full.
Insert(c) ==
  /\ at[c] = "insert"
  /\ \/ /\ key[c] \notin present /\ Room
        /\ present' = present \cup {key[c]}
        /\ map' = [map EXCEPT ![key[c]] = 1]
        /\ UNCHANGED dropped
     \/ /\ key[c] \in present
        /\ UNCHANGED <<map, present, dropped>>
     \/ /\ key[c] \notin present /\ ~Room
        /\ dropped' = dropped \cup {key[c]}
        /\ UNCHANGED <<map, present>>
  /\ Finish(c)
  /\ UNCHANGED <<armed, main, n, report, verdict, signals, mixed>>

\* An outgoing packet; any other is let through.  The BPF_NOEXIST update of an
\* array map fails, so the count is not set back to 0.
Packet(k) ==
  /\ Program = "sock" /\ k \in Set(Protocols)
  /\ hits[k] < MaxHits
  /\ map' = [map EXCEPT ![k] = @ + 1]
  /\ hits' = [hits EXCEPT ![k] = @ + 1]
  /\ UNCHANGED <<present, armed, cpu, main, n, report, verdict, signals, mixed,
                 dropped>>

-----------------------------------------------------------------------------
(* The user program of open_tp: test(), once its programs are attached *)

Exits == main' = "end" /\ armed' = {}

\* Its own open: the tracepoint on the entry, then the one on the return.
EnterOpen ==
  /\ main = "open"
  /\ Lookup(Me, "enter")
  /\ main' = "entering"
  /\ UNCHANGED <<map, present, armed, n, report, verdict, signals, hits, dropped>>

\* Mutant: the tracepoint on the return counts in enter_open_map.
LeaveAsEntered ==
  /\ main = "entering" /\ at[Me] = "idle"
  /\ Lookup(Me, "enter")
  /\ main' = "leaving"
  /\ UNCHANGED <<map, present, armed, n, report, verdict, signals, hits, dropped>>

LeaveOpen ==
  /\ main = "entering" /\ at[Me] = "idle"
  /\ Lookup(Me, "exit")
  /\ main' = "leaving"
  /\ UNCHANGED <<map, present, armed, n, report, verdict, signals, hits, dropped>>

Opened ==
  /\ main = "leaving" /\ at[Me] = "idle"
  /\ \/ main' = "verify" /\ UNCHANGED armed
     \/ Exits   \* "open failed"
  /\ UNCHANGED <<map, present, cpu, n, report, verdict, signals, ghosts>>

\* verify_map of the n-th map, and then of the next.
Verified == /\ n' = n + 1
            /\ IF n < Len(Syscalls) THEN main' = "verify" /\ UNCHANGED armed
               ELSE Exits

VerifyLookup ==
  /\ main = "verify"
  /\ report' = [report EXCEPT ![Syscalls[n]] = map[Syscalls[n]]]
  /\ IF map[Syscalls[n]] = 0
     THEN complained' = TRUE /\ Verified
     ELSE main' = "zero" /\ UNCHANGED <<complained, n, armed>>
  /\ UNCHANGED <<map, present, cpu, warned, signals, ghosts>>

\* Mutant: the value that was looked up is written back.
VerifyWriteBack ==
  /\ main = "zero"
  /\ map' = [map EXCEPT ![Syscalls[n]] = report[Syscalls[n]]]
  /\ mixed' = mixed \cup {Syscalls[n]}
  /\ Verified
  /\ UNCHANGED <<present, cpu, report, verdict, signals, hits, dropped>>

VerifyUpdate ==
  /\ main = "zero"
  /\ map' = [map EXCEPT ![Syscalls[n]] = 0]
  /\ mixed' = mixed \cup {Syscalls[n]}
  /\ Verified
  /\ UNCHANGED <<present, cpu, report, verdict, signals, hits, dropped>>

-----------------------------------------------------------------------------
(* The user program of sampleip: main from sampling_start on *)

\* sampling_start, for one CPU after the other
Arm(c) ==
  /\ main = "arm" /\ c \notin armed
  /\ armed' = armed \cup {c}
  /\ main' = IF armed' = Cpus THEN "sleep" ELSE "arm"
  /\ UNCHANGED <<map, present, cpu, n, report, verdict, signals, ghosts>>

ArmFails ==
  /\ main = "arm"
  /\ Exits
  /\ UNCHANGED <<map, present, cpu, n, report, verdict, signals, ghosts>>

Wake ==
  /\ main = "sleep"
  /\ main' = "disarm"
  /\ UNCHANGED <<map, present, armed, cpu, n, report, verdict, signals, ghosts>>

StartPrinting ==
  /\ main' = "next"
  /\ n' = 1
  /\ report' = [k \in Keys |-> 0]

\* Mutant: the counts are printed before the last CPU stops sampling.
DisarmAllButOne(c) ==
  /\ main = "disarm" /\ c \in armed
  /\ at[c] = "idle"
  /\ armed' = armed \ {c}
  /\ StartPrinting
  /\ UNCHANGED <<map, present, cpu, verdict, signals, ghosts>>

\* sampling_end: when close returns the CPU's handler has finished.
Disarm(c) ==
  /\ main = "disarm" /\ c \in armed
  /\ at[c] = "idle"
  /\ armed' = armed \ {c}
  /\ IF armed' = {} THEN StartPrinting ELSE UNCHANGED <<main, n, report>>
  /\ UNCHANGED <<map, present, cpu, verdict, signals, ghosts>>

\* int_exit, on SIGINT and SIGTERM: it prints, with the sampling still going
\* on, and exits.
Interrupt ==
  /\ main \in {"arm", "sleep", "disarm", "next", "fetch"}
  /\ signals < 2
  /\ signals' = signals + 1
  /\ StartPrinting
  /\ UNCHANGED <<map, present, armed, cpu, verdict, ghosts>>

\* print_ip_map.  counts[] has an entry for each key fetched so far.
Fetched == {k \in Set(Ips) : report[k] # 0}

\* bpf_map_get_next_key: the first entry from the n-th address on.
Ahead == {i \in n..Len(Ips) : Ips[i] \in present}

\* Mutant: an entry short.
FullButOne == Cardinality(Fetched) = MAX_IPS + 1

Full == Cardinality(Fetched) = MAX_IPS

NextKey ==
  /\ main = "next"
  /\ \/ /\ \E i \in Ahead : n' = i /\ \A j \in Ahead : i <= j
        /\ main' = "fetch"
        /\ UNCHANGED <<armed, warned>>
     \/ /\ Ahead = {}
        /\ main' = "printed"
        /\ armed' = {}
        /\ warned' = Full
        /\ UNCHANGED n
  /\ UNCHANGED <<map, present, cpu, report, complained, signals, ghosts>>

\* Mutant: key = next_key is missing.
FetchAgain ==
  /\ main = "fetch"
  /\ report' = [report EXCEPT ![Ips[n]] = map[Ips[n]]]
  /\ main' = "next"
  /\ UNCHANGED <<map, present, armed, cpu, n, verdict, signals, ghosts>>

Fetch ==
  /\ main = "fetch"
  /\ report' = [report EXCEPT ![Ips[n]] = map[Ips[n]]]
  /\ n' = n + 1
  /\ main' = "next"
  /\ UNCHANGED <<map, present, armed, cpu, verdict, signals, ghosts>>

-----------------------------------------------------------------------------
(* The user program of sock: the loop that prints *)

PrintCounts ==
  /\ main = "print"
  /\ LET k == Protocols[((n - 1) % Len(Protocols)) + 1]
     IN  report' = [report EXCEPT ![k] = map[k]]
  /\ n' = n + 1
  /\ main' = IF n = Rounds * Len(Protocols) THEN "end" ELSE "print"
  /\ UNCHANGED <<map, present, armed, cpu, verdict, signals, ghosts>>

-----------------------------------------------------------------------------
Handler(c) == Load(c) \/ Store(c) \/ Insert(c)

Main == \/ EnterOpen \/ LeaveOpen \/ Opened \/ VerifyLookup \/ VerifyUpdate
        \/ (\E c \in Cpus : Arm(c) \/ Disarm(c)) \/ ArmFails \/ Wake
        \/ NextKey \/ Fetch \/ PrintCounts

Next == /\ \/ Main \/ Interrupt
           \/ \E c \in Cpus : Handler(c) \/ \E k \in Keys : Event(c, k)
           \/ \E k \in Keys : Packet(k)
        /\ UNCHANGED Program

Spec == Init /\ [][Next]_vars

\* A handler runs to its end, and the user program goes on.
FairSpec == Spec /\ WF_vars(Main /\ UNCHANGED Program)
                 /\ \A c \in Cpus : WF_vars(Handler(c) /\ UNCHANGED Program)

-----------------------------------------------------------------------------
(* Properties *)

\* The maps hold counts, and a position in print_ip_map is never 0.
TypeOK ==
  /\ Program \in Programs
  /\ map \in [Keys -> Nat] /\ report \in [Keys -> Nat] /\ hits \in [Keys -> Nat]
  /\ present \subseteq Keys
  /\ armed \subseteq Cpus
  /\ at \in [Cpus -> {"idle", "load", "store", "insert"}]
  /\ key \in [Cpus -> Keys] /\ reg \in [Cpus -> Nat]
  /\ main \in {"open", "entering", "leaving", "verify", "zero", "arm", "sleep",
               "disarm", "next", "fetch", "printed", "print", "end"}
  /\ n \in Nat \ {0}
  /\ complained \in BOOLEAN /\ warned \in BOOLEAN
  /\ signals \in 0..2
  /\ mixed \subseteq Keys /\ dropped \subseteq Keys

\* counts[MAX_IPS] is large enough, even for a signal handler that walks the
\* map while samples are being added to it.
PrintFitsCounts == Program = "sampleip" => Cardinality(Fetched) <= MAX_IPS

T == INSTANCE Tally WITH kind <- IF Program = "sock" THEN "exact" ELSE "lossy",
                         value <- map

\* The maps are tallies of the handlers that have run: exact where the addition
\* is atomic, and otherwise never above the number of events and never back at 0.
ImplementsTally == T!TallySpec

\* An event is lost only where two CPUs worked on its key at the same time, the
\* user program set the count to 0, or the hash map was full.
OnlyOverlapLoses ==
  \A k \in Keys \ (mixed \cup dropped) : map[k] = hits[k]

\* After its own open the user program of open_tp never finds a 0, whatever
\* increments were lost: "failed: map returns value 0" is not printed.
VerifyNeverComplains == ~complained

\* What sampleip prints after its last sample is what the map holds: no handler
\* is under way any more, and no entry is passed over.
PrintIsFinal ==
  main = "printed" /\ signals = 0 => \A k \in Set(Ips) : report[k] = map[k]

\* If a sample was dropped because the hash map was full, the warning says so
\* (unless a signal made the program print in the middle of the sampling).
DropIsReported == main = "printed" /\ signals = 0 /\ dropped # {} => warned

\* Every user program ends, whatever the events do.
UserEnds == <>(main \in {"end", "printed"})
=============================================================================
