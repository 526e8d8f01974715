-------------------------- MODULE CountersProofs --------------------------
(***************************************************************************)
(* The safety properties of Counters for any number of CPUs, addresses and *)
(* events, and that its maps implement Tally.                              *)
(***************************************************************************)
EXTENDS Counters, FiniteSetTheorems, TLAPS

\* Most steps are first-order reasoning about updates; the others name the solver.
USE ZenonT(40)

core == <<Program, map, present, at, key, reg, hits, mixed, dropped>>

\* Which program is in which part of its code.
PhaseInv ==
  /\ main \in {"open", "entering", "leaving", "verify", "zero"}
       => Program = "open_tp"
  /\ main \in {"arm", "sleep", "disarm", "next", "fetch", "printed"}
       => Program = "sampleip"
  /\ main = "print" => Program = "sock"
  /\ Program = "sock" => \A c \in Cpus : at[c] = "idle"
  /\ Program # "sampleip" => present = Keys
  /\ Program = "sampleip" =>
       /\ present \subseteq Set(Ips)
       /\ \A c \in Cpus : at[c] # "idle" => key[c] \in Set(Ips)

\* An entry stays once it is there; without one the count is 0, and sampleip
\* adds an entry with a count above 0.
EntryInv ==
  /\ \A c \in Cpus : at[c] \in {"load", "store"} => key[c] \in present
  /\ \A c \in Cpus : at[c] = "insert" => Program = "sampleip"
  /\ \A k \in Keys \ present : map[k] = 0
  /\ Program = "sampleip" => \A k \in present : map[k] > 0

\* Neither a count nor a loaded count exceeds the number of finished handlers.
BoundInv ==
  /\ \A k \in Keys : map[k] <= hits[k]
  /\ \A c \in Cpus : at[c] = "store" => reg[c] <= hits[key[c]]
  /\ Program = "sock" => map = hits

\* A handler that has had its key to itself holds what the map holds.
AloneInv ==
  /\ \A c, d \in Cpus : c # d /\ at[c] # "idle" /\ at[d] # "idle" /\ key[c] = key[d]
       => key[c] \in mixed
  /\ \A c \in Cpus : at[c] = "store" /\ key[c] \notin mixed
       => reg[c] = map[key[c]]
  /\ \A c \in Cpus : at[c] = "insert" /\ key[c] \notin mixed
       => key[c] \notin present
  /\ OnlyOverlapLoses

\* From the user program's own open on, a map it has not yet set to 0 is above 0.
VerifyInv ==
  /\ main = "entering" => Busy(Me, "enter") \/ map["enter"] > 0
  /\ main = "leaving" => /\ map["enter"] > 0
                         /\ Busy(Me, "exit") \/ map["exit"] > 0
  /\ main = "verify" => /\ n = 1 => map["enter"] > 0 /\ map["exit"] > 0
                        /\ n = 2 => map["exit"] > 0
  /\ main = "zero" /\ n = 1 => map["exit"] > 0
  /\ main \in {"open", "entering", "leaving"} => n = 1
  /\ main \in {"verify", "zero"} => n \in {1, 2}
  /\ ~complained

\* Without a signal the map does not change while it is printed.
PrintInv ==
  Program = "sampleip" /\ signals = 0 /\ main # "end" =>
    /\ \A c \in Cpus \ armed : at[c] = "idle"
    /\ main \in {"next", "fetch", "printed"} =>
         /\ armed = {}
         /\ \A k \in Keys : report[k] \in {0, map[k]}
         /\ \A i \in DOMAIN Ips : i < n \/ main = "printed"
                                    => report[Ips[i]] = map[Ips[i]]

\* The entries of the hash map, the ones printed and the ones refused.
RoomInv ==
  Program = "sampleip" =>
    /\ IsFiniteSet(present) /\ Cardinality(present) <= MAX_IPS
    /\ dropped # {} => Cardinality(present) = MAX_IPS
    /\ \A k \in Keys : report[k] # 0 => k \in present
    /\ main = "fetch" => n \in DOMAIN Ips /\ Ips[n] \in present
    /\ main = "printed" => warned = Full

IInv == /\ TypeOK /\ PhaseInv /\ EntryInv /\ BoundInv /\ AloneInv
        /\ VerifyInv /\ PrintInv /\ RoomInv

-----------------------------------------------------------------------------
(* The keys *)

\* The keys of the three maps, and which of them are system calls.
LEMMA KeysFacts ==
  /\ "enter" \in Keys /\ "exit" \in Keys
  /\ \A i \in {1, 2} : Syscalls[i] \in Keys
  /\ Syscalls[1] = "enter" /\ Syscalls[2] = "exit" /\ Len(Syscalls) = 2
  /\ DOMAIN Ips \subseteq Nat \ {0}
  /\ \A i \in DOMAIN Ips : Ips[i] \in Keys
  /\ Set(Ips) \subseteq Keys
  /\ \A i \in Nat \ {0} : Protocols[((i - 1) % Len(Protocols)) + 1] \in Keys
  <1>1. /\ Syscalls[1] = "enter" /\ Syscalls[2] = "exit" /\ Len(Syscalls) = 2
        /\ DOMAIN Syscalls = {1, 2}
    BY SMT DEF Syscalls
  <1>2. Len(Protocols) = 3 /\ DOMAIN Protocols = 1..3
    BY SMT DEF Protocols
  <1>3. DOMAIN Ips \subseteq Nat \ {0}
    BY CountersAssumption, SMT
  <1>4. \A i \in DOMAIN Ips : Ips[i] \in Set(Ips)
    BY DEF Set
  <1>5. \A i \in Nat \ {0} : ((i - 1) % 3) + 1 \in 1..3
    BY SMT
  <1>6. \A i \in Nat \ {0} : Protocols[((i - 1) % Len(Protocols)) + 1] \in Keys
    BY <1>2, <1>5 DEF Keys, Set
  <1>7. "enter" \in Set(Syscalls) /\ "exit" \in Set(Syscalls)
    BY <1>1 DEF Set
  <1>8. QED
    BY <1>1, <1>3, <1>4, <1>6, <1>7 DEF Keys

-----------------------------------------------------------------------------
(* Type correctness *)

\* Every step keeps the types.
LEMMA TypeStep == TypeOK /\ VerifyInv /\ RoomInv /\ PhaseInv /\ [Next]_vars => TypeOK'
  <1> SUFFICES ASSUME TypeOK, VerifyInv, RoomInv, PhaseInv, [Next]_vars PROVE TypeOK'
    OBVIOUS
  <1> USE DEF TypeOK
  <1>1. ASSUME NEW c \in Cpus, NEW k \in Keys, Event(c, k) PROVE TypeOK'
    BY <1>1 DEF Event, Lookup, verdict, Next, vars
  <1>2. ASSUME NEW c \in Cpus, Load(c) PROVE TypeOK'
    BY <1>2 DEF Load, verdict, ghosts, Next, vars
  <1>3. ASSUME NEW c \in Cpus, Store(c) PROVE TypeOK'
    BY <1>3, SMT DEF Store, Finish, verdict, Next, vars
  <1>4. ASSUME NEW c \in Cpus, Insert(c) PROVE TypeOK'
    BY <1>4, SMT DEF Insert, Finish, verdict, Next, vars
  <1>5. ASSUME NEW k \in Keys, Packet(k) PROVE TypeOK'
    BY <1>5, SMT DEF Packet, cpu, verdict, Next, vars
  <1>6. CASE EnterOpen
    BY <1>6, KeysFacts, CountersAssumption DEF EnterOpen, Lookup, verdict, Next, vars
  <1>7. CASE LeaveOpen
    BY <1>7, KeysFacts, CountersAssumption DEF LeaveOpen, Lookup, verdict, Next, vars
  <1>8. CASE Opened
    BY <1>8 DEF Opened, Exits, cpu, verdict, ghosts, Next, vars
  <1>9. CASE VerifyLookup
    <2>1. Syscalls[n] \in Keys
      BY <1>9, KeysFacts DEF VerifyLookup, VerifyInv
    <2>2. /\ n' \in Nat \ {0} /\ armed' \subseteq Cpus /\ complained' \in BOOLEAN
          /\ main' \in {"verify", "zero", "end"}
      <3>1. CASE map[Syscalls[n]] = 0 /\ n < Len(Syscalls)
        BY <1>9, <3>1, SMT DEF VerifyLookup, Verified
      <3>2. CASE map[Syscalls[n]] = 0 /\ ~(n < Len(Syscalls))
        BY <1>9, <3>2, SMT DEF VerifyLookup, Verified, Exits
      <3>3. CASE map[Syscalls[n]] # 0
        BY <1>9, <3>3 DEF VerifyLookup
      <3>4. QED
        BY <3>1, <3>2, <3>3
    <2>3. report' \in [Keys -> Nat]
      BY <1>9, <2>1 DEF VerifyLookup
    <2>4. QED
      BY <1>9, <2>2, <2>3 DEF VerifyLookup, cpu, ghosts, Next, vars
  <1>10. CASE VerifyUpdate
    <2>1. Syscalls[n] \in Keys
      BY <1>10, KeysFacts DEF VerifyUpdate, VerifyInv
    <2>2. QED
      BY <1>10, <2>1, SMT DEF VerifyUpdate, Verified, Exits, cpu, verdict, Next, vars
  <1>11. ASSUME NEW c \in Cpus, Arm(c) PROVE TypeOK'
    BY <1>11 DEF Arm, cpu, verdict, ghosts, Next, vars
  <1>12. CASE ArmFails
    BY <1>12 DEF ArmFails, Exits, cpu, verdict, ghosts, Next, vars
  <1>13. CASE Wake
    BY <1>13 DEF Wake, cpu, verdict, ghosts, Next, vars
  <1>14. ASSUME NEW c \in Cpus, Disarm(c) PROVE TypeOK'
    BY <1>14, SMT DEF Disarm, StartPrinting, cpu, verdict, ghosts, Next, vars
  <1>15. CASE Interrupt
    BY <1>15, SMT DEF Interrupt, StartPrinting, cpu, verdict, ghosts, Next, vars
  <1>16. CASE NextKey
    <2>1. Ahead \subseteq Nat \ {0}
      BY CountersAssumption, SMT DEF Ahead
    <2>2. warned' \in BOOLEAN
      BY <1>16 DEF NextKey, Full
    <2>3. QED
      BY <1>16, <2>1, <2>2 DEF NextKey, cpu, ghosts, Next, vars
  <1>17. CASE Fetch
    <2>1. Ips[n] \in Keys
      BY <1>17, KeysFacts DEF Fetch, RoomInv, PhaseInv
    <2>2. QED
      BY <1>17, <2>1, SMT DEF Fetch, cpu, verdict, ghosts, Next, vars
  <1>18. CASE PrintCounts
    <2>1. Protocols[((n - 1) % Len(Protocols)) + 1] \in Keys
      BY KeysFacts
    <2>2. main' \in {"print", "end"} /\ n' \in Nat \ {0}
      BY <1>18, SMT DEF PrintCounts
    <2>3. report' \in [Keys -> Nat]
      BY <1>18, <2>1 DEF PrintCounts
    <2>4. /\ UNCHANGED <<map, present, armed, at, key, reg, complained, warned>>
          /\ UNCHANGED <<signals, hits, mixed, dropped>>
      BY <1>18 DEF PrintCounts, cpu, verdict, ghosts
    <2>5. UNCHANGED Program
      BY DEF Next, vars
    <2>6. QED
      BY <2>2, <2>3, <2>4, <2>5
  <1>19. CASE UNCHANGED vars
    BY <1>19 DEF vars
  <1>20. QED
    BY <1>1, <1>2, <1>3, <1>4, <1>5, <1>6, <1>7, <1>8, <1>9, <1>10, <1>11, <1>12,
       <1>13, <1>14, <1>15, <1>16, <1>17, <1>18, <1>19 DEF Next, Main, Handler

-----------------------------------------------------------------------------
(* The steps that touch what the handlers work on *)

LookupStep(c, k) ==
  /\ Program = "open_tp" \/ (Program = "sampleip" /\ k \in Set(Ips))
  /\ Lookup(c, k)
  /\ UNCHANGED <<map, present, hits, dropped>>

ResetStep(k) ==
  /\ Program = "open_tp"
  /\ map' = [map EXCEPT ![k] = 0]
  /\ mixed' = mixed \cup {k}
  /\ UNCHANGED <<present, at, key, reg, hits, dropped>>

CoreStep ==
  /\ UNCHANGED Program
  /\ \/ \E c \in Cpus, k \in Keys : LookupStep(c, k)
     \/ \E c \in Cpus : Load(c) \/ Store(c) \/ Insert(c)
     \/ \E k \in Keys : Packet(k)
     \/ \E k \in Keys : ResetStep(k)

\* Every step is one of those above or leaves the counters alone.
LEMMA CoreSteps ==
  TypeOK /\ PhaseInv /\ VerifyInv /\ [Next]_vars => CoreStep \/ UNCHANGED core
  <1> SUFFICES ASSUME TypeOK, PhaseInv, VerifyInv, Next
               PROVE  CoreStep \/ UNCHANGED core
    BY DEF vars, core
  <1>0. UNCHANGED Program
    BY DEF Next
  <1>1. ASSUME NEW c \in Cpus, NEW k \in Keys, Event(c, k) PROVE LookupStep(c, k)
    BY <1>1 DEF Event, LookupStep
  <1>2. ASSUME EnterOpen PROVE LookupStep(Me, "enter")
    BY <1>2 DEF EnterOpen, LookupStep, PhaseInv
  <1>3. ASSUME LeaveOpen PROVE LookupStep(Me, "exit")
    BY <1>3 DEF LeaveOpen, LookupStep, PhaseInv
  <1>4. ASSUME VerifyUpdate PROVE ResetStep(Syscalls[n]) /\ Syscalls[n] \in Keys
    <2>1. Syscalls[n] \in Keys
      BY <1>4, KeysFacts DEF VerifyUpdate, VerifyInv
    <2>2. QED
      BY <1>4, <2>1 DEF VerifyUpdate, ResetStep, PhaseInv, cpu
  <1>5. ASSUME Opened \/ VerifyLookup \/ (\E c \in Cpus : Arm(c) \/ Disarm(c))
                \/ ArmFails \/ Wake \/ Interrupt \/ NextKey \/ Fetch
        PROVE  UNCHANGED core
    BY <1>0, <1>5 DEF Opened, VerifyLookup, Arm, Disarm, ArmFails, Wake, Interrupt,
       NextKey, Fetch, core, cpu, ghosts
  <1>6. ASSUME PrintCounts PROVE UNCHANGED core
    BY <1>0, <1>6 DEF PrintCounts, core, cpu, ghosts
  <1>7. Me \in Cpus /\ "enter" \in Keys /\ "exit" \in Keys
    BY KeysFacts, CountersAssumption
  <1>8. QED
    BY <1>0, <1>1, <1>2, <1>3, <1>4, <1>5, <1>6, <1>7 DEF Next, Main, Handler, CoreStep

-----------------------------------------------------------------------------
(* Each conjunct of the invariant *)

\* A handler that increments works on an entry that is there.
LEMMA EntryStep ==
  TypeOK /\ PhaseInv /\ EntryInv /\ (CoreStep \/ UNCHANGED core) => EntryInv'
  <1> SUFFICES ASSUME TypeOK, PhaseInv, EntryInv, CoreStep \/ UNCHANGED core
               PROVE  EntryInv'
    OBVIOUS
  <1> USE DEF TypeOK, EntryInv
  <1>1. ASSUME NEW c \in Cpus, NEW k \in Keys, LookupStep(c, k), UNCHANGED Program
        PROVE  EntryInv'
    BY <1>1 DEF LookupStep, Lookup, PhaseInv
  <1>2. ASSUME NEW c \in Cpus, Load(c), UNCHANGED Program PROVE EntryInv'
    BY <1>2 DEF Load
  <1>3. ASSUME NEW c \in Cpus, Store(c), UNCHANGED Program PROVE EntryInv'
    BY <1>3, SMT DEF Store, Finish
  <1>4. ASSUME NEW c \in Cpus, Insert(c), UNCHANGED Program PROVE EntryInv'
    BY <1>4, SMT DEF Insert, Finish
  <1>5. ASSUME NEW k \in Keys, Packet(k), UNCHANGED Program PROVE EntryInv'
    BY <1>5 DEF Packet, PhaseInv, cpu
  <1>6. ASSUME NEW k \in Keys, ResetStep(k), UNCHANGED Program PROVE EntryInv'
    BY <1>6 DEF ResetStep
  <1>7. CASE UNCHANGED core
    BY <1>7 DEF core
  <1>8. QED
    BY <1>1, <1>2, <1>3, <1>4, <1>5, <1>6, <1>7 DEF CoreStep

\* A counter never exceeds the events.
LEMMA BoundStep ==
  TypeOK /\ PhaseInv /\ BoundInv /\ (CoreStep \/ UNCHANGED core) => BoundInv'
  <1> SUFFICES ASSUME TypeOK, PhaseInv, BoundInv, CoreStep \/ UNCHANGED core
               PROVE  BoundInv'
    OBVIOUS
  <1> USE DEF TypeOK, BoundInv
  <1>1. ASSUME NEW c \in Cpus, NEW k \in Keys, LookupStep(c, k), UNCHANGED Program
        PROVE  BoundInv'
    BY <1>1 DEF LookupStep, Lookup
  <1>2. ASSUME NEW c \in Cpus, Load(c), UNCHANGED Program PROVE BoundInv'
    BY <1>2 DEF Load, ghosts
  <1>3. ASSUME NEW c \in Cpus, Store(c), UNCHANGED Program PROVE BoundInv'
    BY <1>3, SMT DEF Store, Finish, PhaseInv
  <1>4. ASSUME NEW c \in Cpus, Insert(c), UNCHANGED Program PROVE BoundInv'
    BY <1>4, SMT DEF Insert, Finish, PhaseInv
  <1>5. ASSUME NEW k \in Keys, Packet(k), UNCHANGED Program PROVE BoundInv'
    BY <1>5, SMT DEF Packet, cpu
  <1>6. ASSUME NEW k \in Keys, ResetStep(k), UNCHANGED Program PROVE BoundInv'
    BY <1>6, SMT DEF ResetStep
  <1>7. CASE UNCHANGED core
    BY <1>7 DEF core
  <1>8. QED
    BY <1>1, <1>2, <1>3, <1>4, <1>5, <1>6, <1>7 DEF CoreStep

\* A key whose handlers have never overlapped is counted exactly.
LEMMA AloneStep ==
  TypeOK /\ PhaseInv /\ EntryInv /\ AloneInv /\ (CoreStep \/ UNCHANGED core) => AloneInv'
  <1> SUFFICES ASSUME TypeOK, PhaseInv, EntryInv, AloneInv, CoreStep \/ UNCHANGED core
               PROVE  AloneInv'
    OBVIOUS
  <1> USE DEF TypeOK, AloneInv, OnlyOverlapLoses
  <1>1. ASSUME NEW c \in Cpus, NEW k \in Keys, LookupStep(c, k), UNCHANGED Program
        PROVE  AloneInv'
    BY <1>1, SMT DEF LookupStep, Lookup, Busy
  <1>2. ASSUME NEW c \in Cpus, Load(c), UNCHANGED Program PROVE AloneInv'
    BY <1>2 DEF Load, ghosts
  <1>3. ASSUME NEW c \in Cpus, Store(c), UNCHANGED Program PROVE AloneInv'
    BY <1>3, SMT DEF Store, Finish
  <1>4. ASSUME NEW c \in Cpus, Insert(c), UNCHANGED Program PROVE AloneInv'
    BY <1>4, SMTT(30) DEF Insert, Finish, EntryInv
  <1>5. ASSUME NEW k \in Keys, Packet(k), UNCHANGED Program PROVE AloneInv'
    BY <1>5, SMT DEF Packet, PhaseInv, cpu
  <1>6. ASSUME NEW k \in Keys, ResetStep(k), UNCHANGED Program PROVE AloneInv'
    BY <1>6 DEF ResetStep
  <1>7. CASE UNCHANGED core
    BY <1>7 DEF core
  <1>8. QED
    BY <1>1, <1>2, <1>3, <1>4, <1>5, <1>6, <1>7 DEF CoreStep

\* Each program stays in its own part of the code.
LEMMA PhaseStep ==
  TypeOK /\ PhaseInv /\ (CoreStep \/ UNCHANGED core) /\ [Next]_vars => PhaseInv'
  <1> SUFFICES ASSUME TypeOK, PhaseInv, CoreStep \/ UNCHANGED core, [Next]_vars
               PROVE  PhaseInv'
    OBVIOUS
  <1>1. UNCHANGED Program
    BY DEF Next, vars
  <1>2. /\ main' \in {"open", "entering", "leaving", "verify", "zero"}
             => Program = "open_tp"
        /\ main' \in {"arm", "sleep", "disarm", "next", "fetch", "printed"}
             => Program = "sampleip"
        /\ main' = "print" => Program = "sock"
    <2>1. CASE EnterOpen \/ LeaveOpen \/ Opened \/ VerifyLookup \/ VerifyUpdate
      BY <2>1 DEF PhaseInv, EnterOpen, LeaveOpen, Opened, VerifyLookup, VerifyUpdate,
         Verified, Exits
    <2>2. CASE (\E c \in Cpus : Arm(c) \/ Disarm(c)) \/ ArmFails \/ Wake \/ Interrupt
      BY <2>2 DEF PhaseInv, Arm, Disarm, ArmFails, Wake, Interrupt, StartPrinting, Exits
    <2>3. CASE NextKey \/ Fetch
      BY <2>3 DEF PhaseInv, NextKey, Fetch
    <2>4. CASE PrintCounts
      <3>1. main = "print" /\ main' \in {"print", "end"}
        BY <2>4 DEF PrintCounts
      <3>2. QED
        BY <3>1 DEF PhaseInv
    <2>5. CASE UNCHANGED main
      BY <2>5 DEF PhaseInv
    <2>6. QED
      BY <2>1, <2>2, <2>3, <2>4, <2>5 DEF Next, Main, Handler, Event, Load, Store,
         Insert, Packet, vars
  <1> DEFINE Rest == /\ Program = "sock" => \A c \in Cpus : at'[c] = "idle"
                     /\ Program # "sampleip" => present' = Keys
                     /\ Program = "sampleip" =>
                          /\ present' \subseteq Set(Ips)
                          /\ \A c \in Cpus : at'[c] # "idle" => key'[c] \in Set(Ips)
  <1>3. Rest
    <2> USE DEF PhaseInv, TypeOK
    <2>1. ASSUME NEW c \in Cpus, NEW k \in Keys, LookupStep(c, k) PROVE Rest
      BY <2>1 DEF LookupStep, Lookup
    <2>2. ASSUME NEW c \in Cpus, Load(c) \/ Store(c) \/ Insert(c) PROVE Rest
      BY <2>2, SMTT(30) DEF Load, Store, Insert, Finish
    <2>3. ASSUME NEW k \in Keys, Packet(k) \/ ResetStep(k) PROVE Rest
      BY <2>3 DEF Packet, ResetStep, cpu
    <2>4. CASE UNCHANGED core
      BY <2>4 DEF core
    <2>5. QED
      BY <2>1, <2>2, <2>3, <2>4 DEF CoreStep
  <1>4. QED
    BY <1>1, <1>2, <1>3 DEF PhaseInv

-----------------------------------------------------------------------------
(* The conjuncts of the invariant about the user programs *)

\* What test and verify_map of open_tp_user rely on is preserved: a counter that
\* is to be verified is above 0.
LEMMA VerifyStep ==
  TypeOK /\ PhaseInv /\ EntryInv /\ VerifyInv /\ [Next]_vars => VerifyInv'
  <1> SUFFICES ASSUME TypeOK, PhaseInv, EntryInv, VerifyInv, [Next]_vars
               PROVE  VerifyInv'
    OBVIOUS
  <1>0. /\ "enter" \in Keys /\ "exit" \in Keys /\ Me \in Cpus
        /\ Syscalls[1] = "enter" /\ Syscalls[2] = "exit" /\ Len(Syscalls) = 2
    BY KeysFacts, CountersAssumption
  <1> USE <1>0 DEF TypeOK, VerifyInv, Busy
  <1>1. ASSUME NEW c \in Cpus, NEW k \in Keys, Event(c, k) PROVE VerifyInv'
    BY <1>1 DEF Event, Lookup, verdict
  <1>2. ASSUME NEW c \in Cpus, Load(c) PROVE VerifyInv'
    BY <1>2 DEF Load, verdict
  <1>3. ASSUME NEW c \in Cpus, Store(c) PROVE VerifyInv'
    BY <1>3, SMTT(30) DEF Store, Finish, verdict
  <1>4. ASSUME NEW c \in Cpus, Insert(c) PROVE VerifyInv'
    <2>1. Program = "sampleip" /\ main' = main /\ complained' = complained
      BY <1>4 DEF Insert, EntryInv, verdict
    <2>2. QED
      BY <2>1 DEF PhaseInv
  <1>5. ASSUME NEW k \in Keys, Packet(k) PROVE VerifyInv'
    <2>1. Program = "sock" /\ main' = main /\ complained' = complained
      BY <1>5 DEF Packet, verdict
    <2>2. QED
      BY <2>1 DEF PhaseInv
  <1>6. CASE EnterOpen
    BY <1>6 DEF EnterOpen, Lookup, verdict
  <1>7. CASE LeaveOpen
    BY <1>7 DEF LeaveOpen, Lookup, verdict
  <1>8. CASE Opened
    BY <1>8 DEF Opened, Exits, verdict
  <1>9. CASE VerifyLookup
    BY <1>9, SMTT(30) DEF VerifyLookup
  <1>10. CASE VerifyUpdate
    <2>1. CASE n = 1
      BY <1>10, <2>1, SMTT(30) DEF VerifyUpdate, Verified, verdict
    <2>2. CASE n = 2
      BY <1>10, <2>2, SMTT(30) DEF VerifyUpdate, Verified, Exits, verdict
    <2>3. QED
      BY <1>10, <2>1, <2>2 DEF VerifyUpdate
  <1>11. ASSUME \/ (\E c \in Cpus : Arm(c) \/ Disarm(c)) \/ ArmFails \/ Wake
                \/ Interrupt \/ NextKey \/ Fetch
         PROVE  VerifyInv'
    <2>1. /\ main' \in {"arm", "sleep", "disarm", "next", "fetch", "printed", "end"}
          /\ complained' = complained
      BY <1>11 DEF Arm, Disarm, ArmFails, Wake, Interrupt, NextKey, Fetch, StartPrinting,
         Exits, verdict
    <2>2. QED
      BY <2>1
  <1>12. CASE PrintCounts
    <2>1. main' \in {"print", "end"} /\ complained' = complained
      BY <1>12 DEF PrintCounts, verdict
    <2>2. QED
      BY <2>1
  <1>13. CASE UNCHANGED vars
    BY <1>13 DEF vars
  <1>14. QED
    BY <1>1, <1>2, <1>3, <1>4, <1>5, <1>6, <1>7, <1>8, <1>9, <1>10, <1>11, <1>12,
       <1>13 DEF Next, Main, Handler

\* Without a signal, what print_ip_map has printed stays what the map says.
LEMMA PrintStep ==
  TypeOK /\ PhaseInv /\ EntryInv /\ RoomInv /\ PrintInv /\ [Next]_vars => PrintInv'
  <1> SUFFICES ASSUME TypeOK, PhaseInv, EntryInv, RoomInv, PrintInv, [Next]_vars,
                      Program' = "sampleip", signals' = 0, main' # "end"
               PROVE  PrintInv'
    BY DEF PrintInv
  <1>0. Program = "sampleip"
    BY DEF Next, vars
  <1> DOMAIN Ips \subseteq Nat \ {0} /\ \A i \in DOMAIN Ips : Ips[i] \in Keys
    BY KeysFacts
  <1> USE <1>0 DEF TypeOK, PrintInv
  <1>1. ASSUME NEW c \in Cpus, NEW k \in Keys, Event(c, k) PROVE PrintInv'
    BY <1>1 DEF Event, Lookup
  <1>2. ASSUME NEW c \in Cpus, Load(c) PROVE PrintInv'
    BY <1>2 DEF Load
  <1>3. ASSUME NEW c \in Cpus, Store(c) PROVE PrintInv'
    BY <1>3 DEF Store, Finish
  <1>4. ASSUME NEW c \in Cpus, Insert(c) PROVE PrintInv'
    BY <1>4 DEF Insert, Finish
  <1>5. ASSUME NEW c \in Cpus, Arm(c) PROVE PrintInv'
    BY <1>5 DEF Arm, cpu
  <1>6. CASE Wake
    BY <1>6 DEF Wake, cpu
  <1>7. ASSUME NEW c \in Cpus, Disarm(c) PROVE PrintInv'
    <2>1. \A d \in Cpus \ armed' : at'[d] = "idle"
      BY <1>7 DEF Disarm, cpu
    <2>2. CASE armed' = {}
      BY <1>7, <2>1, <2>2, SMT DEF Disarm, StartPrinting
    <2>3. CASE armed' # {}
      BY <1>7, <2>1, <2>3 DEF Disarm
    <2>4. QED
      BY <2>2, <2>3
  <1>8. CASE NextKey
    <2>1. /\ armed = {} /\ armed' = {}
          /\ UNCHANGED <<map, report, at>>
          /\ \A k \in Keys : report[k] \in {0, map[k]}
          /\ \A i \in DOMAIN Ips : i < n => report[Ips[i]] = map[Ips[i]]
      BY <1>8 DEF NextKey, cpu
    <2>2. \A i \in DOMAIN Ips : i < n' \/ main' = "printed"
                                  => i < n \/ Ips[i] \notin present
      <3>1. DOMAIN Ips = 1..Len(Ips) /\ Len(Ips) \in Nat
        BY CountersAssumption, SMT
      <3> SUFFICES ASSUME NEW i \in DOMAIN Ips, i < n' \/ main' = "printed",
                          ~(i < n), Ips[i] \in present
                   PROVE  FALSE
        OBVIOUS
      <3>2. i \in Ahead
        BY <3>1, SMT DEF Ahead
      <3>3. Ahead \subseteq Nat
        BY <3>1, SMT DEF Ahead
      <3>4. QED
        BY <1>8, <3>1, <3>2, <3>3, SMT DEF NextKey
    <2>3. \A i \in DOMAIN Ips : Ips[i] \notin present => report[Ips[i]] = map[Ips[i]]
      BY <2>1 DEF EntryInv
    <2>4. \A i \in DOMAIN Ips : i < n' \/ main' = "printed"
                                  => report'[Ips[i]] = map'[Ips[i]]
      BY <2>1, <2>2, <2>3
    <2>5. \A k \in Keys : report'[k] \in {0, map'[k]}
      BY <2>1
    <2>6. \A c \in Cpus \ armed' : at'[c] = "idle"
      BY <1>8, <2>1 DEF NextKey
    <2>7. QED
      BY <2>1, <2>4, <2>5, <2>6 DEF PrintInv
  <1>9. CASE Fetch
    <2>1. n \in DOMAIN Ips
      BY <1>9 DEF Fetch, RoomInv
    <2>2. QED
      BY <1>9, <2>1, SMT DEF Fetch, cpu
  <1>10. CASE UNCHANGED vars
    BY <1>10 DEF vars
  <1>11. ~EnterOpen /\ ~LeaveOpen /\ ~Opened /\ ~VerifyLookup /\ ~VerifyUpdate
    BY DEF EnterOpen, LeaveOpen, Opened, VerifyLookup, VerifyUpdate, PhaseInv
  <1>12. ~ArmFails /\ ~Interrupt
    BY SMT DEF ArmFails, Exits, Interrupt
  <1>13. ~PrintCounts /\ \A k \in Keys : ~Packet(k)
    BY DEF PrintCounts, Packet, PhaseInv
  <1>14. QED
    BY <1>1, <1>2, <1>3, <1>4, <1>5, <1>6, <1>7, <1>8, <1>9, <1>10, <1>11, <1>12,
       <1>13 DEF Next, Main, Handler

\* The hash table of sampleip keeps its bound, and the warning its meaning.
LEMMA RoomStep ==
  TypeOK /\ PhaseInv /\ RoomInv /\ [Next]_vars => RoomInv'
  <1> SUFFICES ASSUME TypeOK, PhaseInv, RoomInv, [Next]_vars, Program' = "sampleip"
               PROVE  RoomInv'
    BY DEF RoomInv
  <1>0. Program = "sampleip" /\ MAX_IPS \in Nat
    BY CountersAssumption DEF Next, vars
  <1> DOMAIN Ips \subseteq Nat \ {0} /\ \A i \in DOMAIN Ips : Ips[i] \in Keys
    BY KeysFacts
  <1> USE <1>0 DEF TypeOK, RoomInv
  <1>1. ASSUME NEW c \in Cpus, NEW k \in Keys, Event(c, k) PROVE RoomInv'
    <2>1. UNCHANGED <<present, dropped, main, n, report, warned>>
      BY <1>1 DEF Event, verdict
    <2>2. QED
      BY <2>1 DEF Full, Fetched
  <1>2. ASSUME NEW c \in Cpus, Load(c) \/ Store(c) PROVE RoomInv'
    <2>1. UNCHANGED <<present, dropped, main, n, report, warned>>
      BY <1>2 DEF Load, Store, verdict, ghosts
    <2>2. QED
      BY <2>1 DEF Full, Fetched
  <1>3. ASSUME NEW c \in Cpus, Insert(c) PROVE RoomInv'
    <2>1. /\ IsFiniteSet(present')
          /\ Cardinality(present') <= MAX_IPS
          /\ dropped' # {} => Cardinality(present') = MAX_IPS
          /\ present \subseteq present'
      <3>0. Cardinality(present) \in Nat
        BY FS_CardinalityType
      <3>1. CASE key[c] \notin present /\ Room
        <4>1. present' = present \cup {key[c]} /\ dropped' = dropped
          BY <1>3, <3>1 DEF Insert
        <4>2. IsFiniteSet(present') /\ Cardinality(present') = Cardinality(present) + 1
          BY <3>1, <4>1, FS_AddElement
        <4>3. QED
          BY <3>0, <3>1, <4>1, <4>2, SMT DEF Room
      <3>2. CASE key[c] \in present
        BY <1>3, <3>2 DEF Insert
      <3>3. CASE key[c] \notin present /\ ~Room
        BY <1>3, <3>0, <3>3, SMTT(30) DEF Insert, Room
      <3>4. QED
        BY <3>1, <3>2, <3>3
    <2>2. UNCHANGED <<main, n, report, warned>>
      BY <1>3 DEF Insert, verdict
    <2>3. Full' = Full
      BY <2>2 DEF Full, Fetched
    <2>4. QED
      BY <2>1, <2>2, <2>3
  <1>4. ASSUME NEW c \in Cpus, Arm(c) \/ Disarm(c) PROVE RoomInv'
    <2>1. main' \notin {"fetch", "printed"}
      BY <1>4 DEF Arm, Disarm, StartPrinting
    <2>2. \A k \in Keys : report'[k] # 0 => k \in present
      BY <1>4 DEF Arm, Disarm, StartPrinting
    <2>3. UNCHANGED <<present, dropped>>
      BY <1>4 DEF Arm, Disarm, ghosts
    <2>4. QED
      BY <2>1, <2>2, <2>3
  <1>5. CASE ArmFails \/ Wake \/ Interrupt
    <2>1. main' \notin {"fetch", "printed"} /\ UNCHANGED <<present, dropped>>
      BY <1>5 DEF ArmFails, Wake, Interrupt, StartPrinting, Exits, ghosts
    <2>2. \A k \in Keys : report'[k] # 0 => k \in present
      BY <1>5 DEF ArmFails, Wake, Interrupt, StartPrinting
    <2>3. QED
      BY <2>1, <2>2
  <1>6. CASE NextKey
    <2>1. UNCHANGED <<present, dropped, report>>
      BY <1>6 DEF NextKey, ghosts
    <2>2. main' = "fetch" => n' \in DOMAIN Ips /\ Ips[n'] \in present
      BY <1>6, CountersAssumption, SMTT(30) DEF NextKey, Ahead
    <2>3. main' = "printed" => warned' = Full'
      BY <1>6, <2>1, SMTT(30) DEF NextKey, Full, Fetched
    <2>4. QED
      BY <2>1, <2>2, <2>3
  <1>7. CASE Fetch
    BY <1>7 DEF Fetch, ghosts
  <1>8. CASE UNCHANGED vars
    BY <1>8 DEF vars, Full, Fetched
  <1>9. ~EnterOpen /\ ~LeaveOpen /\ ~Opened /\ ~VerifyLookup /\ ~VerifyUpdate
    BY DEF EnterOpen, LeaveOpen, Opened, VerifyLookup, VerifyUpdate, PhaseInv
  <1>10. ~PrintCounts /\ \A k \in Keys : ~Packet(k)
    BY DEF PrintCounts, Packet, PhaseInv
  <1>11. QED
    BY <1>1, <1>2, <1>3, <1>4, <1>5, <1>6, <1>7, <1>8, <1>9, <1>10
    DEF Next, Main, Handler

-----------------------------------------------------------------------------
(* The invariant *)

\* The maps are empty and no handler runs: the invariant holds at the start.
LEMMA IInvInit == Init => IInv
  <1> SUFFICES ASSUME Init PROVE IInv
    OBVIOUS
  <1>1. "enter" \in Keys /\ Program \in {"open_tp", "sampleip", "sock"} /\ MAX_IPS \in Nat
    BY KeysFacts, CountersAssumption DEF Init
  <1>2. TypeOK
    <2>1. main \in {"open", "arm", "print"} /\ n = 1 /\ signals = 0
      BY <1>1 DEF Init
    <2>2. /\ map \in [Keys -> Nat] /\ report \in [Keys -> Nat] /\ hits \in [Keys -> Nat]
          /\ at \in [Cpus -> {"idle"}] /\ key \in [Cpus -> Keys] /\ reg \in [Cpus -> Nat]
      BY <1>1 DEF Init
    <2>3. /\ Program \in Programs /\ present \subseteq Keys /\ armed \subseteq Cpus
          /\ mixed \subseteq Keys /\ dropped \subseteq Keys
      BY <1>1 DEF Init
    <2>6. complained \in BOOLEAN /\ warned \in BOOLEAN
      BY DEF Init
    <2>4. at \in [Cpus -> {"idle", "load", "store", "insert"}]
      BY <2>2
    <2>5. QED
      BY <2>1, <2>2, <2>3, <2>6, <2>4, SMT DEF TypeOK
  <1>3. PhaseInv
    BY <1>1 DEF Init, PhaseInv
  <1>4. EntryInv /\ BoundInv
    <2>1. /\ map = hits /\ \A k \in Keys : map[k] = 0
          /\ \A c \in Cpus : at[c] = "idle"
          /\ Program = "sampleip" => present = {}
      BY DEF Init
    <2>2. QED
      BY <2>1, SMT DEF EntryInv, BoundInv
  <1>9. AloneInv
    BY <1>1 DEF Init, AloneInv, OnlyOverlapLoses
  <1>5. VerifyInv
    BY <1>1 DEF Init, VerifyInv
  <1>6. PrintInv
    BY <1>1 DEF Init, PrintInv
  <1>7. RoomInv
    <2> SUFFICES ASSUME Program = "sampleip" PROVE RoomInv
      BY DEF RoomInv
    <2>1. present = {} /\ dropped = {} /\ main = "arm" /\ \A k \in Keys : report[k] = 0
      BY DEF Init
    <2>2. IsFiniteSet(present) /\ Cardinality(present) = 0
      BY <2>1, FS_EmptySet
    <2>3. QED
      BY <1>1, <2>1, <2>2, SMT DEF RoomInv
  <1>8. QED
    BY <1>2, <1>3, <1>4, <1>9, <1>5, <1>6, <1>7 DEF IInv

\* Every step of a handler or of a user program preserves the invariant.
LEMMA IInvStep == IInv /\ [Next]_vars => IInv'
  <1> SUFFICES ASSUME IInv, [Next]_vars PROVE IInv'
    OBVIOUS
  <1>1. CoreStep \/ UNCHANGED core
    BY CoreSteps DEF IInv
  <1>2. TypeOK' /\ PhaseInv' /\ EntryInv' /\ BoundInv' /\ AloneInv'
    BY <1>1, TypeStep, PhaseStep, EntryStep, BoundStep, AloneStep DEF IInv
  <1>3. VerifyInv' /\ PrintInv' /\ RoomInv'
    BY VerifyStep, PrintStep, RoomStep DEF IInv
  <1>4. QED
    BY <1>2, <1>3 DEF IInv

\* So it holds throughout.
LEMMA Invariance == Spec => []IInv
  BY IInvInit, IInvStep, PTL DEF Spec

-----------------------------------------------------------------------------
(* What follows *)

\* Types: n stays a valid position of the map, entry or line the user programs
\* are at, and a handler works on a key of the program.
THEOREM TypeCorrect == Spec => []TypeOK
  BY Invariance, PTL DEF IInv

\* An increment of count() or do_sample is lost only to another CPU at work on
\* the same key, to verify_map's reset, or to a full hash map.
THEOREM OnlyOverlapLosesCorrect == Spec => []OnlyOverlapLoses
  <1>1. IInv => OnlyOverlapLoses
    BY DEF IInv, AloneInv
  <1>2. QED
    BY <1>1, Invariance, PTL

\* verify_map of open_tp never finds a 0 after the program's own open.
THEOREM VerifyCorrect == Spec => []VerifyNeverComplains
  <1>1. IInv => VerifyNeverComplains
    BY DEF IInv, VerifyInv, VerifyNeverComplains
  <1>2. QED
    BY <1>1, Invariance, PTL

\* print_ip_map never writes past counts[MAX_IPS], signal or not.
THEOREM PrintFits == Spec => []PrintFitsCounts
  <1>1. IInv => PrintFitsCounts
    <2> SUFFICES ASSUME IInv, Program = "sampleip" PROVE Cardinality(Fetched) <= MAX_IPS
      BY DEF PrintFitsCounts
    <2>1. /\ IsFiniteSet(present) /\ Cardinality(present) <= MAX_IPS
          /\ Fetched \subseteq present
      BY KeysFacts DEF IInv, RoomInv, Fetched
    <2>2. Cardinality(Fetched) <= Cardinality(present)
      BY <2>1, FS_Subset
    <2>3. Cardinality(Fetched) \in Nat /\ Cardinality(present) \in Nat /\ MAX_IPS \in Nat
      BY <2>1, FS_Subset, FS_CardinalityType, CountersAssumption
    <2>4. QED
      BY <2>1, <2>2, <2>3, SMT
  <1>2. QED
    BY <1>1, Invariance, PTL

\* sampleip prints the final counts when no signal interrupts it.
THEOREM PrintIsFinalCorrect == Spec => []PrintIsFinal
  <1>1. IInv => PrintIsFinal
    BY DEF IInv, PrintInv, PhaseInv, PrintIsFinal, Set
  <1>2. QED
    BY <1>1, Invariance, PTL

\* "IP hash was full" is printed whenever a sample was refused.
THEOREM DropIsReportedCorrect == Spec => []DropIsReported
  <1>1. IInv => DropIsReported
    <2> SUFFICES ASSUME IInv, main = "printed", signals = 0, dropped # {} PROVE warned
      BY DEF DropIsReported
    <2>1. Program = "sampleip" /\ present \subseteq Set(Ips) /\ Set(Ips) \subseteq Keys
      BY KeysFacts DEF IInv, PhaseInv
    <2>2. \A k \in Set(Ips) : report[k] = map[k]
      BY <2>1, SMT DEF IInv, PrintInv, Set
    <2>3. \A k \in present : map[k] > 0
      BY <2>1 DEF IInv, EntryInv
    <2>4. Fetched = present
      BY <2>1, <2>2, <2>3, SMT DEF IInv, RoomInv, Fetched
    <2>5. Cardinality(present) = MAX_IPS /\ warned = Full
      BY <2>1 DEF IInv, RoomInv
    <2>6. QED
      BY <2>4, <2>5 DEF Full
  <1>2. QED
    BY <1>1, Invariance, PTL

\* The maps implement the abstract tally: exact for sock, and for the other two
\* one that may forget but never exceeds the events, nor falls back to 0.
THEOREM TallyImplemented == Spec => ImplementsTally
  <1>1. Init => T!TallyInit
    BY DEF Init, T!TallyInit
  <1>2. IInv /\ [Next]_vars => [T!TallyNext]_(T!tallyVars)
    <2> SUFFICES ASSUME IInv, [Next]_vars PROVE [T!TallyNext]_(T!tallyVars)
      OBVIOUS
    <2> USE DEF IInv, TypeOK
    <2>0. UNCHANGED (IF Program = "sock" THEN "exact" ELSE "lossy")
      BY DEF Next, vars
    <2>1. ASSUME NEW c \in Cpus, NEW k \in Keys, LookupStep(c, k)
          PROVE  UNCHANGED T!tallyVars
      BY <2>0, <2>1 DEF LookupStep, T!tallyVars
    <2>2. ASSUME NEW c \in Cpus, Load(c) PROVE UNCHANGED T!tallyVars
      BY <2>0, <2>2 DEF Load, ghosts, T!tallyVars
    <2>3. ASSUME NEW c \in Cpus, Store(c) PROVE T!Count(key[c])
      <3>1. reg[c] + 1 \in 1..(hits[key[c]] + 1)
        BY <2>3, SMT DEF Store, BoundInv
      <3>2. Program # "sock"
        BY <2>3 DEF Store, PhaseInv
      <3>3. /\ hits' = [hits EXCEPT ![key[c]] = @ + 1]
            /\ map' = [map EXCEPT ![key[c]] = reg[c] + 1]
        BY <2>3 DEF Store, Finish
      <3>4. QED
        BY <3>1, <3>2, <3>3 DEF T!Count
    <2>4. ASSUME NEW c \in Cpus, Insert(c) PROVE T!Count(key[c]) \/ T!Forget(key[c])
      <3>1. Program # "sock" /\ hits' = [hits EXCEPT ![key[c]] = @ + 1]
        BY <2>4 DEF Insert, Finish, EntryInv
      <3>2. map' = map \/ map' = [map EXCEPT ![key[c]] = 1]
        BY <2>4 DEF Insert
      <3>3. 1 \in 1..(hits[key[c]] + 1)
        BY SMT
      <3>4. QED
        BY <3>1, <3>2, <3>3 DEF T!Count, T!Forget
    <2>5. ASSUME NEW k \in Keys, Packet(k) PROVE T!Count(k)
      <3>1. map[k] + 1 \in 1..(hits[k] + 1)
        BY SMT DEF BoundInv
      <3>2. QED
        BY <2>5, <3>1 DEF Packet, T!Count
    <2>6. ASSUME NEW k \in Keys, ResetStep(k) PROVE T!Reset(k)
      BY <2>6 DEF ResetStep, T!Reset
    <2>7. CASE UNCHANGED core
      BY <2>7 DEF core, T!tallyVars
    <2>8. CoreStep \/ UNCHANGED core
      BY CoreSteps
    <2>9. \A c \in Cpus : key[c] \in Keys
      OBVIOUS
    <2>10. QED
      BY <2>0, <2>1, <2>2, <2>3, <2>4, <2>5, <2>6, <2>7, <2>8, <2>9
      DEF CoreStep, T!TallyNext
  <1>3. QED
    BY <1>1, <1>2, Invariance, PTL DEF Spec, ImplementsTally, T!TallySpec
=============================================================================
