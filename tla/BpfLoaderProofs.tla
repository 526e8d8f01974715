-------------------------- MODULE BpfLoaderProofs --------------------------
(***************************************************************************)
(* The safety properties of BpfLoader, for any object files, any number of *)
(* loaders, and any number of loads: an inductive invariant, that every    *)
(* step preserves it, and the properties that follow from it.              *)
(***************************************************************************)
EXTENDS BpfLoader, TLAPS

\* Most steps are first-order reasoning about updates; the others name the solver.
USE ZenonT(40)

-----------------------------------------------------------------------------
(* Object files *)

\* What the proof uses of object files.  It is about constants alone, and part of
\* the invariant so that it is at hand in every step; AllFiles shows it.
FirstProg(f, s) ==
  LET p == NextProg(f, s)
  IN  /\ p \in Nat
      /\ p = 0 => \A t \in ProgSecs(f) : t < s
      /\ p # 0 => p \in ProgSecs(f) /\ p >= s /\ \A t \in ProgSecs(f) : t >= s => p <= t

FileFacts ==
  \A f \in Files :
    /\ ProgSecs(f) \subseteq Nat \ {0}
    /\ \A s \in Nat : FirstProg(f, s)
    /\ Has(f, "symtab") =>
         /\ NrMaps(f) \in Nat
         /\ \A k \in 1..NrMaps(f) : Offset(f, k) \in Nat /\ Position(f, Offset(f, k)) = k

-----------------------------------------------------------------------------
(* The invariant *)

Attaching == {"register64", "register", "readid", "perfopen", "setbpf"}
Loading   == Attaching \cup {"load"}
Before    == {"begin", "scan", "maps"}

\* Kinds of the variables.
MapData  == [offset : Nat, fd : Int]
Tables   == UNION {[D -> Nat] : D \in SUBSET Int}
Program  == [load : Nat, sec : Nat, imm : Seq(Int)]
Authors  == {<<>>} \cup (Loaders \X Nat)
Prefixes == {NoName, "__x64_", "events", "raw"}
Names    == {NoName} \cup UNION {{f[s].event.name : s \in ProgSecs(f)} : f \in Files}
Defined  == [name : Prefixes \X Names, kind : {NoName, "p", "r", "t"}, by : Authors]
Attached == [on : Defined, prog : Nat]

TypeInv ==
  /\ FileFacts
  /\ scene \in Scenes
  /\ kprobe_events \subseteq Defined
  /\ pc \in [Loaders -> Locations]
  /\ file \in [Loaders -> Files \cup {<<>>}]
  /\ starts \in [Loaders -> Nat]
  /\ loads \in [Loaders -> Nat]
  /\ sec \in [Loaders -> Nat]
  /\ ret \in [Loaders -> Int]
  /\ map_fd \in [Loaders -> Seq(Int)]
  /\ map_data \in [Loaders -> Seq(MapData)]
  /\ prog_array_fd \in [Loaders -> Int]
  /\ DOMAIN imm = Loaders
  /\ id \in [Loaders -> Defined]
  /\ maps \in [Loaders -> Seq(Tables)]
  /\ progs \in [Loaders -> Seq(Program)]
  /\ events \in [Loaders -> Seq(Attached)]

\* The programs of a call are those of the sections before the one at hand,
\* without a gap and in the order of the file.
Mine(l, k) == progs[l][k].load = loads[l]

OrderInv(l) ==
  /\ pc[l] = "idle" => progs[l] = <<>>
  /\ pc[l] # "idle" => file[l] \in Files
  /\ \A k \in DOMAIN progs[l] : /\ progs[l][k].sec \in ProgSecs(file[l])
                                /\ progs[l][k].load <= loads[l]
  /\ pc[l] \in Before => \A k \in DOMAIN progs[l] : ~Mine(l, k)
  /\ pc[l] \in Loading /\ sec[l] # 0 => sec[l] \in ProgSecs(file[l])
  /\ pc[l] = "load" /\ sec[l] # 0 =>
       \A k \in DOMAIN progs[l] : Mine(l, k) => progs[l][k].sec < sec[l]
  /\ pc[l] \in Attaching =>
       /\ Len(progs[l]) > 0 /\ sec[l] # 0
       /\ Mine(l, Len(progs[l])) /\ progs[l][Len(progs[l])].sec = sec[l]
  /\ \A j, k \in DOMAIN progs[l] :
       j < k /\ progs[l][j].load = progs[l][k].load => progs[l][j].sec < progs[l][k].sec

Loaded(l, s) == \E k \in DOMAIN progs[l] : progs[l][k].sec = s /\ Mine(l, k)

DoneInv(l) ==
  /\ pc[l] \in Loading =>
       \A s \in ProgSecs(file[l]) : sec[l] = 0 \/ s < sec[l] => Loaded(l, s)
  /\ pc[l] = "returned" /\ ret[l] = 0 => \A s \in ProgSecs(file[l]) : Loaded(l, s)

\* Every program is connected but the last one while it is being attached, or
\* after that has failed.
Settled(l) == pc[l] \in Before \cup {"load"} \/ (pc[l] = "returned" /\ ret[l] = 0)

ConnectInv(l) ==
  /\ \A k \in DOMAIN progs[l] : k < Len(progs[l]) \/ Settled(l) => Connected(l, k)
  /\ pc[l] = "setbpf" => Len(events[l]) > 0 /\ events[l][Len(events[l])].prog = 0

\* A jump table holds programs at their own indices, and the one that is being
\* filled only programs of this call.
HasArray(f, n) == \E j \in 1..n : MapDefs(f)[Offset(f, j)].type = "prog_array"

Filling(l) == pc[l] \in Loading \/ (pc[l] = "maps" /\ HasArray(file[l], sec[l] - 1))

TableInv(l) ==
  LET arr == prog_array_fd[l]
  IN  /\ pc[l] = "idle" => arr = -1
      /\ arr \in {-1} \cup (1..Len(maps[l]))
      /\ arr # -1 => HasArray(file[l], NrMaps(file[l]))
      /\ pc[l] = "maps" => sec[l] \in 1..(NrMaps(file[l]) + 1)
      /\ arr # -1 /\ Filling(l) => \A i \in DOMAIN maps[l][arr] : Mine(l, maps[l][arr][i])
      /\ \A m \in DOMAIN maps[l] : \A i \in DOMAIN maps[l][m] :
           LET k == maps[l][m][i]
           IN  /\ k \in DOMAIN progs[l]
               /\ IsTailCall(file[l][progs[l][k].sec].event)
               /\ file[l][progs[l][k].sec].event.idx = i

\* Map j has been created by this call: user code finds it at j, and no
\* program of an earlier call refers to it.
Ready(l, j) ==
  /\ j \in DOMAIN map_fd[l]
  /\ map_data[l][j].fd = map_fd[l][j]
  /\ map_fd[l][j] \in 1..Len(maps[l])
  /\ \A k \in DOMAIN progs[l] : ~Mine(l, k) =>
       \A n \in DOMAIN progs[l][k].imm : progs[l][k].imm[n] # map_fd[l][j]

\* A patched instruction has the descriptor of the map it names.
Sound(l, s, code) ==
  /\ code \in Seq(Int)
  /\ DOMAIN code = DOMAIN RelsOf(file[l], s)
  /\ \A n \in DOMAIN code : code[n] > 0 =>
       \E j \in 1..NrMaps(file[l]) : /\ Offset(file[l], j) = RelsOf(file[l], s)[n].value
                                     /\ code[n] = map_data[l][j].fd

FdInv(l) ==
  /\ pc[l] \in Loading \cup {"maps"} =>
       /\ Has(file[l], "symtab")
       /\ DOMAIN map_data[l] = 1..NrMaps(file[l])
       /\ \A j \in 1..NrMaps(file[l]) : map_data[l][j].offset = Offset(file[l], j)
  /\ pc[l] = "maps" => \A j \in 1..(sec[l] - 1) : Ready(l, j)
  /\ pc[l] \in Loading => /\ \A j \in 1..NrMaps(file[l]) : Ready(l, j)
                          /\ \A s \in ProgSecs(file[l]) : Sound(l, s, imm[l][s])

\* What programs refer to: maps of their own call, which user code knows too.
RefersTo(l, k) ==
  LET p == progs[l][k]
  IN  /\ \A n \in DOMAIN p.imm : p.imm[n] \in 1..Len(maps[l])
      /\ DOMAIN p.imm = DOMAIN RelsOf(file[l], p.sec)
      /\ Mine(l, k) /\ pc[l] \notin Before =>
           \A n \in DOMAIN p.imm :
             p.imm[n] = map_fd[l][Position(file[l], RelsOf(file[l], p.sec)[n].value)]
      /\ Mine(l, k) /\ pc[l] \in Loading =>
           \A n \in DOMAIN p.imm :
             \E j \in 1..NrMaps(file[l]) : p.imm[n] = map_data[l][j].fd

ShareInv(l) ==
  /\ \A k \in DOMAIN progs[l] : RefersTo(l, k)
  /\ \A j, k \in DOMAIN progs[l] : progs[l][j].load # progs[l][k].load =>
       \A m \in DOMAIN progs[l][j].imm, n \in DOMAIN progs[l][k].imm :
         progs[l][j].imm[m] # progs[l][k].imm[n]

\* The event that a program is to be attached to, or is.
Declared(l, on, ev) ==
  /\ on.name[2] = ev.name
  /\ Alone /\ ev.type \in Kprobe =>
       /\ on.kind = IF ev.type = "kprobe" THEN "p" ELSE "r"
       /\ on.by = <<l, starts[l]>>

EventInv(l) ==
  /\ pc[l] = "idle" \/ (pc[l] = "begin" /\ loads[l] = 1) => events[l] = <<>>
  /\ pc[l] # "idle" => loads[l] > 0
  /\ \A j \in DOMAIN events[l] : events[l][j].prog # 0 =>
       /\ events[l][j].prog \in DOMAIN progs[l]
       /\ Declared(l, events[l][j].on, file[l][progs[l][events[l][j].prog].sec].event)
  /\ pc[l] \in {"readid", "perfopen"} => Declared(l, id[l], Event(l))
  /\ pc[l] = "readid" /\ Alone /\ Event(l).type \in Kprobe => id[l] \in kprobe_events
  /\ pc[l] = "setbpf" => Declared(l, events[l][Len(events[l])].on, Event(l))

\* The kernel's list: one event of a name; and a single loader that has got
\* past the clearing of the list finds there what it has defined itself.
Cleared(l) ==
  \/ pc[l] \in Loading \cup {"scan", "maps"}
  \/ pc[l] \in {"begin", "returned"} /\ loads[l] > 1
  \/ pc[l] = "returned" /\ ret[l] = 0

ListInv ==
  /\ \A d, e \in kprobe_events : d.name = e.name => d = e
  /\ \A l \in Loaders \ scene.loaders : pc[l] = "idle"
  /\ Alone => \A l \in Loaders : Cleared(l) =>
       \A e \in kprobe_events : e.by = <<l, starts[l]>>

LoaderInv(l) == /\ OrderInv(l) /\ DoneInv(l) /\ ConnectInv(l) /\ TableInv(l)
                /\ FdInv(l) /\ ShareInv(l) /\ EventInv(l)

IInv == TypeInv /\ ListInv /\ \A l \in Loaders : LoaderInv(l)

-----------------------------------------------------------------------------
(* Steps *)

Act(l) == Start(l) \/ Reload(l) \/ Exit(l) \/ Step(l)

\* NextProg finds the first program section there is.
LEMMA NextProgFacts ==
  ASSUME TypeInv, NEW f \in Files, NEW s \in Nat
  PROVE  /\ ProgSecs(f) \subseteq Nat \ {0}
         /\ NextProg(f, s) \in Nat
         /\ NextProg(f, s) = 0 => \A t \in ProgSecs(f) : t < s
         /\ NextProg(f, s) # 0 => /\ NextProg(f, s) \in ProgSecs(f)
                                  /\ NextProg(f, s) >= s
                                  /\ \A t \in ProgSecs(f) : t >= s => NextProg(f, s) <= t
  BY DEF TypeInv, FileFacts, FirstProg

\* The k-th map of the sorted table is the k-th in the maps section.
LEMMA MapFacts ==
  ASSUME TypeInv, NEW f \in Files, Has(f, "symtab")
  PROVE  /\ NrMaps(f) \in Nat
         /\ \A k \in 1..NrMaps(f) : Offset(f, k) \in Nat /\ Position(f, Offset(f, k)) = k
  BY DEF TypeInv, FileFacts

\* Who changes which variable.
LEMMA Changes ==
  ASSUME NEW l \in Loaders, Act(l)
  PROVE  /\ scene' = scene
         /\ (file' = file /\ starts' = starts) \/ Start(l)
         /\ loads' = loads \/ Start(l) \/ Reload(l)
         /\ map_fd' = map_fd \/ Exit(l) \/ CreateMap(l) \/ MapRefused(l)
         /\ map_data' = map_data \/ Exit(l) \/ Scan(l) \/ CreateMap(l)
         /\ prog_array_fd' = prog_array_fd \/ Exit(l) \/ CreateMap(l)
         /\ imm' = imm \/ Exit(l) \/ Relocate(l)
         /\ id' = id \/ Exit(l) \/ LoadTracepoint(l) \/ RegisterSys(l) \/ RegisterPlain(l)
              \/ ReadId(l)
         /\ maps' = maps \/ Exit(l) \/ CreateMap(l) \/ LoadTailCall(l)
         /\ progs' = progs \/ Exit(l) \/ LoadProgram(l)
         /\ events' = events \/ Exit(l) \/ LoadRawTracepoint(l) \/ PerfOpen(l) \/ SetBpf(l)
         /\ kprobe_events' = kprobe_events \/ Begin(l) \/ RegisterSys(l) \/ RegisterPlain(l)
  <1> USE DEF local, tables, objects
  <1>1. CASE Start(l) BY <1>1 DEF Start
  <1>2. CASE Reload(l) BY <1>2 DEF Reload
  <1>3. CASE Exit(l) BY <1>3 DEF Exit
  <1>4. CASE Unreadable(l) \/ Begin(l) \/ Unloadable(l) \/ Scan(l)
    BY <1>4 DEF Unreadable, Begin, Unloadable, Scan
  <1>5. CASE CreateMap(l) \/ MapRefused(l) \/ Relocate(l)
    BY <1>5 DEF CreateMap, MapRefused, Relocate
  <1>6. CASE LoadRefused(l) \/ LoadPassive(l) \/ LoadMisnamed(l) \/ LoadTailCall(l)
    BY <1>6 DEF LoadRefused, LoadPassive, LoadMisnamed, LoadTailCall
  <1>7. CASE LoadRawTracepoint(l) \/ LoadTracepoint(l) \/ LoadKprobe(l)
    BY <1>7 DEF LoadRawTracepoint, LoadTracepoint, LoadKprobe
  <1>8. CASE RegisterSys(l) \/ RegisterPlain(l) \/ RegisterRefused(l) \/ ReadId(l)
    BY <1>8 DEF RegisterSys, RegisterPlain, RegisterRefused, ReadId
  <1>9. CASE NoSuchEvent(l) \/ PerfOpen(l) \/ SetBpf(l) \/ AttachRefused(l) \/ Finish(l)
    BY <1>9 DEF NoSuchEvent, PerfOpen, SetBpf, AttachRefused, Finish
  <1>10. QED
    BY <1>1, <1>2, <1>3, <1>4, <1>5, <1>6, <1>7, <1>8, <1>9 DEF Act, Step

\* The steps by what they do to the programs: load_bpf_file returns an error, a
\* program is being attached, or is connected and the loop goes on.
Gives(l) ==
  /\ pc[l] # "idle"
  /\ \E r \in {-1, 1} : Return(l, r)
  /\ UNCHANGED progs \/ LoadProgram(l)
  /\ UNCHANGED <<local, sec>>

Hops(l) ==
  /\ \E p \in Attaching : Goto(l, p)
  /\ (pc[l] \in Attaching /\ UNCHANGED progs) \/ LoadProgram(l)
  /\ UNCHANGED <<local, sec, ret>>

GoesOn(l) == LoadProgram(l) /\ Proceed(l) /\ UNCHANGED local

LEMMA Kinds ==
  ASSUME NEW l \in Loaders, Act(l)
  PROVE  \/ Start(l) \/ Reload(l) \/ Exit(l) \/ Begin(l) \/ Scan(l) \/ CreateMap(l)
         \/ Relocate(l) \/ SetBpf(l) \/ Finish(l) \/ Gives(l) \/ Hops(l) \/ GoesOn(l)
  <1> USE DEF objects, Attaching
  <1>1. CASE Unreadable(l) \/ Unloadable(l) \/ MapRefused(l) \/ LoadRefused(l)
             \/ RegisterRefused(l) \/ NoSuchEvent(l) \/ AttachRefused(l)
    <2>1. Gives(l)
      BY <1>1 DEF Gives, Unreadable, Unloadable, MapRefused, LoadRefused, Abandon,
         RegisterRefused, NoSuchEvent, AttachRefused
    <2>2. QED
      BY <2>1
  <1>2. CASE LoadMisnamed(l)
    BY <1>2 DEF LoadMisnamed, Gives, Abandon, LoadProgram, MayLoad
  <1>3. CASE LoadTailCall(l) \/ LoadRawTracepoint(l)
    BY <1>3 DEF LoadTailCall, LoadRawTracepoint, Gives, GoesOn, Abandon, LoadProgram, MayLoad
  <1>4. CASE LoadPassive(l)
    BY <1>4 DEF LoadPassive, GoesOn
  <1>5. CASE LoadTracepoint(l) \/ LoadKprobe(l)
    BY <1>5 DEF LoadTracepoint, LoadKprobe, Hops
  <1>6. CASE RegisterSys(l) \/ RegisterPlain(l) \/ ReadId(l) \/ PerfOpen(l)
    BY <1>6 DEF RegisterSys, RegisterPlain, ReadId, PerfOpen, Register, Hops
  <1>7. QED
    BY <1>1, <1>2, <1>3, <1>4, <1>5, <1>6 DEF Act, Step

\* A step leaves the other loaders alone.
LEMMA OthersPc ==
  ASSUME TypeInv, NEW l \in Loaders, NEW m \in Loaders, m # l, Act(l)
  PROVE  pc'[m] = pc[m] /\ sec'[m] = sec[m] /\ ret'[m] = ret[m]
  <1> USE DEF TypeInv, local
  <1>1. CASE Start(l) \/ Reload(l) \/ Exit(l)
    BY <1>1 DEF Start, Reload, Exit, Goto
  <1>2. CASE Begin(l) \/ Scan(l) \/ CreateMap(l) \/ Relocate(l)
    BY <1>2 DEF Begin, Scan, CreateMap, Relocate, Goto
  <1>3. CASE SetBpf(l) \/ GoesOn(l)
    BY <1>3 DEF SetBpf, GoesOn, Proceed, Goto
  <1>4. CASE Finish(l) \/ Gives(l) \/ Hops(l)
    BY <1>4 DEF Finish, Gives, Hops, Return, Goto
  <1>5. QED
    BY <1>1, <1>2, <1>3, <1>4, Kinds

LEMMA Others ==
  ASSUME TypeInv, NEW l \in Loaders, NEW m \in Loaders, m # l, Act(l)
  PROVE  /\ pc'[m] = pc[m] /\ sec'[m] = sec[m] /\ ret'[m] = ret[m]
         /\ file'[m] = file[m] /\ starts'[m] = starts[m] /\ loads'[m] = loads[m]
         /\ map_fd'[m] = map_fd[m] /\ map_data'[m] = map_data[m]
         /\ prog_array_fd'[m] = prog_array_fd[m] /\ imm'[m] = imm[m] /\ id'[m] = id[m]
         /\ maps'[m] = maps[m] /\ progs'[m] = progs[m] /\ events'[m] = events[m]
         /\ scene' = scene
  <1>0. /\ DOMAIN file = Loaders /\ DOMAIN starts = Loaders /\ DOMAIN loads = Loaders
        /\ DOMAIN map_fd = Loaders /\ DOMAIN map_data = Loaders
        /\ DOMAIN prog_array_fd = Loaders /\ DOMAIN imm = Loaders /\ DOMAIN id = Loaders
        /\ DOMAIN maps = Loaders /\ DOMAIN progs = Loaders /\ DOMAIN events = Loaders
    BY DEF TypeInv
  <1>1. file'[m] = file[m] /\ starts'[m] = starts[m] /\ loads'[m] = loads[m] /\ scene' = scene
    BY <1>0, Changes, SMT DEF Start, Reload
  <1>2. map_fd'[m] = map_fd[m]
    BY <1>0, Changes DEF Exit, CreateMap, MapRefused, SetMapFd
  <1>3. map_data'[m] = map_data[m]
    <2>1. CASE map_data' = map_data \/ Exit(l) \/ Scan(l)
      BY <1>0, <2>1 DEF Exit, Scan
    <2>2. CASE CreateMap(l)
      BY <1>0, <2>2 DEF CreateMap
    <2>3. QED
      BY <2>1, <2>2, Changes
  <1>4. prog_array_fd'[m] = prog_array_fd[m] /\ imm'[m] = imm[m]
    <2>1. prog_array_fd'[m] = prog_array_fd[m]
      <3>1. CASE prog_array_fd' = prog_array_fd \/ Exit(l)
        BY <1>0, <3>1 DEF Exit
      <3>2. CASE CreateMap(l)
        BY <1>0, <3>2 DEF CreateMap
      <3>3. QED
        BY <3>1, <3>2, Changes
    <2>2. imm'[m] = imm[m]
      BY <1>0, Changes, SMT DEF Exit, Relocate
    <2>3. QED
      BY <2>1, <2>2
  <1>5. id'[m] = id[m]
    <2>1. CASE id' = id \/ Exit(l) \/ LoadTracepoint(l)
      BY <1>0, <2>1 DEF Exit, LoadTracepoint
    <2>2. CASE RegisterSys(l) \/ RegisterPlain(l)
      BY <1>0, <2>2 DEF RegisterSys, RegisterPlain, Register
    <2>3. CASE ReadId(l)
      BY <1>0, <2>3 DEF ReadId
    <2>4. QED
      BY <2>1, <2>2, <2>3, Changes
  <1>6. maps'[m] = maps[m]
    <2>1. CASE maps' = maps \/ Exit(l) \/ CreateMap(l)
      BY <1>0, <2>1 DEF Exit, CreateMap
    <2>2. CASE LoadTailCall(l)
      BY <1>0, <2>2 DEF LoadTailCall, Populate
    <2>3. QED
      BY <2>1, <2>2, Changes
  <1>7. progs'[m] = progs[m]
    BY <1>0, Changes DEF Exit, LoadProgram
  <1>8. events'[m] = events[m]
    <2>1. CASE events' = events \/ Exit(l) \/ LoadRawTracepoint(l)
      BY <1>0, <2>1 DEF Exit, LoadRawTracepoint
    <2>2. CASE PerfOpen(l) \/ SetBpf(l)
      BY <1>0, <2>2 DEF PerfOpen, SetBpf
    <2>3. QED
      BY <2>1, <2>2, Changes
  <1>9. QED
    BY <1>1, <1>2, <1>3, <1>4, <1>5, <1>6, <1>7, <1>8, OthersPc

\* LoadProgram adds the program of the section at hand to the end.
LEMMA NewProgram ==
  ASSUME TypeInv, NEW l \in Loaders, OrderInv(l), FdInv(l), LoadProgram(l)
  PROVE  LET n == Len(progs[l])
         IN  /\ pc[l] = "load" /\ sec[l] # 0 /\ sec[l] \in ProgSecs(file[l]) /\ n \in Nat
             /\ file[l] \in Files
             /\ DOMAIN progs[l] = 1..n /\ DOMAIN progs'[l] = 1..(n + 1)
             /\ Len(progs'[l]) = n + 1
             /\ \A k \in 1..n : progs'[l][k] = progs[l][k]
             /\ progs'[l][n + 1] = [load |-> loads[l], sec |-> sec[l], imm |-> imm[l][sec[l]]]
             /\ progs' \in [Loaders -> Seq(Program)]
  <1> DEFINE n == Len(progs[l])
             p == [load |-> loads[l], sec |-> sec[l], imm |-> imm[l][sec[l]]]
  <1>1. pc[l] = "load" /\ sec[l] # 0 /\ sec[l] \in ProgSecs(file[l]) /\ file[l] \in Files
    BY DEF LoadProgram, MayLoad, OrderInv, Loading
  <1>2. p \in Program
    <2>1. imm[l][sec[l]] \in Seq(Int)
      BY <1>1 DEF FdInv, Sound, Loading
    <2>2. loads[l] \in Nat /\ sec[l] \in Nat
      BY DEF TypeInv
    <2>3. QED
      BY <2>1, <2>2 DEF Program
  <1>3. progs \in [Loaders -> Seq(Program)]
    BY DEF TypeInv
  <1>4. progs' = [progs EXCEPT ![l] = Append(progs[l], p)]
    BY <1>3 DEF LoadProgram
  <1> HIDE DEF p
  <1>5. progs[l] \in Seq(Program) /\ progs'[l] = Append(progs[l], p)
    BY <1>3, <1>4
  <1>6. progs' \in [Loaders -> Seq(Program)]
    BY <1>2, <1>3, <1>4, <1>5, SMT
  <1>7. /\ n \in Nat /\ DOMAIN progs[l] = 1..n /\ DOMAIN progs'[l] = 1..(n + 1)
        /\ Len(progs'[l]) = n + 1 /\ progs'[l][n + 1] = p
        /\ \A k \in 1..n : progs'[l][k] = progs[l][k]
    BY <1>2, <1>5, SMT
  <1>8. QED
    BY <1>1, <1>6, <1>7 DEF p

\* Jump tables: an empty one, and one with another entry.
LEMMA TableFacts ==
  /\ <<>> \in Tables
  /\ \A t \in Tables : /\ DOMAIN t \subseteq Int
                       /\ \A i \in Int, n \in Nat :
                            [k \in DOMAIN t \cup {i} |-> IF k = i THEN n ELSE t[k]] \in Tables
  <1>1. \A D \in SUBSET Int : \A t \in [D -> Nat] : t \in Tables
    BY DEF Tables
  <1>2. <<>> \in [{} -> Nat]
    BY SMT
  <1>3. ASSUME NEW t \in Tables
        PROVE  /\ DOMAIN t \subseteq Int
               /\ \A i \in Int, n \in Nat :
                    [k \in DOMAIN t \cup {i} |-> IF k = i THEN n ELSE t[k]] \in Tables
    <2>1. PICK D \in SUBSET Int : t \in [D -> Nat]
      BY DEF Tables
    <2>2. ASSUME NEW i \in Int, NEW n \in Nat
          PROVE  [k \in DOMAIN t \cup {i} |-> IF k = i THEN n ELSE t[k]] \in Tables
      <3>1. DOMAIN t \cup {i} \in SUBSET Int
        BY <2>1
      <3>2. [k \in DOMAIN t \cup {i} |-> IF k = i THEN n ELSE t[k]]
              \in [DOMAIN t \cup {i} -> Nat]
        BY <2>1
      <3>3. QED
        BY <1>1, <3>1, <3>2
    <2>3. QED
      BY <2>1, <2>2
  <1>4. QED
    BY <1>1, <1>2, <1>3

\* What the event of a section is made of.
LEMMA EventFacts ==
  ASSUME NEW f \in Files, NEW s \in ProgSecs(f)
  PROVE  f[s].event.type \in EventTypes /\ f[s].event.idx \in Int /\ f[s].event.name \in Names
  <1>1. f[s].event.type \in EventTypes /\ f[s].event.idx \in Int
    BY FilesAssumption DEF WellFormed
  <1>2. f[s].event.name \in Names
    BY SMT DEF Names
  <1>3. QED
    BY <1>1, <1>2

\* Events are defined by nobody or by a loader.
LEMMA AuthorFacts == <<>> \in Authors /\ \A l \in Loaders, n \in Nat : <<l, n>> \in Authors
  <1>1. <<>> \in Authors
    BY DEF Authors
  <1>2. \A l \in Loaders, n \in Nat : <<l, n>> \in Authors
    BY DEF Authors
  <1>3. QED
    BY <1>1, <1>2

\* Every step keeps the kinds of the variables.
LEMMA TypeStep ==
  ASSUME TypeInv, NEW l \in Loaders, LoaderInv(l), Act(l)
  PROVE  TypeInv'
  <1> USE DEF local
  <1>0. OrderInv(l) /\ FdInv(l) /\ TableInv(l) /\ ConnectInv(l)
    BY DEF LoaderInv
  <1>1. pc' \in [Loaders -> Locations]
    <2>1. pc \in [Loaders -> Locations]
      BY DEF TypeInv
    <2>2. CASE Start(l) \/ Reload(l) \/ Exit(l) \/ Begin(l) \/ Scan(l) \/ Relocate(l)
      BY <2>1, <2>2 DEF Start, Reload, Exit, Begin, Scan, Relocate, Goto, Locations
    <2>3. CASE CreateMap(l)
      BY <2>1, <2>3 DEF CreateMap
    <2>4. CASE SetBpf(l) \/ GoesOn(l)
      BY <2>1, <2>4 DEF SetBpf, GoesOn, Proceed, Goto, Locations
    <2>5. CASE Finish(l) \/ Gives(l)
      BY <2>1, <2>5 DEF Finish, Gives, Return, Goto, Locations
    <2>6. CASE Hops(l)
      BY <2>1, <2>6 DEF Hops, Goto, Attaching, Locations
    <2>7. QED
      BY <2>2, <2>3, <2>4, <2>5, <2>6, Kinds
  <1>2. /\ scene' \in Scenes /\ starts' \in [Loaders -> Nat] /\ loads' \in [Loaders -> Nat]
        /\ file' \in [Loaders -> Files \cup {<<>>}]
    <2>1. /\ scene \in Scenes /\ starts \in [Loaders -> Nat] /\ loads \in [Loaders -> Nat]
          /\ file \in [Loaders -> Files \cup {<<>>}] /\ scene' = scene
      BY Changes DEF TypeInv
    <2>2. scene.files \subseteq Files
      BY <2>1 DEF Files
    <2>3. file' \in [Loaders -> Files \cup {<<>>}]
      BY <2>1, <2>2, Changes DEF Start
    <2>4. starts' \in [Loaders -> Nat] /\ loads' \in [Loaders -> Nat]
      <3>1. CASE Start(l)
        BY <2>1, <3>1, SMT DEF Start
      <3>2. CASE starts' = starts /\ (loads' = loads \/ Reload(l))
        BY <2>1, <3>2, SMT DEF Reload
      <3>3. QED
        BY <3>1, <3>2, Changes
    <2>5. QED
      BY <2>1, <2>3, <2>4
  <1>3. sec' \in [Loaders -> Nat]
    <2>1. sec \in [Loaders -> Nat]
      BY DEF TypeInv
    <2>2. CASE sec' = sec \/ Exit(l) \/ Scan(l) \/ CreateMap(l)
      BY <2>1, <2>2, SMT DEF Exit, Scan, CreateMap
    <2>3. CASE Relocate(l)
      <3>1. file[l] \in Files
        BY <1>0, <2>3 DEF Relocate, OrderInv
      <3>2. NextProg(file[l], 1) \in Nat
        BY <3>1, NextProgFacts
      <3>3. QED
        BY <2>1, <2>3, <3>2 DEF Relocate
    <2>4. CASE SetBpf(l) \/ GoesOn(l)
      <3>1. file[l] \in Files
        BY <1>0, <2>4 DEF SetBpf, GoesOn, LoadProgram, MayLoad, OrderInv
      <3>2. sec[l] + 1 \in Nat
        BY <2>1, SMT
      <3>3. NextProg(file[l], sec[l] + 1) \in Nat
        BY <3>1, <3>2, NextProgFacts
      <3>4. sec' = [sec EXCEPT ![l] = NextProg(file[l], sec[l] + 1)]
        BY <2>1, <2>4 DEF SetBpf, GoesOn, Proceed
      <3>5. QED
        BY <2>1, <3>3, <3>4
    <2>5. QED
      BY <2>2, <2>3, <2>4, Kinds DEF Start, Reload, Begin, Finish, Gives, Hops
  <1>4. ret' \in [Loaders -> Int]
    <2>1. ret \in [Loaders -> Int]
      BY DEF TypeInv
    <2>2. CASE Exit(l) \/ Relocate(l)
      BY <2>1, <2>2, SMT DEF Exit, Relocate
    <2>3. CASE SetBpf(l) \/ GoesOn(l)
      BY <2>1, <2>3, SMT DEF SetBpf, GoesOn, Proceed
    <2>4. CASE Finish(l) \/ Gives(l)
      BY <2>1, <2>4, SMT DEF Finish, Gives, Return
    <2>5. QED
      BY <2>1, <2>2, <2>3, <2>4, Kinds DEF Start, Reload, Begin, Scan, CreateMap, Hops
  <1>5. progs' \in [Loaders -> Seq(Program)]
    <2>1. progs \in [Loaders -> Seq(Program)]
      BY DEF TypeInv
    <2>0. <<>> \in Seq(Program)
      BY SMT
    <2>2. CASE progs' = progs \/ Exit(l)
      BY <2>0, <2>1, <2>2 DEF Exit
    <2>3. CASE LoadProgram(l)
      BY <1>0, <2>3, NewProgram
    <2>4. QED
      BY <2>2, <2>3, Changes
  <1>6. DOMAIN imm' = Loaders
    BY Changes DEF Exit, Relocate, TypeInv
  <1>7. prog_array_fd' \in [Loaders -> Int] /\ map_fd' \in [Loaders -> Seq(Int)]
    <2>1. /\ prog_array_fd \in [Loaders -> Int] /\ map_fd \in [Loaders -> Seq(Int)]
          /\ maps[l] \in Seq(Tables) /\ sec[l] \in Nat
      BY DEF TypeInv
    <2>2. CASE Exit(l) \/ (prog_array_fd' = prog_array_fd /\ map_fd' = map_fd)
      <3> DEFINE nil == <<>>
      <3>1. nil \in Seq(Int)
        BY SMT
      <3>2. Exit(l) => /\ map_fd' = [map_fd EXCEPT ![l] = nil]
                       /\ prog_array_fd' = [prog_array_fd EXCEPT ![l] = -1]
        BY DEF Exit
      <3> HIDE DEF nil
      <3>3. map_fd' \in [Loaders -> Seq(Int)]
        BY <2>1, <2>2, <3>1, <3>2
      <3>4. prog_array_fd' \in [Loaders -> Int]
        BY <2>1, <2>2, <3>2, SMT
      <3>5. QED
        BY <3>3, <3>4
    <2>3. ASSUME NEW fd \in Int, SetMapFd(l, fd), pc[l] = "maps"
          PROVE  map_fd' \in [Loaders -> Seq(Int)]
      <3> DEFINE t == map_fd[l]
                 u == [k \in DOMAIN t \cup {sec[l]} |-> IF k = sec[l] THEN fd ELSE t[k]]
      <3>1. map_fd' = [map_fd EXCEPT ![l] = u] /\ t \in Seq(Int)
        BY <2>1, <2>3 DEF SetMapFd
      <3>2. sec[l] \in 1..(Len(t) + 1)
        <4>1. sec[l] >= 1 /\ DOMAIN t = 1..Len(t) /\ Len(t) \in Nat
          <5>1. sec[l] \in 1..(NrMaps(file[l]) + 1)
            BY <1>0, <2>3 DEF TableInv
          <5>2. QED
            BY <2>1, <3>1, <5>1, SMT
        <4>2. sec[l] > 1 => sec[l] - 1 \in 1..(sec[l] - 1)
          BY <2>1, SMT
        <4>3. sec[l] > 1 => sec[l] - 1 \in DOMAIN t
          BY <1>0, <2>3, <4>2 DEF FdInv, Ready
        <4>4. QED
          BY <2>1, <4>1, <4>3, SMT
      <3>3. \E n \in Nat : DOMAIN t \cup {sec[l]} = 1..n
        <4>1. DOMAIN t = 1..Len(t) /\ Len(t) \in Nat
          BY <3>1, SMT
        <4>2. CASE sec[l] = Len(t) + 1
          BY <4>1, <4>2, SMT
        <4>3. CASE sec[l] # Len(t) + 1
          <5>1. sec[l] \in 1..Len(t)
            BY <3>2, <4>1, <4>3, SMT
          <5>2. DOMAIN t \cup {sec[l]} = 1..Len(t)
            BY <4>1, <5>1
          <5>3. QED
            BY <4>1, <5>2
        <4>4. QED
          BY <4>2, <4>3
      <3>4. u \in Seq(Int)
        <4>1. PICK n \in Nat : DOMAIN t \cup {sec[l]} = 1..n
          BY <3>3
        <4>2. u \in [1..n -> Int]
          BY <2>3, <3>1, <4>1, SMT
        <4> HIDE DEF u
        <4>3. QED
          BY <4>2, SMT
      <3>5. QED
        BY <2>1, <3>1, <3>4
    <2>4. CASE CreateMap(l) \/ MapRefused(l)
      <3>1. NewFd(l) \in Int
        BY <2>1, SMT DEF NewFd
      <3>2. prog_array_fd' \in [Loaders -> Int]
        BY <2>1, <2>4, <3>1 DEF CreateMap, MapRefused
      <3>3. map_fd' \in [Loaders -> Seq(Int)]
        BY <2>3, <2>4, <3>1, SMT DEF CreateMap, MapRefused
      <3>4. QED
        BY <3>2, <3>3
    <2>5. QED
      BY <2>2, <2>4, Changes
  <1>8. map_data' \in [Loaders -> Seq(MapData)]
    <2>1. map_data \in [Loaders -> Seq(MapData)] /\ maps[l] \in Seq(Tables)
      BY DEF TypeInv
    <2>2. CASE map_data' = map_data \/ Exit(l)
      <3> DEFINE nil == <<>>
      <3>1. nil \in Seq(MapData)
        BY SMT
      <3>2. Exit(l) => map_data' = [map_data EXCEPT ![l] = nil]
        BY DEF Exit
      <3> HIDE DEF nil
      <3>3. CASE map_data' = [map_data EXCEPT ![l] = nil]
        BY <2>1, <3>1, <3>3
      <3>4. CASE map_data' = map_data
        BY <2>1, <3>4
      <3>5. QED
        BY <2>2, <3>2, <3>3, <3>4
    <2>3. CASE Scan(l)
      <3> DEFINE u == [k \in 1..NrMaps(file[l]) |-> [offset |-> Offset(file[l], k), fd |-> -1]]
      <3>1. file[l] \in Files /\ Has(file[l], "symtab") /\ map_data' = [map_data EXCEPT ![l] = u]
        BY <1>0, <2>3 DEF Scan, Loadable, OrderInv
      <3>2. NrMaps(file[l]) \in Nat
        BY <3>1, MapFacts
      <3>3. \A k \in 1..NrMaps(file[l]) : Offset(file[l], k) \in Nat
        BY <3>1, MapFacts
      <3>4. u \in Seq(MapData)
        <4>1. u \in [1..NrMaps(file[l]) -> MapData]
          BY <3>3, SMT DEF MapData
        <4> HIDE DEF u
        <4>2. QED
          BY <3>2, <4>1, SMT
      <3>5. QED
        BY <2>1, <3>1, <3>4
    <2>4. CASE CreateMap(l)
      <3>1. sec[l] \in DOMAIN map_data[l] /\ NewFd(l) \in Int
        <4>1. pc[l] = "maps" /\ sec[l] <= NrMaps(file[l]) /\ sec[l] \in 1..(NrMaps(file[l]) + 1)
          BY <1>0, <2>4 DEF CreateMap, TableInv
        <4>2. DOMAIN map_data[l] = 1..NrMaps(file[l]) /\ NrMaps(file[l]) \in Nat
          BY <1>0, <4>1, MapFacts DEF FdInv, OrderInv
        <4>3. NewFd(l) \in Int
          BY <2>1, SMT DEF NewFd
        <4>4. QED
          BY <4>1, <4>2, <4>3, SMT
      <3> DEFINE fd == NewFd(l)
                 u == [map_data[l] EXCEPT ![sec[l]].fd = fd]
      <3>2. map_data' = [map_data EXCEPT ![l] = u]
        BY <2>1, <2>4 DEF CreateMap
      <3>3. map_data[l] \in Seq(MapData) /\ map_data[l][sec[l]] \in MapData
        BY <2>1, <3>1, SMT
      <3>4. [map_data[l][sec[l]] EXCEPT !.fd = fd] \in MapData
        BY <3>1, <3>3 DEF MapData
      <3> HIDE DEF fd
      <3>5. u \in Seq(MapData)
        BY <3>1, <3>3, <3>4, SMT
      <3>6. QED
        BY <2>1, <3>2, <3>5
    <2>5. QED
      BY <2>2, <2>3, <2>4, Changes
  <1>9. maps' \in [Loaders -> Seq(Tables)]
    <2>1. maps \in [Loaders -> Seq(Tables)] /\ progs[l] \in Seq(Program)
      BY DEF TypeInv
    <2>2. CASE maps' = maps \/ Exit(l)
      <3>1. <<>> \in Seq(Tables)
        BY SMT
      <3>2. QED
        BY <2>1, <2>2, <3>1 DEF Exit
    <2>3. CASE CreateMap(l)
      <3>1. maps' = [maps EXCEPT ![l] = Append(maps[l], <<>>)]
        BY <2>1, <2>3 DEF CreateMap
      <3>2. Append(maps[l], <<>>) \in Seq(Tables)
        BY <2>1, TableFacts, SMT
      <3>3. QED
        BY <2>1, <3>1, <3>2
    <2>4. CASE LoadTailCall(l) /\ prog_array_fd[l] > 0 /\ Populate(l)
      <3> DEFINE a == prog_array_fd[l]
                 t == maps[l][a]
                 i == Event(l).idx
                 u == [k \in DOMAIN t \cup {i} |-> IF k = i THEN Len(progs[l]) + 1 ELSE t[k]]
      <3>1. file[l] \in Files /\ sec[l] \in ProgSecs(file[l]) /\ a \in DOMAIN maps[l]
        <4>1. LoadProgram(l)
          BY <2>4 DEF LoadTailCall
        <4>2. a # -1
          BY <1>0, <2>4, SMT DEF LoadTailCall
        <4>3. a \in 1..Len(maps[l])
          BY <1>0, <4>2 DEF TableInv
        <4>4. QED
          <5>1. a \in DOMAIN maps[l]
            BY <2>1, <4>3, SMT
          <5>2. file[l] \in Files /\ sec[l] \in ProgSecs(file[l])
            BY <1>0, <4>1, NewProgram
          <5>3. QED
            BY <5>1, <5>2
      <3>2. i \in Int
        BY <3>1, EventFacts DEF Event
      <3>3. t \in Tables /\ Len(progs[l]) + 1 \in Nat
        BY <2>1, <3>1, SMT
      <3>4. u \in Tables
        BY <3>2, <3>3, TableFacts
      <3>5. maps' = [maps EXCEPT ![l] = [maps[l] EXCEPT ![a] = u]]
        BY <2>1, <2>4 DEF Populate
      <3> HIDE DEF u, a
      <3>6. [maps[l] EXCEPT ![a] = u] \in Seq(Tables)
        BY <2>1, <3>1, <3>4, SMT
      <3>7. QED
        BY <2>1, <3>5, <3>6
    <2>5. QED
      BY <2>2, <2>3, <2>4, Changes DEF LoadTailCall
  <1>10. id' \in [Loaders -> Defined] /\ kprobe_events' \subseteq Defined
    <2>1. /\ id \in [Loaders -> Defined] /\ kprobe_events \subseteq Defined
          /\ starts[l] \in Nat
      BY DEF TypeInv
    <2>2. CASE Exit(l) \/ ReadId(l)
      <3>1. Nothing \in Defined
        <4> DEFINE nil == <<>>
        <4>1. nil \in Authors /\ NoName \in Names /\ NoName \in Prefixes
          BY AuthorFacts DEF Names, Prefixes
        <4>2. Nothing = [name |-> <<NoName, NoName>>, kind |-> NoName, by |-> nil]
          BY DEF Nothing
        <4> HIDE DEF nil
        <4>3. QED
          BY <4>1, <4>2 DEF Defined
      <3>2. QED
        BY <2>1, <2>2, <3>1 DEF Exit, ReadId
    <2>3. CASE Begin(l)
      BY <2>1, <2>3 DEF Begin, ClearKprobes
    <2>4. ASSUME LoadTracepoint(l) \/ pc[l] \in {"register64", "register"}
          PROVE  /\ file[l] \in Files /\ sec[l] \in ProgSecs(file[l])
                 /\ Event(l).name \in Names
      <3>1. CASE LoadTracepoint(l)
        <4>1. LoadProgram(l)
          BY <3>1 DEF LoadTracepoint
        <4>2. file[l] \in Files /\ sec[l] \in ProgSecs(file[l])
          BY <1>0, <4>1, NewProgram
        <4>3. QED
          BY <4>2, EventFacts DEF Event
      <3>2. CASE pc[l] \in {"register64", "register"}
        <4>1. file[l] \in Files /\ sec[l] \in ProgSecs(file[l])
          BY <1>0, <3>2 DEF OrderInv, Loading, Attaching
        <4>2. QED
          BY <4>1, EventFacts DEF Event
      <3>3. QED
        BY <2>4, <3>1, <3>2
    <2>5. CASE LoadTracepoint(l)
      <3>1. [name |-> <<"events", Event(l).name>>, kind |-> "t", by |-> <<>>] \in Defined
        <4> DEFINE nil == <<>>
        <4>1. nil \in Authors /\ Event(l).name \in Names
          BY <2>4, <2>5, AuthorFacts
        <4> HIDE DEF nil
        <4>0. "events" \in Prefixes
          BY DEF Prefixes
        <4>2. [name |-> <<"events", Event(l).name>>, kind |-> "t", by |-> nil] \in Defined
          BY <4>0, <4>1 DEF Defined
        <4>3. QED
          BY <4>2 DEF nil
      <3>2. QED
        BY <2>1, <2>5, <3>1 DEF LoadTracepoint
    <2>6. ASSUME NEW prefix \in Prefixes, Register(l, prefix), pc[l] \in {"register64", "register"}
          PROVE  id' \in [Loaders -> Defined] /\ kprobe_events' \subseteq Defined
      <3> DEFINE new == [name |-> <<prefix, Event(l).name>>, kind |-> ProbeKind(Event(l)),
                         by |-> <<l, starts[l]>>]
      <3>1. new \in Defined
        <4>1. Event(l).name \in Names /\ ProbeKind(Event(l)) \in {"p", "r"}
          BY <2>4, <2>6 DEF ProbeKind
        <4>2. <<l, starts[l]>> \in Authors /\ <<prefix, Event(l).name>> \in Prefixes \X Names
          BY <2>1, <2>6, <4>1, AuthorFacts
        <4>3. QED
          BY <4>1, <4>2 DEF Defined
      <3>2. /\ id' = [id EXCEPT ![l] = new]
            /\ kprobe_events' = {e \in kprobe_events : e.name # new.name} \cup {new}
        BY <2>6 DEF Register
      <3> HIDE DEF new
      <3>3. QED
        BY <2>1, <3>1, <3>2
    <2>7. CASE RegisterSys(l) \/ RegisterPlain(l)
      <3>1. \/ Register(l, "__x64_") /\ pc[l] = "register64"
            \/ Register(l, NoName) /\ pc[l] = "register"
            \/ kprobe_events' = kprobe_events /\ id' = id
        BY <2>7 DEF RegisterSys, RegisterPlain
      <3>2. NoName \in Prefixes /\ "__x64_" \in Prefixes
        BY DEF Prefixes
      <3>3. QED
        BY <2>1, <2>6, <3>1, <3>2
    <2>8. QED
      BY <2>1, <2>2, <2>3, <2>5, <2>7, Changes DEF Exit, ReadId, Begin, LoadTracepoint
  <1>11. events' \in [Loaders -> Seq(Attached)]
    <2>1. /\ events \in [Loaders -> Seq(Attached)] /\ progs[l] \in Seq(Program)
          /\ id[l] \in Defined
      BY DEF TypeInv
    <2>2. CASE events' = events \/ Exit(l)
      <3>1. <<>> \in Seq(Attached)
        BY SMT
      <3>2. QED
        BY <2>1, <2>2, <3>1 DEF Exit
    <2>3. ASSUME NEW a \in Attached, events' = [events EXCEPT ![l] = Append(@, a)]
          PROVE  events' \in [Loaders -> Seq(Attached)]
      <3>1. Append(events[l], a) \in Seq(Attached)
        BY <2>1, SMT
      <3>2. QED
        BY <2>1, <2>3, <3>1
    <2>4. CASE LoadRawTracepoint(l)
      <3>1. LoadProgram(l)
        BY <2>4 DEF LoadRawTracepoint
      <3>2. file[l] \in Files /\ sec[l] \in ProgSecs(file[l])
        BY <1>0, <3>1, NewProgram
      <3>3. Event(l).name \in Names
        BY <3>2, EventFacts DEF Event
      <3> DEFINE d == [name |-> <<"raw", Event(l).name>>, kind |-> "t", by |-> <<>>]
                 a == [on |-> d, prog |-> Len(progs[l]) + 1]
      <3>4. d \in Defined
        <4> DEFINE nil == <<>>
        <4>1. nil \in Authors
          BY AuthorFacts
        <4> HIDE DEF nil
        <4>0. "raw" \in Prefixes
          BY DEF Prefixes
        <4>2. [name |-> <<"raw", Event(l).name>>, kind |-> "t", by |-> nil] \in Defined
          BY <3>3, <4>0, <4>1 DEF Defined
        <4>3. QED
          BY <4>2 DEF nil
      <3>5. a \in Attached
        BY <2>1, <3>4, SMT DEF Attached
      <3>6. events' = [events EXCEPT ![l] = Append(@, a)] \/ events' = events
        BY <2>4 DEF LoadRawTracepoint
      <3> HIDE DEF a
      <3>7. QED
        BY <2>1, <2>3, <3>5, <3>6
    <2>5. CASE PerfOpen(l)
      <3>1. [on |-> id[l], prog |-> 0] \in Attached
        BY <2>1 DEF Attached
      <3>2. QED
        BY <2>3, <2>5, <3>1 DEF PerfOpen
    <2>6. CASE SetBpf(l)
      <3> DEFINE n == Len(events[l])
                 a == [events[l][n] EXCEPT !.prog = Len(progs[l])]
      <3>1. events[l] \in Seq(Attached) /\ n > 0 /\ n \in DOMAIN events[l]
        BY <1>0, <2>1, <2>6, SMT DEF SetBpf, ConnectInv
      <3>2. events[l][n] \in Attached
        BY <3>1, SMT
      <3>3. a \in Attached
        BY <2>1, <3>2, SMT DEF Attached
      <3>4. events' = [events EXCEPT ![l] = [events[l] EXCEPT ![n] = a]]
        BY <2>1, <2>6 DEF SetBpf
      <3> HIDE DEF a, n
      <3>5. [events[l] EXCEPT ![n] = a] \in Seq(Attached)
        BY <3>1, <3>3, SMT
      <3>6. QED
        BY <2>1, <3>4, <3>5
    <2>7. QED
      BY <2>2, <2>4, <2>5, <2>6, Changes
  <1>12. QED
    BY <1>1, <1>2, <1>3, <1>4, <1>5, <1>6, <1>7, <1>8, <1>9, <1>10, <1>11 DEF TypeInv

-----------------------------------------------------------------------------
(* Programs in the order of the file *)

\* What a step that loads a program leaves in the list of programs.
LEMMA NewOrder ==
  ASSUME TypeInv, NEW l \in Loaders, OrderInv(l), FdInv(l), LoadProgram(l), UNCHANGED local
  PROVE  /\ \A k \in DOMAIN progs'[l] : /\ progs'[l][k].sec \in ProgSecs(file'[l])
                                        /\ progs'[l][k].load <= loads'[l]
                                        /\ progs'[l][k].load = loads'[l]
                                             => progs'[l][k].sec <= sec[l]
         /\ \A j, k \in DOMAIN progs'[l] :
              j < k /\ progs'[l][j].load = progs'[l][k].load
                => progs'[l][j].sec < progs'[l][k].sec
         /\ Len(progs'[l]) > 0
         /\ progs'[l][Len(progs'[l])].load = loads'[l]
         /\ progs'[l][Len(progs'[l])].sec = sec[l]
  <1> DEFINE n == Len(progs[l])
  <1>1. /\ pc[l] = "load" /\ sec[l] # 0 /\ sec[l] \in ProgSecs(file[l]) /\ n \in Nat
        /\ file[l] \in Files
        /\ DOMAIN progs[l] = 1..n /\ DOMAIN progs'[l] = 1..(n + 1)
        /\ Len(progs'[l]) = n + 1
        /\ \A k \in 1..n : progs'[l][k] = progs[l][k]
        /\ progs'[l][n + 1].load = loads[l] /\ progs'[l][n + 1].sec = sec[l]
    <2>1. progs'[l][n + 1] = [load |-> loads[l], sec |-> sec[l], imm |-> imm[l][sec[l]]]
      BY NewProgram
    <2>2. progs'[l][n + 1].load = loads[l] /\ progs'[l][n + 1].sec = sec[l]
      BY <2>1, SMT
    <2>3. QED
      BY <2>2, NewProgram
  <1>2. file'[l] = file[l] /\ loads'[l] = loads[l] /\ loads[l] \in Nat /\ sec[l] \in Nat
    BY DEF local, TypeInv
  <1>3. /\ \A k \in 1..n : /\ progs[l][k].sec \in ProgSecs(file[l])
                           /\ progs[l][k].load <= loads[l]
                           /\ progs[l][k].load = loads[l] => progs[l][k].sec < sec[l]
        /\ \A j, k \in 1..n : j < k /\ progs[l][j].load = progs[l][k].load
                                => progs[l][j].sec < progs[l][k].sec
    BY <1>1 DEF OrderInv, Mine
  <1>4. \A k \in 1..n : progs[l][k].sec \in Nat /\ progs[l][k].load \in Nat
    <2>1. progs[l] \in Seq(Program)
      BY DEF TypeInv
    <2>2. \A k \in 1..n : progs[l][k] \in Program
      BY <1>1, <2>1, SMT
    <2>3. QED
      BY <2>2 DEF Program
  <1>5. \A k \in 1..(n + 1) : k \in 1..n \/ k = n + 1
    BY <1>1, SMT
  <1> HIDE DEF n
  <1>6. \A k \in DOMAIN progs'[l] : /\ progs'[l][k].sec \in ProgSecs(file'[l])
                                    /\ progs'[l][k].load <= loads'[l]
                                    /\ progs'[l][k].load = loads'[l]
                                         => progs'[l][k].sec <= sec[l]
    <2>1. \A k \in 1..n : /\ progs'[l][k].sec \in ProgSecs(file'[l])
                          /\ progs'[l][k].load <= loads'[l]
                          /\ progs'[l][k].load = loads'[l] => progs'[l][k].sec <= sec[l]
      BY <1>1, <1>2, <1>3, <1>4, SMT
    <2>2. /\ progs'[l][n + 1].sec \in ProgSecs(file'[l])
          /\ progs'[l][n + 1].load <= loads'[l]
          /\ progs'[l][n + 1].load = loads'[l] => progs'[l][n + 1].sec <= sec[l]
      BY <1>1, <1>2, SMT
    <2>3. QED
      BY <1>1, <1>5, <2>1, <2>2
  <1>7. ASSUME NEW j \in 1..(n + 1), NEW k \in 1..(n + 1), j < k,
               progs'[l][j].load = progs'[l][k].load
        PROVE  progs'[l][j].sec < progs'[l][k].sec
    <2>1. j \in 1..n
      BY <1>1, <1>7, SMT
    <2>2. CASE k \in 1..n
      BY <1>1, <1>3, <1>7, <2>1, <2>2
    <2>3. CASE k = n + 1
      BY <1>1, <1>3, <1>7, <2>1, <2>3
    <2>4. QED
      BY <1>5, <2>2, <2>3
  <1>8. QED
    BY <1>1, <1>2, <1>6, <1>7, SMT

LEMMA OrderStep ==
  ASSUME TypeInv, NEW l \in Loaders, LoaderInv(l), Act(l)
  PROVE  OrderInv(l)'
  <1> DEFINE n == Len(progs[l])
  <1>0. OrderInv(l) /\ FdInv(l)
    BY DEF LoaderInv
  <1>1. /\ pc \in [Loaders -> Locations] /\ file \in [Loaders -> Files \cup {<<>>}]
        /\ loads \in [Loaders -> Nat] /\ sec \in [Loaders -> Nat] /\ DOMAIN progs = Loaders
        /\ progs[l] \in Seq(Program) /\ DOMAIN progs[l] = 1..n /\ n \in Nat
    BY SMT DEF TypeInv
  <1>2. \A k \in 1..n : progs[l][k].sec \in Nat /\ progs[l][k].load \in Nat
    <2>1. \A k \in 1..n : progs[l][k] \in Program
      BY <1>1, SMT
    <2>2. QED
      BY <2>1 DEF Program
  <1> USE DEF Before, Loading, Attaching, Goto
  <1>3. CASE Start(l)
    <2>1. /\ pc[l] = "idle" /\ pc'[l] = "begin" /\ progs' = progs /\ file'[l] \in scene.files
      BY <1>1, <1>3 DEF Start, objects
    <2>2. file'[l] \in Files /\ progs'[l] = <<>>
      BY <1>0, <2>1 DEF OrderInv, Files, TypeInv
    <2>3. DOMAIN progs'[l] = {}
      BY <2>2, SMT
    <2>4. QED
      BY <2>1, <2>2, <2>3 DEF OrderInv
  <1>4. CASE Reload(l)
    <2>1. /\ pc[l] = "returned" /\ pc'[l] = "begin" /\ progs' = progs /\ file' = file
          /\ loads'[l] = loads[l] + 1
      BY <1>1, <1>4 DEF Reload, objects
    <2>2. \A k \in 1..n : progs[l][k].load < loads'[l]
      <3>1. \A k \in 1..n : progs[l][k].load <= loads[l]
        BY <1>0, <1>1 DEF OrderInv
      <3>2. QED
        BY <1>1, <1>2, <2>1, <3>1, SMT
    <2>3. \A k \in 1..n : progs[l][k].load <= loads'[l] /\ progs[l][k].load # loads'[l]
      BY <1>1, <1>2, <2>1, <2>2, SMT
    <2>4. QED
      BY <1>0, <1>1, <2>1, <2>3 DEF OrderInv, Mine
  <1>5. CASE Exit(l)
    <2>1. pc'[l] = "idle" /\ progs'[l] = <<>>
      BY <1>1, <1>5 DEF Exit
    <2>2. DOMAIN progs'[l] = {}
      BY <2>1, SMT
    <2>3. QED
      BY <2>1, <2>2 DEF OrderInv
  <1>6. CASE Begin(l) \/ Scan(l) \/ CreateMap(l)
    <2>1. /\ pc[l] \in Before /\ pc'[l] \in Before /\ progs' = progs /\ file' = file
          /\ loads' = loads
      BY <1>1, <1>6 DEF Begin, Scan, CreateMap, objects, local
    <2>2. QED
      BY <1>0, <1>1, <2>1 DEF OrderInv, Mine
  <1>7. CASE Relocate(l)
    <2>1. /\ pc[l] = "maps" /\ pc'[l] = "load" /\ progs' = progs /\ file' = file
          /\ loads' = loads /\ sec'[l] = NextProg(file[l], 1)
      BY <1>1, <1>7 DEF Relocate, objects, local
    <2>2. sec'[l] # 0 => sec'[l] \in ProgSecs(file[l])
      <3>1. file[l] \in Files /\ 1 \in Nat
        BY <1>0, <2>1 DEF OrderInv
      <3>2. QED
        BY <2>1, <3>1, NextProgFacts
    <2>3. QED
      BY <1>0, <1>1, <2>1, <2>2 DEF OrderInv, Mine
  <1>8. CASE SetBpf(l)
    <2>1. /\ pc[l] = "setbpf" /\ pc'[l] = "load" /\ progs' = progs /\ file' = file
          /\ loads' = loads /\ sec'[l] = NextProg(file[l], sec[l] + 1) /\ sec[l] + 1 \in Nat
      BY <1>1, <1>8, SMT DEF SetBpf, Proceed, objects, local
    <2>2. sec'[l] # 0 => sec'[l] \in ProgSecs(file[l]) /\ sec'[l] >= sec[l] + 1 /\ sec'[l] \in Nat
      <3>1. file[l] \in Files
        BY <1>0, <2>1 DEF OrderInv
      <3>2. QED
        BY <2>1, <3>1, NextProgFacts
    <2>3. \A k \in 1..n : Mine(l, k) => progs[l][k].sec <= sec[l]
      <3>1. n > 0 /\ Mine(l, n) /\ progs[l][n].sec = sec[l]
        BY <1>0, <2>1 DEF OrderInv
      <3>2. \A k \in 1..n : k < n \/ k = n
        <4>1. n \in Nat
          BY <1>1
        <4> HIDE DEF n
        <4>2. QED
          BY <4>1, SMT
      <3>3. \A k \in 1..n : k < n /\ Mine(l, k) => progs[l][k].sec < progs[l][n].sec
        <4>1. n \in 1..n
          BY <1>1, <3>1, SMT
        <4>2. QED
          BY <1>0, <1>1, <3>1, <4>1 DEF OrderInv, Mine
      <3>4. SUFFICES ASSUME NEW k \in 1..n, Mine(l, k) PROVE progs[l][k].sec <= sec[l]
        OBVIOUS
      <3>5. progs[l][k].sec < sec[l] \/ progs[l][k].sec = sec[l]
        BY <3>1, <3>2, <3>3, <3>4
      <3>6. progs[l][k].sec \in Nat /\ sec[l] \in Nat
        BY <1>1, <1>2, <3>4
      <3>7. QED
        BY <3>5, <3>6, SMT
    <2>4. \A k \in 1..n : Mine(l, k) /\ sec'[l] # 0 => progs[l][k].sec < sec'[l]
      BY <1>1, <1>2, <2>2, <2>3, SMT
    <2>5. QED
      BY <1>0, <1>1, <2>1, <2>2, <2>4 DEF OrderInv, Mine
  <1>9. CASE Finish(l) \/ (Gives(l) /\ UNCHANGED progs)
    <2>1. /\ pc[l] # "idle" /\ pc'[l] = "returned" /\ progs' = progs /\ file' = file
          /\ loads' = loads
      BY <1>1, <1>9 DEF Finish, Gives, Return, objects, local
    <2>2. QED
      BY <1>0, <1>1, <2>1 DEF OrderInv, Mine
  <1>10. CASE Gives(l) /\ LoadProgram(l)
    <2>1. pc'[l] = "returned" /\ UNCHANGED local /\ pc[l] # "idle" /\ file'[l] = file[l]
      BY <1>1, <1>10 DEF Gives, Return, local
    <2>2. QED
      BY <1>0, <1>10, <2>1, NewOrder DEF OrderInv
  <1>11. CASE Hops(l) /\ pc[l] \in Attaching /\ UNCHANGED progs
    <2>1. /\ pc'[l] \in Attaching /\ pc'[l] # "idle" /\ progs' = progs /\ file' = file
          /\ loads' = loads /\ sec' = sec
      BY <1>1, <1>11 DEF Hops, local
    <2>2. QED
      BY <1>0, <1>1, <1>11, <2>1 DEF OrderInv, Mine
  <1>12. CASE Hops(l) /\ LoadProgram(l)
    <2>1. /\ pc'[l] \in Attaching /\ pc'[l] # "idle" /\ UNCHANGED local /\ sec' = sec
          /\ file'[l] = file[l]
      BY <1>1, <1>12 DEF Hops, local
    <2>2. file[l] \in Files /\ sec[l] \in ProgSecs(file[l]) /\ sec[l] # 0
      BY <1>0, <1>12, NewProgram
    <2>3. QED
      BY <1>0, <1>12, <2>1, <2>2, NewOrder DEF OrderInv, Mine
  <1>13. CASE GoesOn(l)
    <2>1. /\ pc'[l] = "load" /\ UNCHANGED local /\ LoadProgram(l) /\ file'[l] = file[l]
          /\ sec'[l] = NextProg(file[l], sec[l] + 1) /\ sec[l] + 1 \in Nat
      BY <1>1, <1>13, SMT DEF GoesOn, Proceed, local
    <2>2. file[l] \in Files
      BY <1>0, <2>1, NewProgram
    <2>3. sec'[l] # 0 => sec'[l] \in ProgSecs(file[l]) /\ sec'[l] >= sec[l] + 1 /\ sec'[l] \in Nat
      BY <2>1, <2>2, NextProgFacts
    <2>4. \A k \in DOMAIN progs'[l] : progs'[l][k].sec \in ProgSecs(file'[l])
                                      /\ (progs'[l][k].load = loads'[l] => progs'[l][k].sec <= sec[l])
      BY <1>0, <2>1, NewOrder
    <2>5. ProgSecs(file[l]) \subseteq Nat
      BY <2>2, NextProgFacts
    <2>6. \A k \in DOMAIN progs'[l] : progs'[l][k].load = loads'[l] /\ sec'[l] # 0
                                        => progs'[l][k].sec < sec'[l]
      BY <1>1, <2>1, <2>3, <2>4, <2>5, SMT
    <2>7. QED
      BY <1>0, <2>1, <2>2, <2>3, <2>6, NewOrder DEF OrderInv, Mine
  <1>14. QED
    BY <1>3, <1>4, <1>5, <1>6, <1>7, <1>8, <1>9, <1>10, <1>11, <1>12, <1>13, Kinds
       DEF Gives, Hops

-----------------------------------------------------------------------------
(* No program is left out *)

LEMMA DoneStep ==
  ASSUME TypeInv, NEW l \in Loaders, LoaderInv(l), Act(l)
  PROVE  DoneInv(l)'
  <1>0. OrderInv(l) /\ FdInv(l) /\ DoneInv(l)
    BY DEF LoaderInv
  <1>1. /\ pc \in [Loaders -> Locations] /\ ret \in [Loaders -> Int]
        /\ sec \in [Loaders -> Nat] /\ DOMAIN progs = Loaders
    BY DEF TypeInv
  <1> USE DEF Loading, Attaching, Goto
  <1>2. CASE Start(l) \/ Reload(l) \/ Exit(l) \/ Begin(l) \/ Scan(l) \/ CreateMap(l)
    <2>1. CASE CreateMap(l)
      <3>1. pc'[l] = "maps"
        BY <2>1 DEF CreateMap
      <3>2. QED
        BY <3>1 DEF DoneInv
    <2>2. CASE ~CreateMap(l)
      <3>1. pc'[l] \in {"begin", "idle", "scan", "maps"}
        BY <1>1, <1>2, <2>2 DEF Start, Reload, Exit, Begin, Scan
      <3>2. QED
        BY <3>1 DEF DoneInv
    <2>3. QED
      BY <2>1, <2>2
  <1>3. CASE Relocate(l)
    <2>1. /\ pc[l] = "maps" /\ pc'[l] = "load" /\ file' = file
          /\ sec'[l] = NextProg(file[l], 1) /\ file[l] \in Files
      BY <1>0, <1>1, <1>3 DEF Relocate, local, OrderInv
    <2>2. \A s \in ProgSecs(file[l]) : /\ s \in Nat \ {0} /\ sec'[l] \in Nat
                                       /\ sec'[l] = 0 => s < 1
                                       /\ sec'[l] # 0 => (s >= 1 => sec'[l] <= s)
      BY <2>1, NextProgFacts, SMT
    <2>3. \A s \in ProgSecs(file[l]) : ~(sec'[l] = 0 \/ s < sec'[l])
      BY <2>2, SMT
    <2>4. QED
      BY <2>1, <2>3 DEF DoneInv
  <1>4. CASE SetBpf(l)
    <2>1. /\ pc[l] = "setbpf" /\ pc'[l] = "load" /\ file' = file /\ progs' = progs
          /\ loads' = loads /\ sec[l] \in Nat /\ sec[l] + 1 \in Nat
          /\ sec'[l] = NextProg(file[l], sec[l] + 1) /\ file[l] \in Files
      BY <1>0, <1>1, <1>4, SMT DEF SetBpf, Proceed, objects, local, OrderInv
    <2>2. \A s \in ProgSecs(file[l]) : /\ s \in Nat /\ sec'[l] \in Nat
                                       /\ sec'[l] = 0 => s < sec[l] + 1
                                       /\ sec'[l] # 0 => (s >= sec[l] + 1 => sec'[l] <= s)
      BY <2>1, NextProgFacts
    <2>3. \A s \in ProgSecs(file[l]) : sec'[l] = 0 \/ s < sec'[l] => s < sec[l] \/ s = sec[l]
      BY <2>1, <2>2, SMT
    <2>4. \A s \in ProgSecs(file[l]) : s < sec[l] => Loaded(l, s)
      BY <1>0, <2>1 DEF DoneInv
    <2>5. Loaded(l, sec[l])
      <3>1. Len(progs[l]) > 0 /\ Mine(l, Len(progs[l])) /\ progs[l][Len(progs[l])].sec = sec[l]
        BY <1>0, <2>1 DEF OrderInv
      <3>2. Len(progs[l]) \in DOMAIN progs[l]
        BY <3>1, SMT DEF TypeInv
      <3>3. QED
        BY <3>1, <3>2 DEF Loaded
    <2>6. \A s \in ProgSecs(file[l]) : sec'[l] = 0 \/ s < sec'[l] => Loaded(l, s)
      BY <2>3, <2>4, <2>5
    <2>7. QED
      BY <2>1, <2>6 DEF DoneInv, Loaded, Mine
  <1>5. CASE Finish(l)
    <2>1. /\ pc[l] = "load" /\ sec[l] = 0 /\ pc'[l] = "returned" /\ file' = file
          /\ progs' = progs /\ loads' = loads
      BY <1>1, <1>5 DEF Finish, Return, objects, local
    <2>2. QED
      BY <1>0, <2>1 DEF DoneInv, Loaded, Mine
  <1>6. CASE Gives(l)
    <2>1. pc'[l] = "returned" /\ ret'[l] # 0
      BY <1>1, <1>6, SMT DEF Gives, Return
    <2>2. QED
      BY <2>1 DEF DoneInv
  <1>7. CASE Hops(l) /\ pc[l] \in Attaching /\ UNCHANGED progs
    <2>1. pc'[l] \in Attaching /\ progs' = progs /\ file' = file /\ loads' = loads /\ sec' = sec
      BY <1>1, <1>7 DEF Hops, local
    <2>2. QED
      BY <1>0, <1>7, <2>1 DEF DoneInv, Loaded, Mine
  <1>8. CASE LoadProgram(l) /\ UNCHANGED local /\ (Hops(l) \/ GoesOn(l))
    <2> DEFINE n == Len(progs[l])
    <2>1. /\ pc[l] = "load" /\ sec[l] # 0 /\ file[l] \in Files /\ n \in Nat
          /\ DOMAIN progs[l] = 1..n /\ DOMAIN progs'[l] = 1..(n + 1)
          /\ \A k \in 1..n : progs'[l][k] = progs[l][k]
      BY <1>0, <1>8, NewProgram
    <2>2. progs'[l][n + 1] = [load |-> loads[l], sec |-> sec[l], imm |-> imm[l][sec[l]]]
      BY <1>0, <1>8, NewProgram
    <2>3. file'[l] = file[l] /\ loads'[l] = loads[l] /\ sec[l] \in Nat /\ sec[l] + 1 \in Nat
      BY <1>1, <1>8, SMT DEF local
    <2> HIDE DEF n
    <2>4. \A s \in ProgSecs(file[l]) : s < sec[l] => Loaded(l, s)'
      <3>1. \A s \in ProgSecs(file[l]) : s < sec[l] => Loaded(l, s)
        BY <1>0, <2>1 DEF DoneInv
      <3>2. 1..n \subseteq 1..(n + 1)
        BY <2>1, SMT
      <3>3. QED
        BY <2>1, <2>3, <3>1, <3>2, SMT DEF Loaded, Mine
    <2>5. \E k \in DOMAIN progs'[l] : progs'[l][k].sec = sec[l] /\ progs'[l][k].load = loads'[l]
      <3>1. n + 1 \in 1..(n + 1) /\ progs'[l][n + 1].sec = sec[l] /\ progs'[l][n + 1].load = loads'[l]
        BY <2>1, <2>2, <2>3, SMT
      <3>2. QED
        BY <2>1, <3>1
    <2>6. CASE Hops(l)
      <3>1. pc'[l] \in Attaching /\ sec'[l] = sec[l]
        BY <1>1, <2>6 DEF Hops
      <3>2. QED
        BY <2>1, <2>3, <2>4, <3>1 DEF DoneInv
    <2>7. CASE GoesOn(l)
      <3>1. pc'[l] = "load" /\ sec'[l] = NextProg(file[l], sec[l] + 1)
        BY <1>1, <2>7 DEF GoesOn, Proceed
      <3>2. \A s \in ProgSecs(file[l]) : /\ s \in Nat /\ sec'[l] \in Nat
                                         /\ sec'[l] = 0 => s < sec[l] + 1
                                         /\ sec'[l] # 0 => (s >= sec[l] + 1 => sec'[l] <= s)
        <4> DEFINE f == file[l]
                   q == sec[l] + 1
        <4>1. f \in Files /\ q \in Nat /\ sec'[l] = NextProg(f, q)
          BY <2>1, <2>3, <3>1
        <4> HIDE DEF q
        <4>2. /\ ProgSecs(f) \subseteq Nat \ {0} /\ sec'[l] \in Nat
              /\ sec'[l] = 0 => \A s \in ProgSecs(f) : s < q
              /\ sec'[l] # 0 => \A s \in ProgSecs(f) : s >= q => sec'[l] <= s
          BY <4>1, NextProgFacts
        <4>3. QED
          BY <4>2 DEF q
      <3>3. \A s \in ProgSecs(file[l]) : sec'[l] = 0 \/ s < sec'[l] => s < sec[l] \/ s = sec[l]
        BY <2>3, <3>2, SMT
      <3>4. \A s \in ProgSecs(file[l]) : sec'[l] = 0 \/ s < sec'[l] => Loaded(l, s)'
        BY <2>4, <2>5, <3>3 DEF Loaded, Mine
      <3>5. QED
        BY <2>3, <3>1, <3>4 DEF DoneInv
    <2>8. QED
      BY <1>8, <2>6, <2>7
  <1>9. QED
    BY <1>2, <1>3, <1>4, <1>5, <1>6, <1>7, <1>8, Kinds DEF Hops, GoesOn

-----------------------------------------------------------------------------
(* What is connected stays connected *)

\* populate_prog_array changes one entry of one map.
LEMMA PopulateFacts ==
  ASSUME TypeInv, NEW l \in Loaders, OrderInv(l), FdInv(l), TableInv(l), LoadProgram(l),
         Populate(l), prog_array_fd[l] > 0
  PROVE  LET a == prog_array_fd[l]
         IN  /\ a \in DOMAIN maps[l] /\ DOMAIN maps'[l] = DOMAIN maps[l]
             /\ Len(maps'[l]) = Len(maps[l])
             /\ \A m \in DOMAIN maps[l] : m # a => maps'[l][m] = maps[l][m]
             /\ DOMAIN maps'[l][a] = DOMAIN maps[l][a] \cup {Event(l).idx}
             /\ maps'[l][a][Event(l).idx] = Len(progs[l]) + 1
             /\ \A i \in DOMAIN maps[l][a] : i # Event(l).idx => maps'[l][a][i] = maps[l][a][i]
  <1> DEFINE a == prog_array_fd[l]
             t == maps[l][a]
             u == [k \in DOMAIN t \cup {Event(l).idx} |->
                     IF k = Event(l).idx THEN Len(progs[l]) + 1 ELSE t[k]]
  <1>1. maps \in [Loaders -> Seq(Tables)] /\ prog_array_fd[l] \in Int
    BY DEF TypeInv
  <1>2. a \in 1..Len(maps[l])
    <2>1. prog_array_fd[l] \in {-1} \cup (1..Len(maps[l]))
      BY DEF TableInv
    <2>2. QED
      BY <2>1, SMT
  <1>3. maps[l] \in Seq(Tables) /\ DOMAIN maps[l] = 1..Len(maps[l]) /\ DOMAIN maps = Loaders
    BY <1>1, SMT
  <1>4. maps' = [maps EXCEPT ![l] = [maps[l] EXCEPT ![a] = u]]
    BY <1>1 DEF Populate
  <1> HIDE DEF u
  <1>5. maps'[l] = [maps[l] EXCEPT ![a] = u]
    BY <1>3, <1>4
  <1>6. u \in Tables
    <2>1. t \in Tables
      BY <1>2, <1>3, SMT
    <2>2. Event(l).idx \in Int
      BY EventFacts, NewProgram DEF Event
    <2>3. Len(progs[l]) + 1 \in Nat
      BY NewProgram, SMT
    <2>4. QED
      BY <2>1, <2>2, <2>3, TableFacts DEF u
  <1>7. maps'[l] \in Seq(Tables) /\ DOMAIN maps'[l] = DOMAIN maps[l] /\ maps'[l][a] = u
        /\ \A m \in DOMAIN maps[l] : m # a => maps'[l][m] = maps[l][m]
    BY <1>2, <1>3, <1>5, <1>6, SMT
  <1>8. Len(maps'[l]) = Len(maps[l])
    BY <1>3, <1>5, <1>6, <1>7, SMT
  <1>9. /\ DOMAIN u = DOMAIN t \cup {Event(l).idx} /\ u[Event(l).idx] = Len(progs[l]) + 1
        /\ \A i \in DOMAIN t : i # Event(l).idx => u[i] = t[i]
    BY DEF u
  <1>10. QED
    BY <1>2, <1>3, <1>7, <1>8, <1>9

\* As long as the process lives its programs stay, ...
LEMMA ProgramsStay ==
  ASSUME TypeInv, NEW l \in Loaders, LoaderInv(l), Act(l), ~Exit(l)
  PROVE  \A k \in DOMAIN progs[l] : k \in DOMAIN progs'[l] /\ progs'[l][k] = progs[l][k]
  <1>1. CASE progs' = progs
    BY <1>1
  <1>2. CASE LoadProgram(l)
    <2> DEFINE n == Len(progs[l])
    <2>1. /\ n \in Nat /\ DOMAIN progs[l] = 1..n /\ DOMAIN progs'[l] = 1..(n + 1)
          /\ \A k \in 1..n : progs'[l][k] = progs[l][k]
      BY <1>2, NewProgram DEF LoaderInv
    <2> HIDE DEF n
    <2>2. 1..n \subseteq 1..(n + 1)
      BY <2>1, SMT
    <2>3. QED
      BY <2>1, <2>2
  <1>3. QED
    BY <1>1, <1>2, Changes

\* ... the events with a program too, ...
LEMMA EventsStay ==
  ASSUME TypeInv, NEW l \in Loaders, LoaderInv(l), Act(l), ~Exit(l)
  PROVE  \A j \in DOMAIN events[l] :
           j \in DOMAIN events'[l] /\ (events[l][j].prog # 0 => events'[l][j] = events[l][j])
  <1>1. /\ events[l] \in Seq(Attached) /\ DOMAIN events = Loaders
        /\ events \in [Loaders -> Seq(Attached)]
    BY DEF TypeInv
  <1>2. CASE events' = events
    BY <1>2
  <1>3. CASE LoadRawTracepoint(l) \/ PerfOpen(l)
    <2>1. CASE events' = events
      BY <2>1
    <2>2. CASE \E e : events' = [events EXCEPT ![l] = Append(events[l], e)]
      <3>1. PICK e : events'[l] = Append(events[l], e)
        BY <1>1, <2>2
      <3>2. \A j \in DOMAIN events[l] : j \in DOMAIN events'[l] /\ events'[l][j] = events[l][j]
        BY <1>1, <3>1, SMT
      <3>3. QED
        BY <3>2
    <2>3. QED
      BY <1>1, <1>3, <2>1, <2>2 DEF LoadRawTracepoint, PerfOpen
  <1>4. CASE SetBpf(l)
    <2> DEFINE n == Len(events[l])
               v == Len(progs[l])
    <2>1. events[l][n].prog = 0
      BY <1>4 DEF SetBpf, LoaderInv, ConnectInv
    <2>2. events' = [events EXCEPT ![l] = [events[l] EXCEPT ![n] = [events[l][n] EXCEPT !.prog = v]]]
      BY <1>1, <1>4 DEF SetBpf
    <2> HIDE DEF n, v
    <2>3. events'[l] = [events[l] EXCEPT ![n] = [events[l][n] EXCEPT !.prog = v]]
      BY <1>1, <2>2
    <2>4. \A j \in DOMAIN events[l] : j \in DOMAIN events'[l]
                                      /\ (j # n => events'[l][j] = events[l][j])
      BY <2>3
    <2>5. QED
      BY <2>1, <2>4
  <1>5. QED
    BY <1>2, <1>3, <1>4, Changes

\* ... and the entries of the jump tables.  An entry that is written was free:
\* the programs in the table at hand are of other sections, and these have
\* other indices.
LEMMA EntriesStay ==
  ASSUME TypeInv, NEW l \in Loaders, LoaderInv(l), Act(l), ~Exit(l)
  PROVE  \A m \in DOMAIN maps[l] :
           /\ m \in DOMAIN maps'[l]
           /\ \A i \in DOMAIN maps[l][m] :
                i \in DOMAIN maps'[l][m] /\ maps'[l][m][i] = maps[l][m][i]
  <1>0. OrderInv(l) /\ FdInv(l) /\ TableInv(l)
    BY DEF LoaderInv
  <1>1. CASE maps' = maps
    BY <1>1
  <1>2. CASE CreateMap(l)
    <2>1. maps[l] \in Seq(Tables) /\ DOMAIN maps = Loaders
      BY DEF TypeInv
    <2> DEFINE nil == <<>>
    <2>2. maps'[l] = Append(maps[l], nil)
      BY <1>2, <2>1 DEF CreateMap
    <2> HIDE DEF nil
    <2>3. \A m \in DOMAIN maps[l] : m \in DOMAIN maps'[l] /\ maps'[l][m] = maps[l][m]
      BY <2>1, <2>2, SMT
    <2>4. QED
      BY <2>3
  <1>3. CASE LoadTailCall(l) /\ maps' # maps
    <2> DEFINE a == prog_array_fd[l]
    <2>1. Populate(l) /\ a > 0 /\ LoadProgram(l) /\ IsTailCall(Event(l))
      BY <1>3 DEF LoadTailCall
    <2>2. /\ pc[l] = "load" /\ sec[l] # 0 /\ sec[l] \in ProgSecs(file[l]) /\ file[l] \in Files
      BY <1>0, <2>1, NewProgram
    <2>3. /\ a \in DOMAIN maps[l] /\ DOMAIN maps'[l] = DOMAIN maps[l]
          /\ \A m \in DOMAIN maps[l] : m # a => maps'[l][m] = maps[l][m]
          /\ DOMAIN maps'[l][a] = DOMAIN maps[l][a] \cup {Event(l).idx}
          /\ \A i \in DOMAIN maps[l][a] : i # Event(l).idx => maps'[l][a][i] = maps[l][a][i]
      BY <1>0, <2>1, PopulateFacts
    <2>4. ASSUME NEW i \in DOMAIN maps[l][a] PROVE i # Event(l).idx
      <3> DEFINE k == maps[l][a][i]
      <3>1. a # -1
        BY <2>1, SMT DEF TypeInv
      <3>2. Mine(l, k)
        BY <1>0, <2>2, <3>1 DEF TableInv, Filling, Loading
      <3>3. /\ k \in DOMAIN progs[l] /\ IsTailCall(file[l][progs[l][k].sec].event)
            /\ file[l][progs[l][k].sec].event.idx = i
        BY <1>0, <2>3 DEF TableInv
      <3>4. progs[l][k].sec < sec[l] /\ progs[l][k].sec \in ProgSecs(file[l])
        BY <1>0, <2>2, <3>2, <3>3 DEF OrderInv
      <3>5. progs[l][k].sec # sec[l]
        <4>1. progs[l][k].sec \in Nat /\ sec[l] \in Nat
          <5>1. ProgSecs(file[l]) \subseteq Nat
            BY <2>2, NextProgFacts
          <5>2. QED
            BY <3>4, <5>1 DEF TypeInv
        <4>2. \A x, y \in Nat : x < y => x # y
          BY SMT
        <4>3. QED
          BY <3>4, <4>1, <4>2
      <3>6. QED
        BY <2>1, <2>2, <3>3, <3>4, <3>5, FilesAssumption DEF WellFormed, Event
    <2>5. QED
      BY <2>3, <2>4
  <1>4. QED
    BY <1>1, <1>2, <1>3, Changes

LEMMA StaysConnected ==
  ASSUME TypeInv, NEW l \in Loaders, LoaderInv(l), Act(l), ~Exit(l), ~Start(l),
         NEW k \in DOMAIN progs[l], Connected(l, k)
  PROVE  Connected(l, k)'
  <1>1. file'[l] = file[l]
    BY Changes
  <1>2. progs'[l][k].sec = progs[l][k].sec
    BY ProgramsStay
  <1>3. k # 0
    BY SMT DEF TypeInv
  <1> DEFINE e == file[l][progs[l][k].sec].event
  <1>4. CASE \E j \in DOMAIN events[l] : events[l][j].prog = k
    <2>1. PICK j \in DOMAIN events[l] : events[l][j].prog = k
      BY <1>4
    <2>2. j \in DOMAIN events'[l] /\ events'[l][j].prog = k
      BY <1>3, <2>1, EventsStay
    <2>3. QED
      BY <2>2 DEF Connected
  <1>5. CASE IsTailCall(e) /\ \E m \in DOMAIN maps[l] :
               e.idx \in DOMAIN maps[l][m] /\ maps[l][m][e.idx] = k
    <2>1. PICK m \in DOMAIN maps[l] : e.idx \in DOMAIN maps[l][m] /\ maps[l][m][e.idx] = k
      BY <1>5
    <2>2. m \in DOMAIN maps'[l] /\ e.idx \in DOMAIN maps'[l][m] /\ maps'[l][m][e.idx] = k
      BY <2>1, EntriesStay
    <2>3. QED
      BY <1>1, <1>2, <1>5, <2>2 DEF Connected
  <1>6. CASE e.type \in Passive \/ (e.type \in Numbered /\ e.name = NoName /\ e.idx = -1)
    BY <1>1, <1>2, <1>6 DEF Connected
  <1>7. QED
    BY <1>4, <1>5, <1>6 DEF Connected

\* The loop goes on after a program the caller attaches, after a tail call that
\* has been put in the table, and after a raw tracepoint that is open.
LEMMA GoesOnWhen ==
  ASSUME TypeInv, NEW l \in Loaders, Act(l), GoesOn(l)
  PROVE  \/ LoadPassive(l)
         \/ LoadTailCall(l) /\ prog_array_fd[l] > 0 /\ Populate(l)
         \/ /\ LoadRawTracepoint(l)
            /\ \E on : events' = [events EXCEPT ![l] =
                                    Append(@, [on |-> on, prog |-> Len(progs[l]) + 1])]
  <1>1. pc[l] = "load" /\ sec[l] # 0 /\ pc'[l] = "load" /\ pc \in [Loaders -> Locations]
    BY DEF GoesOn, LoadProgram, MayLoad, Proceed, Goto, TypeInv
  <1>2. LoadPassive(l) \/ LoadTailCall(l) \/ LoadRawTracepoint(l)
    <2>1. ~Start(l) /\ ~Reload(l) /\ ~Exit(l) /\ ~Unreadable(l) /\ ~Begin(l) /\ ~Unloadable(l)
          /\ ~Scan(l) /\ ~CreateMap(l) /\ ~MapRefused(l) /\ ~Relocate(l)
      BY <1>1 DEF Start, Reload, Exit, Unreadable, Begin, Unloadable, Scan, CreateMap,
         MapRefused, Relocate, Goto
    <2>2. ~RegisterSys(l) /\ ~RegisterPlain(l) /\ ~RegisterRefused(l) /\ ~ReadId(l)
          /\ ~NoSuchEvent(l) /\ ~PerfOpen(l) /\ ~SetBpf(l) /\ ~AttachRefused(l) /\ ~Finish(l)
      BY <1>1 DEF RegisterSys, RegisterPlain, RegisterRefused, ReadId, NoSuchEvent, PerfOpen,
         SetBpf, AttachRefused, Finish
    <2>3. ~LoadRefused(l) /\ ~LoadMisnamed(l)
      BY <1>1 DEF LoadRefused, LoadMisnamed, Abandon, Return, Goto
    <2>4. ~LoadTracepoint(l) /\ ~LoadKprobe(l)
      BY <1>1 DEF LoadTracepoint, LoadKprobe, Goto
    <2>5. QED
      BY <2>1, <2>2, <2>3, <2>4 DEF Act, Step
  <1>3. ~Abandon(l)
    BY <1>1 DEF Abandon, Return, Goto
  <1>4. QED
    BY <1>2, <1>3 DEF LoadTailCall, LoadRawTracepoint

\* After a step on which the loop goes on the new program is connected.
LEMMA NewIsConnected ==
  ASSUME TypeInv, NEW l \in Loaders, LoaderInv(l), Act(l), GoesOn(l),
         NEW k, k = Len(progs[l]) + 1
  PROVE  Connected(l, k)'
  <1> DEFINE e == Event(l)
  <1>0. OrderInv(l) /\ FdInv(l) /\ TableInv(l) /\ LoadProgram(l)
    BY DEF LoaderInv, GoesOn
  <1>1. file'[l][progs'[l][k].sec].event = e
    <2>1. progs'[l][k] = [load |-> loads[l], sec |-> sec[l], imm |-> imm[l][sec[l]]]
      BY <1>0, NewProgram
    <2>2. progs'[l][k].sec = sec[l]
      BY <2>1, SMT
    <2>3. QED
      BY <2>2 DEF GoesOn, local, Event
  <1>2. CASE LoadPassive(l)
    BY <1>1, <1>2 DEF LoadPassive, Connected, Nameless
  <1>3. CASE LoadTailCall(l) /\ prog_array_fd[l] > 0 /\ Populate(l)
    <2> DEFINE a == prog_array_fd[l]
    <2>1. /\ a \in DOMAIN maps'[l] /\ e.idx \in DOMAIN maps'[l][a] /\ maps'[l][a][e.idx] = k
      BY <1>0, <1>3, PopulateFacts
    <2>2. IsTailCall(e)
      BY <1>3 DEF LoadTailCall
    <2> HIDE DEF a, e
    <2>3. IsTailCall(e) /\ \E m \in DOMAIN maps'[l] :
            e.idx \in DOMAIN maps'[l][m] /\ maps'[l][m][e.idx] = k
      BY <2>1, <2>2
    <2>4. QED
      BY <1>1, <2>3 DEF Connected
  <1>4. CASE \E on : events' = [events EXCEPT ![l] =
                                  Append(@, [on |-> on, prog |-> Len(progs[l]) + 1])]
    <2>1. events \in [Loaders -> Seq(Attached)]
      BY DEF TypeInv
    <2>2. PICK on : events'[l] = Append(events[l], [on |-> on, prog |-> k])
      BY <1>4, <2>1
    <2>3. events[l] \in Seq(Attached)
      BY <2>1
    <2>4. /\ Len(events[l]) + 1 \in DOMAIN events'[l]
          /\ events'[l][Len(events[l]) + 1] = [on |-> on, prog |-> k]
      BY <2>2, <2>3, SMT
    <2>5. \E j \in DOMAIN events'[l] : events'[l][j].prog = k
      BY <2>4, SMT
    <2>6. QED
      BY <2>5 DEF Connected
  <1>5. QED
    BY <1>2, <1>3, <1>4, GoesOnWhen

\* Only PerfOpen leads to the step that sets the program of an event.
LEMMA OpensEvent ==
  ASSUME TypeInv, NEW l \in Loaders, Act(l), pc'[l] = "setbpf"
  PROVE  PerfOpen(l)
  <1>0. pc \in [Loaders -> Locations]
    BY DEF TypeInv
  <1>1. ~Start(l) /\ ~Reload(l) /\ ~Exit(l) /\ ~Unreadable(l) /\ ~Begin(l) /\ ~Unloadable(l)
        /\ ~Scan(l)
    BY <1>0 DEF Start, Reload, Exit, Unreadable, Begin, Unloadable, Scan, Return, Goto
  <1>2. ~CreateMap(l) /\ ~MapRefused(l) /\ ~Relocate(l)
    BY <1>0 DEF CreateMap, MapRefused, Relocate, Return, Goto
  <1>3. ~LoadRefused(l) /\ ~LoadMisnamed(l) /\ ~LoadPassive(l)
    BY <1>0 DEF LoadRefused, LoadMisnamed, LoadPassive, Proceed, Abandon, Return, Goto
  <1>4. ~LoadTailCall(l) /\ ~LoadRawTracepoint(l)
    BY <1>0 DEF LoadTailCall, LoadRawTracepoint, Proceed, Abandon, Return, Goto
  <1>5. ~LoadTracepoint(l) /\ ~LoadKprobe(l)
    BY <1>0 DEF LoadTracepoint, LoadKprobe, Goto
  <1>6. ~RegisterSys(l) /\ ~RegisterPlain(l) /\ ~RegisterRefused(l) /\ ~ReadId(l)
    BY <1>0 DEF RegisterSys, RegisterPlain, RegisterRefused, ReadId, Register, Abandon,
       Return, Goto
  <1>7. ~NoSuchEvent(l) /\ ~SetBpf(l) /\ ~AttachRefused(l) /\ ~Finish(l)
    BY <1>0 DEF NoSuchEvent, SetBpf, AttachRefused, Finish, Proceed, Abandon, Return, Goto
  <1>8. QED
    BY <1>1, <1>2, <1>3, <1>4, <1>5, <1>6, <1>7 DEF Act, Step

\* What PerfOpen and SetBpf do to the list of events.
LEMMA PerfOpenFacts ==
  ASSUME TypeInv, NEW l \in Loaders, PerfOpen(l)
  PROVE  LET n == Len(events[l])
         IN  /\ n \in Nat /\ Len(events'[l]) = n + 1 /\ DOMAIN events'[l] = 1..(n + 1)
             /\ DOMAIN events[l] = 1..n
             /\ events'[l][n + 1].on = id[l] /\ events'[l][n + 1].prog = 0
             /\ \A j \in 1..n : events'[l][j] = events[l][j]
  <1> DEFINE e == [on |-> id[l], prog |-> 0]
  <1>1. events \in [Loaders -> Seq(Attached)]
    BY DEF TypeInv
  <1>2. events' = [events EXCEPT ![l] = Append(events[l], e)]
    BY <1>1 DEF PerfOpen
  <1>3. e.on = id[l] /\ e.prog = 0
    OBVIOUS
  <1> HIDE DEF e
  <1>4. events[l] \in Seq(Attached) /\ events'[l] = Append(events[l], e)
    BY <1>1, <1>2
  <1>5. /\ Len(events[l]) \in Nat /\ Len(events'[l]) = Len(events[l]) + 1
        /\ DOMAIN events'[l] = 1..(Len(events[l]) + 1) /\ DOMAIN events[l] = 1..Len(events[l])
        /\ events'[l][Len(events[l]) + 1] = e
        /\ \A j \in 1..Len(events[l]) : events'[l][j] = events[l][j]
    BY <1>4, SMT
  <1>6. QED
    BY <1>3, <1>5

LEMMA SetBpfFacts ==
  ASSUME TypeInv, NEW l \in Loaders, ConnectInv(l), SetBpf(l)
  PROVE  LET n == Len(events[l])
         IN  /\ n \in DOMAIN events[l] /\ DOMAIN events'[l] = DOMAIN events[l]
             /\ events'[l][n].on = events[l][n].on
             /\ events'[l][n].prog = Len(progs[l])
             /\ \A j \in DOMAIN events[l] : j # n => events'[l][j] = events[l][j]
  <1> DEFINE n == Len(events[l])
             v == Len(progs[l])
  <1>1. events \in [Loaders -> Seq(Attached)] /\ events[l] \in Seq(Attached)
    BY DEF TypeInv
  <1>2. events' = [events EXCEPT ![l] = [events[l] EXCEPT ![n] = [events[l][n] EXCEPT !.prog = v]]]
    BY <1>1 DEF SetBpf
  <1>3. n > 0
    BY DEF ConnectInv, SetBpf
  <1>4. n \in DOMAIN events[l]
    BY <1>1, <1>3, SMT
  <1>5. events[l][n] \in Attached
    BY <1>1, <1>4, SMT
  <1> HIDE DEF n, v
  <1>6. events'[l] = [events[l] EXCEPT ![n] = [events[l][n] EXCEPT !.prog = v]]
    BY <1>1, <1>2
  <1>7. /\ DOMAIN events'[l] = DOMAIN events[l]
        /\ \A j \in DOMAIN events[l] : j # n => events'[l][j] = events[l][j]
        /\ events'[l][n] = [events[l][n] EXCEPT !.prog = v]
    BY <1>4, <1>6
  <1>8. events'[l][n].on = events[l][n].on /\ events'[l][n].prog = v
    BY <1>5, <1>7 DEF Attached
  <1>9. QED
    BY <1>4, <1>7, <1>8 DEF n, v

LEMMA ConnectStep ==
  ASSUME TypeInv, NEW l \in Loaders, LoaderInv(l), Act(l)
  PROVE  ConnectInv(l)'
  <1> PICK n : n = Len(progs[l])
    OBVIOUS
  <1>0. OrderInv(l) /\ FdInv(l) /\ ConnectInv(l)
    BY DEF LoaderInv
  <1>1. /\ pc \in [Loaders -> Locations] /\ ret \in [Loaders -> Int]
        /\ DOMAIN progs = Loaders /\ n \in Nat /\ DOMAIN progs[l] = 1..n
    BY SMT DEF TypeInv
  <1> USE DEF Goto
  <1>2. pc'[l] = "setbpf" => Len(events'[l]) > 0 /\ events'[l][Len(events'[l])].prog = 0
    <2> SUFFICES ASSUME pc'[l] = "setbpf"
                 PROVE  Len(events'[l]) > 0 /\ events'[l][Len(events'[l])].prog = 0
      OBVIOUS
    <2>1. PerfOpen(l)
      BY OpensEvent
    <2>2. QED
      BY <2>1, PerfOpenFacts, SMT
  <1>3. CASE Start(l) \/ Exit(l)
    <2>1. progs'[l] = <<>>
      BY <1>0, <1>1, <1>3 DEF Start, Exit, objects, OrderInv
    <2>2. DOMAIN progs'[l] = {}
      BY <2>1, SMT
    <2>3. QED
      BY <1>2, <2>2 DEF ConnectInv
  <1>4. CASE UNCHANGED progs /\ Settled(l) /\ ~Start(l) /\ ~Exit(l)
    <2>1. \A k \in DOMAIN progs[l] : Connected(l, k)
      BY <1>0, <1>4 DEF ConnectInv
    <2>2. \A k \in DOMAIN progs'[l] : Connected(l, k)'
      BY <1>4, <2>1, StaysConnected
    <2>3. QED
      BY <1>2, <2>2 DEF ConnectInv
  <1>5. CASE UNCHANGED progs /\ ~Settled(l)' /\ ~Start(l) /\ ~Exit(l)
    <2>1. \A k \in DOMAIN progs[l] : k < n => Connected(l, k)
      BY <1>0 DEF ConnectInv
    <2>2. \A k \in DOMAIN progs'[l] : k < Len(progs'[l]) => Connected(l, k)'
      BY <1>5, <2>1, StaysConnected
    <2>3. QED
      BY <1>2, <1>5, <2>2 DEF ConnectInv
  <1>6. CASE LoadProgram(l) /\ (~Settled(l)' \/ GoesOn(l)) /\ ~Start(l) /\ ~Exit(l)
    <2>1. /\ pc[l] = "load" /\ DOMAIN progs'[l] = 1..(n + 1) /\ Len(progs'[l]) = n + 1
      BY <1>0, <1>6, NewProgram
    <2>2. \A k \in 1..n : Connected(l, k)
      BY <1>0, <1>1, <2>1 DEF ConnectInv, Settled
    <2>3. \A k \in 1..n : Connected(l, k)'
      BY <1>1, <1>6, <2>2, StaysConnected
    <2>4. GoesOn(l) => Connected(l, n + 1)'
      BY NewIsConnected
    <2>5. \A k \in 1..(n + 1) : k \in 1..n \/ (k = n + 1 /\ ~(k < n + 1))
      BY <1>1, SMT
    <2>6. \A k \in DOMAIN progs'[l] : k < Len(progs'[l]) \/ Settled(l)' => Connected(l, k)'
      <3> SUFFICES ASSUME NEW k \in 1..(n + 1), k < n + 1 \/ Settled(l)'
                   PROVE  Connected(l, k)'
        BY <2>1
      <3>1. k \in 1..n \/ (k = n + 1 /\ GoesOn(l))
        BY <1>6, <2>5
      <3>2. QED
        BY <2>3, <2>4, <3>1
    <2>7. QED
      BY <1>2, <2>6 DEF ConnectInv
  <1>7. CASE SetBpf(l)
    <2>1. progs' = progs /\ ~Start(l) /\ ~Exit(l) /\ n # 0
      <3>1. pc[l] = "setbpf" /\ pc'[l] = "load"
        BY <1>1, <1>7 DEF SetBpf, Proceed
      <3>2. n > 0
        BY <1>0, <3>1 DEF OrderInv, Attaching
      <3>3. QED
        BY <1>1, <1>7, <3>1, <3>2, SMT DEF SetBpf, Start, Exit
    <2>2. \A k \in 1..n : k < n => Connected(l, k)
      BY <1>0, <1>1 DEF ConnectInv
    <2>3. \A k \in 1..n : k < n => Connected(l, k)'
      BY <1>1, <2>1, <2>2, StaysConnected
    <2>4. Connected(l, n)'
      <3>1. \E j \in DOMAIN events'[l] : events'[l][j].prog = n
        BY <1>0, <1>7, SetBpfFacts
      <3>2. QED
        BY <2>1, <3>1 DEF Connected
    <2>5. \A k \in 1..n : k < n \/ k = n
      BY <1>1, SMT
    <2>6. \A k \in DOMAIN progs'[l] : Connected(l, k)'
      BY <1>1, <2>1, <2>3, <2>4, <2>5
    <2>7. QED
      BY <1>2, <2>6 DEF ConnectInv
  <1>8. QED
    <2>1. CASE Reload(l) \/ Begin(l) \/ Scan(l) \/ CreateMap(l) \/ Relocate(l) \/ Finish(l)
      <3>1. UNCHANGED progs
        BY <2>1 DEF Reload, Begin, Scan, CreateMap, Relocate, Finish, objects
      <3>2. Settled(l)
        BY <2>1 DEF Reload, Begin, Scan, CreateMap, Relocate, Finish, Settled, Before
      <3>3. QED
        BY <1>3, <1>4, <3>1, <3>2
    <2>2. CASE Gives(l)
      <3>1. ~Settled(l)'
        BY <1>1, <2>2, SMT DEF Gives, Return, Settled, Before
      <3>2. QED
        BY <1>3, <1>5, <1>6, <2>2, <3>1 DEF Gives
    <2>3. CASE Hops(l)
      <3>1. ~Settled(l)'
        BY <1>1, <2>3 DEF Hops, Settled, Before, Attaching
      <3>2. QED
        BY <1>3, <1>5, <1>6, <2>3, <3>1 DEF Hops
    <2>4. CASE GoesOn(l)
      BY <1>3, <1>6, <2>4 DEF GoesOn
    <2>5. QED
      BY <1>3, <1>7, <2>1, <2>2, <2>3, <2>4, Kinds

-----------------------------------------------------------------------------
(* Jump tables *)

\* What the kernel's maps look like after a step.
LEMMA MapsAfter ==
  ASSUME TypeInv, NEW l \in Loaders, LoaderInv(l), Act(l), ~Exit(l)
  PROVE  \/ maps'[l] = maps[l]
         \/ /\ CreateMap(l)
            /\ maps'[l] = Append(maps[l], <<>>) /\ Len(maps'[l]) = Len(maps[l]) + 1
            /\ DOMAIN maps'[l] = 1..(Len(maps[l]) + 1)
            /\ DOMAIN maps'[l][Len(maps[l]) + 1] = {}
            /\ \A m \in DOMAIN maps[l] : maps'[l][m] = maps[l][m]
         \/ LoadTailCall(l) /\ prog_array_fd[l] > 0 /\ Populate(l) /\ Proceed(l)
  <1>1. CASE CreateMap(l)
    <2>1. maps[l] \in Seq(Tables) /\ DOMAIN maps = Loaders
      BY DEF TypeInv
    <2> DEFINE nil == <<>>
    <2>2. maps'[l] = Append(maps[l], nil)
      BY <1>1, <2>1 DEF CreateMap
    <2>3. DOMAIN nil = {}
      BY SMT
    <2> HIDE DEF nil
    <2>4. /\ Len(maps'[l]) = Len(maps[l]) + 1 /\ DOMAIN maps'[l] = 1..(Len(maps[l]) + 1)
          /\ maps'[l][Len(maps[l]) + 1] = nil
          /\ \A m \in DOMAIN maps[l] : maps'[l][m] = maps[l][m]
      BY <2>1, <2>2, SMT
    <2>5. QED
      BY <1>1, <2>2, <2>3, <2>4 DEF nil
  <1>2. CASE LoadTailCall(l)
    BY <1>2 DEF LoadTailCall
  <1>3. QED
    BY <1>1, <1>2, Changes

\* An entry that a step adds is the program it has loaded, at its index.
LEMMA EntriesAfter ==
  ASSUME TypeInv, NEW l \in Loaders, LoaderInv(l), Act(l), ~Exit(l),
         NEW m \in DOMAIN maps'[l], NEW i \in DOMAIN maps'[l][m]
  PROVE  \/ /\ m \in DOMAIN maps[l] /\ i \in DOMAIN maps[l][m]
            /\ maps'[l][m][i] = maps[l][m][i]
         \/ /\ LoadTailCall(l) /\ m = prog_array_fd[l] /\ i = Event(l).idx
            /\ maps'[l][m][i] = Len(progs[l]) + 1
  <1>0. OrderInv(l) /\ FdInv(l) /\ TableInv(l)
    BY DEF LoaderInv
  <1>1. CASE CreateMap(l) /\ maps'[l] # maps[l]
    <2> DEFINE n == Len(maps[l])
    <2>1. /\ DOMAIN maps'[l] = 1..(n + 1) /\ DOMAIN maps'[l][n + 1] = {}
          /\ \A k \in DOMAIN maps[l] : maps'[l][k] = maps[l][k]
      <3>1. ~LoadTailCall(l)
        BY <1>1 DEF CreateMap, LoadTailCall, LoadProgram, MayLoad
      <3>2. QED
        BY <1>1, <3>1, MapsAfter
    <2>2. DOMAIN maps[l] = 1..n /\ n \in Nat
      BY SMT DEF TypeInv
    <2> HIDE DEF n
    <2>3. m \in 1..n
      BY <2>1, <2>2, SMT
    <2>4. QED
      BY <2>1, <2>2, <2>3
  <1>2. CASE LoadTailCall(l) /\ prog_array_fd[l] > 0 /\ Populate(l)
    <2> DEFINE a == prog_array_fd[l]
    <2>1. /\ a \in DOMAIN maps[l] /\ DOMAIN maps'[l] = DOMAIN maps[l]
          /\ \A k \in DOMAIN maps[l] : k # a => maps'[l][k] = maps[l][k]
          /\ DOMAIN maps'[l][a] = DOMAIN maps[l][a] \cup {Event(l).idx}
          /\ maps'[l][a][Event(l).idx] = Len(progs[l]) + 1
          /\ \A k \in DOMAIN maps[l][a] : k # Event(l).idx => maps'[l][a][k] = maps[l][a][k]
      BY <1>0, <1>2, PopulateFacts DEF LoadTailCall
    <2> HIDE DEF a
    <2>2. CASE m # a
      BY <2>1, <2>2
    <2>3. CASE m = a
      BY <1>2, <2>1, <2>3 DEF a
    <2>4. QED
      BY <2>2, <2>3
  <1>3. QED
    BY <1>1, <1>2, MapsAfter

LEMMA EntriesStep ==
  ASSUME TypeInv, NEW l \in Loaders, LoaderInv(l), Act(l)
  PROVE  \A m \in DOMAIN maps'[l] : \A i \in DOMAIN maps'[l][m] :
           LET k == maps'[l][m][i]
           IN  /\ k \in DOMAIN progs'[l]
               /\ IsTailCall(file'[l][progs'[l][k].sec].event)
               /\ file'[l][progs'[l][k].sec].event.idx = i
  <1>0. OrderInv(l) /\ FdInv(l) /\ TableInv(l)
    BY DEF LoaderInv
  <1>1. CASE Exit(l)
    <2>1. maps'[l] = <<>>
      BY <1>1 DEF Exit, TypeInv
    <2>2. DOMAIN maps'[l] = {}
      BY <2>1, SMT
    <2>3. QED
      BY <2>2
  <1>2. CASE ~Exit(l)
    <2> SUFFICES ASSUME NEW m \in DOMAIN maps'[l], NEW i \in DOMAIN maps'[l][m]
                 PROVE  /\ maps'[l][m][i] \in DOMAIN progs'[l]
                        /\ IsTailCall(file'[l][progs'[l][maps'[l][m][i]].sec].event)
                        /\ file'[l][progs'[l][maps'[l][m][i]].sec].event.idx = i
      OBVIOUS
    <2>1. CASE /\ m \in DOMAIN maps[l] /\ i \in DOMAIN maps[l][m]
               /\ maps'[l][m][i] = maps[l][m][i]
      <3> DEFINE k == maps[l][m][i]
      <3>1. /\ k \in DOMAIN progs[l]
            /\ IsTailCall(file[l][progs[l][k].sec].event)
            /\ file[l][progs[l][k].sec].event.idx = i
        BY <1>0, <2>1 DEF TableInv
      <3> HIDE DEF k
      <3>2. ~Start(l)
        <4>1. progs[l] # <<>>
          BY <3>1, SMT
        <4>2. QED
          BY <1>0, <4>1 DEF OrderInv, Start
      <3>3. file'[l] = file[l]
        BY <3>2, Changes
      <3>4. k \in DOMAIN progs'[l] /\ progs'[l][k] = progs[l][k]
        BY <1>2, <3>1, ProgramsStay
      <3>5. QED
        BY <2>1, <3>1, <3>3, <3>4 DEF k
    <2>2. CASE /\ LoadTailCall(l) /\ i = Event(l).idx /\ maps'[l][m][i] = Len(progs[l]) + 1
      <3> DEFINE k == Len(progs[l]) + 1
      <3>1. LoadProgram(l) /\ IsTailCall(Event(l)) /\ file' = file
        BY <2>2 DEF LoadTailCall, local
      <3>2. /\ k \in DOMAIN progs'[l]
            /\ progs'[l][k] = [load |-> loads[l], sec |-> sec[l], imm |-> imm[l][sec[l]]]
        <4>1. /\ DOMAIN progs'[l] = 1..k /\ k \in Nat \ {0}
              /\ progs'[l][k] = [load |-> loads[l], sec |-> sec[l], imm |-> imm[l][sec[l]]]
          BY <1>0, <3>1, NewProgram, SMT
        <4>2. QED
          BY <4>1, SMT
      <3>3. progs'[l][k].sec = sec[l]
        BY <3>2, SMT
      <3> HIDE DEF k
      <3>4. QED
        BY <2>2, <3>1, <3>2, <3>3 DEF Event, k
    <2>3. \/ /\ m \in DOMAIN maps[l] /\ i \in DOMAIN maps[l][m]
             /\ maps'[l][m][i] = maps[l][m][i]
          \/ LoadTailCall(l) /\ i = Event(l).idx /\ maps'[l][m][i] = Len(progs[l]) + 1
      BY <1>2, EntriesAfter
    <2>4. QED
      BY <2>1, <2>2, <2>3
  <1>3. QED
    BY <1>1, <1>2

\* The program array of a file, while its maps are created.
LEMMA TableOfNewMap ==
  ASSUME TypeInv, NEW l \in Loaders, LoaderInv(l), CreateMap(l)
  PROVE  /\ prog_array_fd'[l] \in {-1} \cup (1..Len(maps'[l]))
         /\ prog_array_fd'[l] # -1 => HasArray(file'[l], NrMaps(file'[l]))
         /\ pc'[l] = "maps" /\ sec'[l] \in 1..(NrMaps(file'[l]) + 1)
         /\ prog_array_fd'[l] # -1 /\ Filling(l)'
              => \A i \in DOMAIN maps'[l][prog_array_fd'[l]] :
                   progs'[l][maps'[l][prog_array_fd'[l]][i]].load = loads'[l]
  <1> DEFINE f == file[l]
             n == Len(maps[l])
             s == sec[l]
  <1>0. OrderInv(l) /\ FdInv(l) /\ TableInv(l) /\ Act(l) /\ ~Exit(l) /\ ~LoadTailCall(l)
    <2>1. Act(l) /\ ~LoadTailCall(l)
      BY DEF LoaderInv, Act, Step, CreateMap, LoadTailCall, LoadProgram, MayLoad
    <2>2. ~Exit(l)
      BY DEF Exit, CreateMap, Goto, TypeInv
    <2>3. QED
      BY <2>1, <2>2 DEF LoaderInv
  <1>1. /\ pc[l] = "maps" /\ pc'[l] = "maps" /\ file'[l] = f /\ loads' = loads /\ progs' = progs
        /\ s <= NrMaps(f) /\ sec'[l] = s + 1
    BY DEF CreateMap, local, TypeInv
  <1>2. f \in Files /\ Has(f, "symtab") /\ map_data[l][s].offset = Offset(f, s)
        /\ NrMaps(f) \in Nat /\ s \in 1..NrMaps(f)
    <2>1. f \in Files /\ Has(f, "symtab")
      BY <1>0, <1>1 DEF OrderInv, FdInv
    <2>2. NrMaps(f) \in Nat
      BY <2>1, MapFacts
    <2>3. s \in 1..(NrMaps(f) + 1)
      BY <1>0, <1>1 DEF TableInv
    <2>4. s \in 1..NrMaps(f)
      BY <1>1, <2>2, <2>3, SMT
    <2>5. QED
      BY <1>0, <1>1, <2>1, <2>2, <2>4 DEF FdInv
  <1>3. Def(l) = MapDefs(f)[Offset(f, s)]
    BY <1>2 DEF Def
  <1>4. /\ Len(maps'[l]) = n + 1 /\ DOMAIN maps'[l] = 1..(n + 1)
        /\ DOMAIN maps'[l][n + 1] = {} /\ DOMAIN maps[l] = 1..n /\ n \in Nat
        /\ \A m \in DOMAIN maps[l] : maps'[l][m] = maps[l][m]
    <2>1. DOMAIN maps[l] = 1..n /\ n \in Nat /\ maps[l] \in Seq(Tables)
      BY SMT DEF TypeInv
    <2>2. maps'[l] # maps[l]
      <3> DEFINE nil == <<>>
      <3>1. maps'[l] = Append(maps[l], nil)
        BY DEF CreateMap, TypeInv
      <3> HIDE DEF nil
      <3>2. Len(maps'[l]) = n + 1
        BY <2>1, <3>1, SMT
      <3>3. QED
        BY <2>1, <3>2, SMT
    <2>3. QED
      BY <1>0, <2>1, <2>2, MapsAfter
  <1>5. sec'[l] \in 1..(NrMaps(f) + 1) /\ sec'[l] - 1 = s /\ s \in Nat
    BY <1>1, <1>2, SMT
  <1>6. DOMAIN prog_array_fd = Loaders /\ prog_array_fd[l] \in Int
    BY DEF TypeInv
  <1> HIDE DEF f, n, s
  <1>7. CASE Def(l).type = "prog_array"
    <2>1. prog_array_fd'[l] = n + 1
      BY <1>6, <1>7 DEF CreateMap, NewFd, n
    <2>2. HasArray(f, NrMaps(f))
      BY <1>2, <1>3, <1>7 DEF HasArray
    <2>3. n + 1 \in 1..Len(maps'[l])
      BY <1>4, SMT
    <2>4. QED
      BY <1>1, <1>4, <1>5, <2>1, <2>2, <2>3
  <1>8. CASE Def(l).type # "prog_array"
    <2> DEFINE a == prog_array_fd[l]
    <2>1. prog_array_fd'[l] = a
      BY <1>8 DEF CreateMap
    <2>2. a \in {-1} \cup (1..n) /\ (a # -1 => HasArray(f, NrMaps(f)))
      BY <1>0 DEF TableInv, f, n
    <2>3. a \in {-1} \cup (1..Len(maps'[l]))
      BY <1>4, <2>2, SMT
    <2>4. ASSUME a # -1, Filling(l)', NEW i \in DOMAIN maps'[l][a]
          PROVE  progs'[l][maps'[l][a][i]].load = loads'[l]
      <3>1. HasArray(f, s)
        <4>1. pc'[l] \notin Loading
          BY <1>1 DEF Loading, Attaching
        <4>2. HasArray(file[l], sec[l] - 1)'
          BY <2>4, <4>1 DEF Filling
        <4>3. QED
          BY <1>1, <1>5, <4>2 DEF HasArray
      <3>2. HasArray(f, s - 1)
        <4>1. PICK j \in 1..s : MapDefs(f)[Offset(f, j)].type = "prog_array"
          BY <3>1 DEF HasArray
        <4>2. j # s
          BY <1>3, <1>8, <4>1
        <4>3. j \in 1..(s - 1)
          BY <1>5, <4>1, <4>2, SMT
        <4>4. QED
          BY <4>1, <4>3 DEF HasArray
      <3>3. Filling(l)
        BY <1>1, <3>2 DEF Filling, f, s
      <3>4. a \in DOMAIN maps[l] /\ maps'[l][a] = maps[l][a]
        BY <1>4, <2>2, <2>4
      <3>5. Mine(l, maps[l][a][i])
        BY <1>0, <2>4, <3>3, <3>4 DEF TableInv
      <3>6. QED
        BY <1>1, <3>4, <3>5, <2>1 DEF Mine
    <2>5. QED
      BY <1>1, <1>5, <2>1, <2>2, <2>3, <2>4
  <1>9. QED
    BY <1>7, <1>8

LEMMA TableStep ==
  ASSUME TypeInv, NEW l \in Loaders, LoaderInv(l), Act(l)
  PROVE  TableInv(l)'
  <1> DEFINE a == prog_array_fd[l]
             b == prog_array_fd'[l]
             Entries == \A m \in DOMAIN maps'[l] : \A i \in DOMAIN maps'[l][m] :
                          LET k == maps'[l][m][i]
                          IN  /\ k \in DOMAIN progs'[l]
                              /\ IsTailCall(file'[l][progs'[l][k].sec].event)
                              /\ file'[l][progs'[l][k].sec].event.idx = i
             Own == b # -1 /\ Filling(l)' =>
                      \A i \in DOMAIN maps'[l][b] : progs'[l][maps'[l][b][i]].load = loads'[l]
  <1>0. OrderInv(l) /\ FdInv(l) /\ TableInv(l)
    BY DEF LoaderInv
  <1>1. Entries
    BY EntriesStep
  <1>2. SUFFICES /\ pc'[l] = "idle" => b = -1
                 /\ b \in {-1} \cup (1..Len(maps'[l]))
                 /\ b # -1 => HasArray(file'[l], NrMaps(file'[l]))
                 /\ pc'[l] = "maps" => sec'[l] \in 1..(NrMaps(file'[l]) + 1)
                 /\ Own
    BY <1>1 DEF TableInv, Mine
  <1> HIDE DEF Entries
  <1>3. /\ pc \in [Loaders -> Locations] /\ sec \in [Loaders -> Nat]
        /\ DOMAIN prog_array_fd = Loaders /\ a \in Int
    BY DEF TypeInv
  <1>4. /\ pc[l] = "idle" => a = -1
        /\ a \in {-1} \cup (1..Len(maps[l]))
        /\ a # -1 => HasArray(file[l], NrMaps(file[l]))
        /\ pc[l] = "maps" => sec[l] \in 1..(NrMaps(file[l]) + 1)
        /\ a # -1 /\ Filling(l) =>
             \A i \in DOMAIN maps[l][a] : progs[l][maps[l][a][i]].load = loads[l]
    BY <1>0 DEF TableInv, Mine
  <1>5. CASE Exit(l)
    <2>1. b = -1 /\ pc'[l] = "idle"
      BY <1>3, <1>5 DEF Exit, Goto
    <2>2. QED
      BY <2>1
  <1>6. CASE CreateMap(l)
    BY <1>6, TableOfNewMap
  <1>7. CASE ~Exit(l) /\ ~CreateMap(l)
    <2>1. b = a
      BY <1>7, Changes
    <2>2. pc'[l] # "idle"
      <3>1. CASE Start(l) \/ Reload(l) \/ Begin(l) \/ Scan(l) \/ Relocate(l) \/ SetBpf(l)
        BY <1>3, <3>1 DEF Start, Reload, Begin, Scan, Relocate, SetBpf, Proceed, Goto
      <3>2. CASE Finish(l) \/ Gives(l) \/ Hops(l) \/ GoesOn(l)
        BY <1>3, <3>2 DEF Finish, Gives, Hops, GoesOn, Return, Proceed, Goto, Attaching
      <3>3. QED
        BY <1>7, <3>1, <3>2, Kinds
    <2>3. Len(maps'[l]) = Len(maps[l])
      <3>1. CASE LoadTailCall(l) /\ prog_array_fd[l] > 0 /\ Populate(l)
        BY <1>0, <3>1, PopulateFacts DEF LoadTailCall
      <3>2. QED
        BY <1>7, <3>1, MapsAfter
    <2>4. b # -1 => HasArray(file'[l], NrMaps(file'[l]))
      <3>1. CASE Start(l)
        BY <1>4, <2>1, <3>1 DEF Start
      <3>2. CASE ~Start(l)
        BY <1>4, <2>1, <3>2, Changes
      <3>3. QED
        BY <3>1, <3>2
    <2>5. pc'[l] = "maps" => sec'[l] \in 1..(NrMaps(file'[l]) + 1)
      <3>1. CASE Scan(l)
        <4>1. sec'[l] = 1 /\ file'[l] = file[l] /\ pc[l] = "scan" /\ Has(file[l], "symtab")
          BY <1>3, <3>1 DEF Scan, Loadable, local
        <4>2. NrMaps(file[l]) \in Nat
          BY <1>0, <4>1, MapFacts DEF OrderInv
        <4>3. QED
          BY <4>1, <4>2, SMT
      <3>2. CASE Start(l) \/ Reload(l) \/ Begin(l) \/ Relocate(l) \/ SetBpf(l)
        BY <1>3, <3>2 DEF Start, Reload, Begin, Relocate, SetBpf, Proceed, Goto
      <3>3. CASE Finish(l) \/ Gives(l) \/ Hops(l) \/ GoesOn(l)
        BY <1>3, <3>3 DEF Finish, Gives, Hops, GoesOn, Return, Proceed, Goto, Attaching
      <3>4. QED
        BY <1>7, <3>1, <3>2, <3>3, Kinds
    <2>6. Own
      <3>1. CASE Start(l) \/ Reload(l) \/ Begin(l)
        <4>1. pc'[l] \in {"begin", "scan"}
          BY <1>3, <3>1 DEF Start, Reload, Begin, Goto
        <4>2. QED
          BY <4>1 DEF Filling, Loading, Attaching
      <3>2. CASE Scan(l)
        <4>1. sec'[l] - 1 = 0 /\ pc'[l] = "maps"
          BY <1>3, <3>2, SMT DEF Scan, Goto
        <4>2. ~HasArray(file[l], sec[l] - 1)'
          BY <4>1, SMT DEF HasArray
        <4>3. QED
          BY <4>1, <4>2 DEF Filling, Loading, Attaching
      <3>3. CASE Relocate(l)
        <4>1. /\ pc[l] = "maps" /\ sec[l] > NrMaps(file[l]) /\ maps' = maps /\ progs' = progs
              /\ loads' = loads
          BY <3>3 DEF Relocate, objects, local
        <4>2. NrMaps(file[l]) \in Nat
          BY <1>0, <4>1, MapFacts DEF OrderInv, FdInv
        <4>3. sec[l] - 1 = NrMaps(file[l])
          BY <1>4, <4>1, <4>2, SMT
        <4>4. a # -1 => Filling(l)
          BY <1>4, <4>1, <4>3 DEF Filling
        <4>5. QED
          BY <1>4, <2>1, <4>1, <4>4
      <3>4. CASE Finish(l) \/ Gives(l)
        <4>1. pc'[l] = "returned"
          BY <1>3, <3>4 DEF Finish, Gives, Return, Goto
        <4>2. QED
          BY <4>1 DEF Filling, Loading, Attaching
      <3>5. CASE SetBpf(l) \/ Hops(l) \/ GoesOn(l)
        <4>1. pc[l] \in Loading /\ loads' = loads
          BY <3>5 DEF SetBpf, Hops, GoesOn, LoadProgram, MayLoad, Loading, Attaching, local
        <4>2. SUFFICES ASSUME a # -1, NEW i \in DOMAIN maps'[l][a]
                       PROVE  progs'[l][maps'[l][a][i]].load = loads'[l]
          BY <2>1
        <4>3. a \in DOMAIN maps'[l]
          <5>1. DOMAIN maps'[l] = 1..Len(maps[l])
            <6>1. ASSUME LoadTailCall(l), prog_array_fd[l] > 0, Populate(l)
                  PROVE  DOMAIN maps'[l] = DOMAIN maps[l]
              BY <1>0, <6>1, PopulateFacts DEF LoadTailCall
            <6>2. DOMAIN maps'[l] = DOMAIN maps[l]
              BY <1>7, <3>5, <6>1, MapsAfter
            <6>3. maps[l] \in Seq(Tables)
              BY DEF TypeInv
            <6>4. QED
              BY <6>2, <6>3, SMT
          <5>2. QED
            BY <1>4, <4>2, <5>1
        <4>4. CASE /\ a \in DOMAIN maps[l] /\ i \in DOMAIN maps[l][a]
                   /\ maps'[l][a][i] = maps[l][a][i]
          <5> DEFINE k == maps[l][a][i]
          <5>1. progs[l][k].load = loads[l]
            BY <1>4, <4>1, <4>2, <4>4 DEF Filling
          <5>2. k \in DOMAIN progs[l]
            BY <1>0, <4>4 DEF TableInv
          <5>3. progs'[l][k] = progs[l][k]
            BY <1>7, <5>2, ProgramsStay
          <5>4. QED
            BY <4>1, <4>4, <5>1, <5>3
        <4>5. CASE LoadTailCall(l) /\ maps'[l][a][i] = Len(progs[l]) + 1
          <5> DEFINE k == Len(progs[l]) + 1
          <5>1. progs'[l][k] = [load |-> loads[l], sec |-> sec[l], imm |-> imm[l][sec[l]]]
            BY <1>0, <4>5, NewProgram DEF LoadTailCall
          <5>2. progs'[l][k].load = loads[l]
            BY <5>1, SMT
          <5>3. QED
            BY <4>1, <4>5, <5>2
        <4>6. \/ /\ a \in DOMAIN maps[l] /\ i \in DOMAIN maps[l][a]
                 /\ maps'[l][a][i] = maps[l][a][i]
              \/ LoadTailCall(l) /\ maps'[l][a][i] = Len(progs[l]) + 1
          BY <1>7, <4>2, <4>3, EntriesAfter
        <4>7. QED
          BY <4>4, <4>5, <4>6
      <3>6. QED
        BY <1>7, <3>1, <3>2, <3>3, <3>4, <3>5, Kinds
    <2>7. QED
      BY <1>4, <2>1, <2>2, <2>3, <2>4, <2>5, <2>6
  <1>8. QED
    BY <1>5, <1>6, <1>7

-----------------------------------------------------------------------------
(* Descriptors *)

\* The relocations of a section are a sequence.
LEMMA RelsFacts ==
  ASSUME NEW f \in Files, NEW s \in ProgSecs(f)
  PROVE  \E R : RelsOf(f, s) \in Seq(R)
  <1> DEFINE rel == {r \in Indices(f, "rel") : f[r].info = s}
  <1>1. CASE rel = {}
    <2>1. RelsOf(f, s) = <<>>
      BY <1>1 DEF RelsOf
    <2>2. RelsOf(f, s) \in Seq({})
      BY <2>1, SMT
    <2>3. QED
      BY <2>2
  <1>2. CASE rel # {}
    <2>1. PICK r \in Indices(f, "rel") : RelsOf(f, s) = f[r].rels
      BY <1>2 DEF RelsOf
    <2>2. f[r].rels \in Seq([ld_imm64 : BOOLEAN, to_map : BOOLEAN, value : Nat])
      BY <2>1, FilesAssumption DEF WellFormed
    <2>3. QED
      BY <2>1, <2>2
  <1>3. QED
    BY <1>1, <1>2

\* The instructions after relocation.
LEMMA PatchedIsSound ==
  ASSUME TypeInv, NEW l \in Loaders, FdInv(l), OrderInv(l), pc[l] = "maps",
         NEW s \in ProgSecs(file[l])
  PROVE  Sound(l, s, Patched(l, RelsOf(file[l], s)))
  <1> DEFINE rels == RelsOf(file[l], s)
             code == Patched(l, rels)
             d == map_data[l]
             N == NrMaps(file[l])
  <1>1. PICK R : rels \in Seq(R)
    BY RelsFacts DEF OrderInv
  <1>2. DOMAIN rels = 1..Len(rels) /\ Len(rels) \in Nat
    BY <1>1, SMT
  <1>3. /\ DOMAIN d = 1..N /\ d \in Seq(MapData)
        /\ \A j \in 1..N : d[j].offset = Offset(file[l], j)
    BY DEF FdInv, TypeInv
  <1>4. \A j \in 1..N : d[j].fd \in Int
    <2>1. \A j \in DOMAIN d : d[j] \in MapData
      <3>1. d \in Seq(MapData)
        BY <1>3
      <3> HIDE DEF d
      <3>2. QED
        BY <3>1, SMT
    <2>2. \A j \in DOMAIN d : d[j].fd \in Int
      BY <2>1 DEF MapData
    <2>3. QED
      BY <1>3, <2>2
  <1>5. ASSUME NEW n \in DOMAIN rels
        PROVE  /\ code[n] \in Int
               /\ code[n] > 0 => \E j \in 1..N : Offset(file[l], j) = rels[n].value
                                                 /\ code[n] = d[j].fd
    <2>1. code[n] = IF \A j \in 1..n : Applies(l, rels[j])
                    THEN d[CHOOSE k \in Matching(l, rels[n]) : TRUE].fd ELSE 0
      BY <1>5 DEF Patched
    <2>2. CASE \A j \in 1..n : Applies(l, rels[j])
      <3>1. n \in 1..n
        BY <1>2, SMT
      <3>2. Matching(l, rels[n]) # {}
        BY <2>2, <3>1 DEF Applies
      <3>3. PICK j \in Matching(l, rels[n]) : code[n] = d[j].fd
        BY <2>1, <2>2, <3>2
      <3>4. j \in 1..N /\ d[j].offset = rels[n].value
        BY DEF Matching
      <3>5. QED
        BY <1>3, <1>4, <3>3, <3>4
    <2>3. CASE ~\A j \in 1..n : Applies(l, rels[j])
      <3>1. code[n] = 0
        BY <2>1, <2>3
      <3>2. QED
        BY <3>1, SMT
    <2>4. QED
      BY <2>2, <2>3
  <1>6. DOMAIN code = DOMAIN rels
    BY DEF Patched
  <1>7. code \in Seq(Int)
    <2>1. code = [n \in 1..Len(rels) |-> code[n]]
      BY <1>2, SMT DEF Patched
    <2> HIDE DEF code, rels
    <2>2. \A n \in 1..Len(rels) : code[n] \in Int
      BY <1>2, <1>5
    <2>3. QED
      BY <1>2, <2>1, <2>2, SMT
  <1> HIDE DEF code
  <1>8. QED
    BY <1>5, <1>6, <1>7 DEF Sound, code

\* While the programs are loaded the tables are left alone.
LEMMA LoadingTables ==
  ASSUME TypeInv, NEW l \in Loaders, LoaderInv(l), Act(l), pc[l] \in Loading, ~Exit(l)
  PROVE  /\ map_fd' = map_fd /\ map_data' = map_data /\ imm' = imm
         /\ file' = file /\ loads' = loads /\ Len(maps'[l]) = Len(maps[l])
  <1>1. ~Start(l) /\ ~Reload(l) /\ ~Scan(l) /\ ~CreateMap(l) /\ ~MapRefused(l) /\ ~Relocate(l)
    BY DEF Start, Reload, Scan, CreateMap, MapRefused, Relocate, Loading, Attaching
  <1>2. Len(maps'[l]) = Len(maps[l])
    <2>1. CASE LoadTailCall(l) /\ prog_array_fd[l] > 0 /\ Populate(l)
      BY <2>1, PopulateFacts DEF LoadTailCall, LoaderInv
    <2>2. QED
      BY <1>1, <2>1, MapsAfter
  <1>3. QED
    BY <1>1, <1>2, Changes

\* A program that a step adds is one of this call.
LEMMA ProgramsAfter ==
  ASSUME TypeInv, NEW l \in Loaders, LoaderInv(l), Act(l), ~Exit(l), NEW k \in DOMAIN progs'[l]
  PROVE  \/ k \in DOMAIN progs[l] /\ progs'[l][k] = progs[l][k]
         \/ /\ LoadProgram(l) /\ k = Len(progs[l]) + 1 /\ progs'[l][k].load = loads[l]
            /\ progs'[l][k].sec = sec[l] /\ progs'[l][k].imm = imm[l][sec[l]]
  <1>1. CASE progs' = progs
    BY <1>1
  <1>2. CASE LoadProgram(l)
    <2> DEFINE n == Len(progs[l])
    <2>1. /\ n \in Nat /\ DOMAIN progs[l] = 1..n /\ DOMAIN progs'[l] = 1..(n + 1)
          /\ \A j \in 1..n : progs'[l][j] = progs[l][j]
          /\ progs'[l][n + 1] = [load |-> loads[l], sec |-> sec[l], imm |-> imm[l][sec[l]]]
      BY <1>2, NewProgram DEF LoaderInv
    <2> HIDE DEF n
    <2>2. k \in 1..n \/ k = n + 1
      BY <2>1, SMT
    <2>3. QED
      BY <1>2, <2>1, <2>2, SMT DEF n
  <1>3. QED
    BY <1>1, <1>2, Changes

\* What makes a map ready does not go away.
LEMMA StaysReady ==
  ASSUME TypeInv, NEW l \in Loaders, LoaderInv(l), Act(l), ~Exit(l), NEW j, Ready(l, j),
         j \in DOMAIN map_fd'[l], map_fd'[l][j] = map_fd[l][j], map_data'[l][j] = map_data[l][j],
         Len(maps'[l]) \in Nat, Len(maps'[l]) >= Len(maps[l]), loads' = loads
  PROVE  Ready(l, j)'
  <1>1. map_fd'[l][j] \in 1..Len(maps'[l])
    <2>1. map_fd[l][j] \in 1..Len(maps[l]) /\ Len(maps[l]) \in Nat
      BY SMT DEF Ready, TypeInv
    <2>2. QED
      BY <2>1, SMT
  <1>2. ASSUME NEW k \in DOMAIN progs'[l], progs'[l][k].load # loads'[l],
               NEW n \in DOMAIN progs'[l][k].imm
        PROVE  progs'[l][k].imm[n] # map_fd'[l][j]
    <2>1. k \in DOMAIN progs[l] /\ progs'[l][k] = progs[l][k]
      BY <1>2, ProgramsAfter
    <2>2. QED
      BY <1>2, <2>1 DEF Ready, Mine
  <1>3. QED
    BY <1>1, <1>2 DEF Ready, Mine

\* The descriptor tables after a map has been created.
LEMMA NewMapFacts ==
  ASSUME TypeInv, NEW l \in Loaders, LoaderInv(l), CreateMap(l)
  PROVE  LET s == sec[l]
             n == Len(maps[l]) + 1
         IN  /\ s \in 1..NrMaps(file[l]) /\ NrMaps(file[l]) \in Nat /\ sec'[l] = s + 1
             /\ Len(maps'[l]) = n /\ n \in Nat \ {0}
             /\ DOMAIN map_fd'[l] = DOMAIN map_fd[l] \cup {s} /\ map_fd'[l][s] = n
             /\ \A j \in DOMAIN map_fd[l] : j # s => map_fd'[l][j] = map_fd[l][j]
             /\ DOMAIN map_data'[l] = DOMAIN map_data[l] /\ map_data'[l][s].fd = n
             /\ \A j \in DOMAIN map_data[l] :
                  /\ map_data'[l][j].offset = map_data[l][j].offset
                  /\ j # s => map_data'[l][j] = map_data[l][j]
  <1> DEFINE s == sec[l]
             n == Len(maps[l]) + 1
  <1>0. OrderInv(l) /\ FdInv(l) /\ TableInv(l) /\ pc[l] = "maps"
    BY DEF LoaderInv, CreateMap
  <1>1. NrMaps(file[l]) \in Nat
    BY <1>0, MapFacts DEF OrderInv, FdInv
  <1>2. s \in 1..NrMaps(file[l])
    <2>1. s \in 1..(NrMaps(file[l]) + 1)
      BY <1>0 DEF TableInv
    <2>2. s <= NrMaps(file[l])
      BY DEF CreateMap
    <2>3. QED
      BY <1>1, <2>1, <2>2, SMT
  <1>3. sec'[l] = s + 1
    BY DEF CreateMap, TypeInv
  <1>4. Len(maps'[l]) = n /\ n \in Nat \ {0}
    <2> DEFINE nil == <<>>
    <2>1. maps[l] \in Seq(Tables) /\ maps'[l] = Append(maps[l], nil)
      BY DEF CreateMap, TypeInv
    <2> HIDE DEF nil
    <2>2. QED
      BY <2>1, SMT
  <1>5. map_fd'[l] = [k \in DOMAIN map_fd[l] \cup {s} |-> IF k = s THEN n ELSE map_fd[l][k]]
    BY DEF CreateMap, SetMapFd, NewFd, TypeInv
  <1>6. /\ DOMAIN map_fd'[l] = DOMAIN map_fd[l] \cup {s} /\ map_fd'[l][s] = n
        /\ \A j \in DOMAIN map_fd[l] : j # s => map_fd'[l][j] = map_fd[l][j]
    BY <1>5
  <1> DEFINE d == map_data[l]
  <1>7. DOMAIN d = 1..NrMaps(file[l]) /\ map_data \in [Loaders -> Seq(MapData)]
    BY <1>0 DEF FdInv, TypeInv
  <1>8. d[s] \in MapData
    <2>1. d \in Seq(MapData)
      BY <1>7
    <2> HIDE DEF d
    <2>2. \A j \in DOMAIN d : d[j] \in MapData
      BY <2>1, SMT
    <2>3. QED
      BY <1>2, <1>7, <2>2
  <1>9. map_data' = [map_data EXCEPT ![l] = [d EXCEPT ![s] = [d[s] EXCEPT !.fd = n]]]
    BY <1>7 DEF CreateMap, NewFd
  <1> HIDE DEF d, s, n
  <1>10. map_data'[l] = [d EXCEPT ![s] = [d[s] EXCEPT !.fd = n]]
    BY <1>7, <1>9
  <1>11. /\ DOMAIN map_data'[l] = DOMAIN d /\ map_data'[l][s] = [d[s] EXCEPT !.fd = n]
         /\ \A j \in DOMAIN d : j # s => map_data'[l][j] = d[j]
    BY <1>2, <1>7, <1>10
  <1>12. map_data'[l][s].fd = n /\ map_data'[l][s].offset = d[s].offset
    BY <1>8, <1>11 DEF MapData
  <1>13. \A j \in DOMAIN d : map_data'[l][j].offset = d[j].offset
    BY <1>11, <1>12
  <1>14. QED
    BY <1>1, <1>2, <1>3, <1>4, <1>6, <1>11, <1>12, <1>13 DEF d, s, n

LEMMA FdStep ==
  ASSUME TypeInv, NEW l \in Loaders, LoaderInv(l), Act(l)
  PROVE  FdInv(l)'
  <1>0. OrderInv(l) /\ FdInv(l) /\ TableInv(l) /\ ShareInv(l)
    BY DEF LoaderInv
  <1>1. pc \in [Loaders -> Locations] /\ sec \in [Loaders -> Nat] /\ DOMAIN map_data = Loaders
        /\ DOMAIN imm = Loaders
    BY DEF TypeInv
  <1>2. CASE Start(l) \/ Reload(l) \/ Exit(l) \/ Begin(l) \/ Finish(l) \/ Gives(l)
    <2>1. pc'[l] \in {"begin", "idle", "scan", "returned"}
      BY <1>1, <1>2 DEF Start, Reload, Exit, Begin, Finish, Gives, Return, Goto
    <2>2. QED
      BY <2>1 DEF FdInv, Loading, Attaching
  <1>3. CASE Scan(l)
    <2>1. pc'[l] = "maps" /\ sec'[l] = 1 /\ file'[l] = file[l] /\ Has(file[l], "symtab")
      BY <1>1, <1>3 DEF Scan, Loadable, local, Goto
    <2>2. map_data'[l] = [k \in 1..NrMaps(file[l]) |-> [offset |-> Offset(file[l], k), fd |-> -1]]
      BY <1>1, <1>3 DEF Scan
    <2>3. /\ DOMAIN map_data'[l] = 1..NrMaps(file[l])
          /\ \A j \in 1..NrMaps(file[l]) : map_data'[l][j].offset = Offset(file[l], j)
      BY <2>2, SMT
    <2>4. 1..(sec'[l] - 1) = {}
      BY <2>1, SMT
    <2>5. QED
      BY <2>1, <2>3, <2>4 DEF FdInv, Loading, Attaching
  <1>4. CASE CreateMap(l)
    <2> DEFINE s == sec[l]
               n == Len(maps[l]) + 1
    <2>1. /\ pc[l] = "maps" /\ pc'[l] = "maps" /\ file'[l] = file[l] /\ loads' = loads
          /\ progs' = progs /\ ~Exit(l)
      <3>1. /\ pc[l] = "maps" /\ pc'[l] = "maps" /\ file'[l] = file[l] /\ loads' = loads
            /\ progs' = progs
        BY <1>4 DEF CreateMap, local
      <3>2. QED
        BY <1>1, <3>1 DEF Exit, Goto
    <2>2. /\ s \in 1..NrMaps(file[l]) /\ NrMaps(file[l]) \in Nat /\ sec'[l] = s + 1
          /\ Len(maps'[l]) = n /\ n \in Nat \ {0}
          /\ DOMAIN map_fd'[l] = DOMAIN map_fd[l] \cup {s} /\ map_fd'[l][s] = n
          /\ \A j \in DOMAIN map_fd[l] : j # s => map_fd'[l][j] = map_fd[l][j]
          /\ DOMAIN map_data'[l] = DOMAIN map_data[l] /\ map_data'[l][s].fd = n
          /\ \A j \in DOMAIN map_data[l] :
               /\ map_data'[l][j].offset = map_data[l][j].offset
               /\ j # s => map_data'[l][j] = map_data[l][j]
      BY <1>4, NewMapFacts
    <2>3. /\ Has(file[l], "symtab") /\ DOMAIN map_data[l] = 1..NrMaps(file[l])
          /\ \A j \in 1..NrMaps(file[l]) : map_data[l][j].offset = Offset(file[l], j)
          /\ \A j \in 1..(s - 1) : Ready(l, j)
      BY <1>0, <2>1 DEF FdInv
    <2>4. Len(maps[l]) \in Nat
      BY SMT DEF TypeInv
    <2>5. ASSUME NEW j \in 1..s PROVE Ready(l, j)'
      <3>1. CASE j # s
        <4>1. Ready(l, j)
          BY <2>2, <2>3, <3>1, SMT
        <4>2. j \in DOMAIN map_fd[l] /\ j \in DOMAIN map_data[l]
          BY <2>2, <2>3, <4>1, SMT DEF Ready
        <4>3. /\ j \in DOMAIN map_fd'[l] /\ map_fd'[l][j] = map_fd[l][j]
              /\ map_data'[l][j] = map_data[l][j]
          BY <2>2, <3>1, <4>2
        <4>4. Len(maps'[l]) \in Nat /\ Len(maps'[l]) >= Len(maps[l])
          BY <2>2, <2>4, SMT
        <4>5. QED
          BY <2>1, <4>1, <4>3, <4>4, StaysReady
      <3>2. CASE j = s
        <4>1. ASSUME NEW k \in DOMAIN progs[l], NEW x \in DOMAIN progs[l][k].imm
              PROVE  progs[l][k].imm[x] # n
          <5>1. progs[l][k].imm[x] \in 1..Len(maps[l])
            BY <1>0 DEF ShareInv, RefersTo
          <5>2. QED
            BY <2>4, <5>1, SMT
        <4>2. n \in 1..Len(maps'[l])
          BY <2>2, SMT
        <4> HIDE DEF n
        <4>3. QED
          BY <2>1, <2>2, <3>2, <4>1, <4>2 DEF Ready, Mine
      <3>3. QED
        BY <3>1, <3>2
    <2>6. sec'[l] - 1 = s
      BY <2>2, SMT
    <2> HIDE DEF s, n
    <2>7. \A j \in 1..(sec'[l] - 1) : Ready(l, j)'
      BY <2>5, <2>6
    <2>8. QED
      BY <2>1, <2>2, <2>3, <2>7 DEF FdInv, Loading, Attaching
  <1>5. CASE Relocate(l)
    <2>1. /\ pc[l] = "maps" /\ pc'[l] = "load" /\ file' = file /\ sec[l] > NrMaps(file[l])
          /\ map_fd' = map_fd /\ map_data' = map_data /\ maps' = maps /\ progs' = progs
          /\ loads' = loads
          /\ imm'[l] = [s \in ProgSecs(file[l]) |-> Patched(l, RelsOf(file[l], s))]
      BY <1>1, <1>5 DEF Relocate, objects, local, Goto
    <2>2. NrMaps(file[l]) \in Nat
      BY <1>0, <2>1, MapFacts DEF OrderInv, FdInv
    <2>3. sec[l] - 1 = NrMaps(file[l])
      <3>1. sec[l] \in 1..(NrMaps(file[l]) + 1)
        BY <1>0, <2>1 DEF TableInv
      <3>2. QED
        BY <2>1, <2>2, <3>1, SMT
    <2>4. \A j \in 1..NrMaps(file[l]) : Ready(l, j)
      BY <1>0, <2>1, <2>3 DEF FdInv
    <2>5. \A s \in ProgSecs(file[l]) : Sound(l, s, Patched(l, RelsOf(file[l], s)))
      BY <1>0, <2>1, PatchedIsSound
    <2>6. \A s \in ProgSecs(file[l]) : Sound(l, s, imm'[l][s])
      BY <2>1, <2>5
    <2>7. \A s \in ProgSecs(file[l]) : Sound(l, s, imm[l][s])'
      BY <2>1, <2>6 DEF Sound
    <2>8. \A j \in 1..NrMaps(file[l]) : Ready(l, j)'
      BY <2>1, <2>4 DEF Ready, Mine
    <2>9. QED
      BY <1>0, <2>1, <2>7, <2>8 DEF FdInv, Loading, Attaching
  <1>6. CASE SetBpf(l) \/ Hops(l) \/ GoesOn(l)
    <2>1. pc[l] \in Loading /\ pc'[l] \in Loading
      BY <1>1, <1>6 DEF SetBpf, Hops, GoesOn, LoadProgram, MayLoad, Proceed, Loading, Attaching, Goto
    <2>2. ~Exit(l)
      BY <1>1, <2>1 DEF Exit, Goto, Loading, Attaching
    <2>3. /\ map_fd' = map_fd /\ map_data' = map_data /\ imm' = imm
          /\ file' = file /\ loads' = loads /\ Len(maps'[l]) = Len(maps[l])
      BY <2>1, <2>2, LoadingTables
    <2>4. /\ \A j \in 1..NrMaps(file[l]) : Ready(l, j)
          /\ \A s \in ProgSecs(file[l]) : Sound(l, s, imm[l][s])
      BY <1>0, <2>1 DEF FdInv
    <2>5. Len(maps[l]) \in Nat /\ Len(maps[l]) >= Len(maps[l])
      BY SMT DEF TypeInv
    <2>6. \A j \in 1..NrMaps(file[l]) : Ready(l, j)'
      <3> TAKE j \in 1..NrMaps(file[l])
      <3>1. Ready(l, j) /\ j \in DOMAIN map_fd[l]
        BY <2>4 DEF Ready
      <3>2. QED
        BY <2>2, <2>3, <2>5, <3>1, StaysReady
    <2>7. \A s \in ProgSecs(file[l]) : Sound(l, s, imm[l][s])'
      BY <2>3, <2>4 DEF Sound
    <2>8. QED
      BY <1>0, <2>1, <2>3, <2>6, <2>7 DEF FdInv, Loading, Attaching
  <1>7. QED
    BY <1>2, <1>3, <1>4, <1>5, <1>6, Kinds

-----------------------------------------------------------------------------
(* What programs refer to *)

\* The verifier lets a program through only if every instruction has the
\* descriptor of the map it names, and that is in map_fd[] too.
LEMMA NewImm ==
  ASSUME TypeInv, NEW l \in Loaders, OrderInv(l), FdInv(l), LoadProgram(l)
  PROVE  LET code == imm[l][sec[l]]
             rels == RelsOf(file[l], sec[l])
         IN  /\ DOMAIN code = DOMAIN rels
             /\ \A x \in DOMAIN code : \E j \in 1..NrMaps(file[l]) :
                  /\ code[x] = map_data[l][j].fd /\ code[x] = map_fd[l][j]
                  /\ code[x] \in 1..Len(maps[l])
                  /\ Position(file[l], rels[x].value) = j
                  /\ Ready(l, j)
  <1> DEFINE code == imm[l][sec[l]]
             rels == RelsOf(file[l], sec[l])
  <1>1. pc[l] = "load" /\ sec[l] \in ProgSecs(file[l]) /\ file[l] \in Files
    BY NewProgram
  <1>2. /\ Has(file[l], "symtab") /\ Sound(l, sec[l], code)
        /\ \A j \in 1..NrMaps(file[l]) : Ready(l, j)
    BY <1>1 DEF FdInv, Loading
  <1>3. /\ DOMAIN code = DOMAIN rels
        /\ \A n \in DOMAIN code : code[n] > 0 =>
             \E j \in 1..NrMaps(file[l]) : Offset(file[l], j) = rels[n].value
                                           /\ code[n] = map_data[l][j].fd
    BY <1>2 DEF Sound
  <1>4. \A n \in DOMAIN rels : code[n] > 0
    BY DEF LoadProgram, MayLoad, Verifies
  <1> HIDE DEF code, rels
  <1>5. ASSUME NEW x \in DOMAIN code
        PROVE  \E j \in 1..NrMaps(file[l]) :
                 /\ code[x] = map_data[l][j].fd /\ code[x] = map_fd[l][j]
                 /\ code[x] \in 1..Len(maps[l])
                 /\ Position(file[l], rels[x].value) = j
                 /\ Ready(l, j)
    <2>1. PICK j \in 1..NrMaps(file[l]) : Offset(file[l], j) = rels[x].value
                                          /\ code[x] = map_data[l][j].fd
      BY <1>3, <1>4
    <2>2. Position(file[l], rels[x].value) = j
      BY <1>1, <1>2, <2>1, MapFacts
    <2>3. Ready(l, j) /\ code[x] = map_fd[l][j] /\ code[x] \in 1..Len(maps[l])
      BY <1>2, <2>1 DEF Ready
    <2>4. QED
      BY <2>1, <2>2, <2>3
  <1>6. QED
    BY <1>3, <1>5 DEF code, rels

\* There are never fewer maps than before.
LEMMA MapsGrow ==
  ASSUME TypeInv, NEW l \in Loaders, LoaderInv(l), Act(l), ~Exit(l)
  PROVE  1..Len(maps[l]) \subseteq 1..Len(maps'[l])
  <1>0. Len(maps[l]) \in Nat
    BY SMT DEF TypeInv
  <1>1. Len(maps'[l]) = Len(maps[l]) \/ Len(maps'[l]) = Len(maps[l]) + 1
    <2>1. CASE LoadTailCall(l) /\ prog_array_fd[l] > 0 /\ Populate(l)
      BY <2>1, PopulateFacts DEF LoadTailCall, LoaderInv
    <2>2. QED
      BY <2>1, MapsAfter
  <1>2. QED
    BY <1>0, <1>1, SMT

LEMMA OldRefersTo ==
  ASSUME TypeInv, NEW l \in Loaders, LoaderInv(l), Act(l), ~Exit(l), NEW k \in DOMAIN progs[l],
         progs'[l][k] = progs[l][k]
  PROVE  RefersTo(l, k)'
  <1> DEFINE p == progs[l][k]
  <1>0. OrderInv(l) /\ ShareInv(l)
    BY DEF LoaderInv
  <1>1. pc[l] # "idle"
    <2>1. progs[l] # <<>>
      BY SMT
    <2>2. QED
      BY <1>0, <2>1 DEF OrderInv
  <1>2. ~Start(l) /\ file'[l] = file[l] /\ (loads' = loads \/ Reload(l))
    BY <1>1, Changes DEF Start
  <1>3. /\ \A n \in DOMAIN p.imm : p.imm[n] \in 1..Len(maps[l])
        /\ DOMAIN p.imm = DOMAIN RelsOf(file[l], p.sec)
        /\ Mine(l, k) /\ pc[l] \notin Before =>
             \A n \in DOMAIN p.imm :
               p.imm[n] = map_fd[l][Position(file[l], RelsOf(file[l], p.sec)[n].value)]
        /\ Mine(l, k) /\ pc[l] \in Loading =>
             \A n \in DOMAIN p.imm :
               \E j \in 1..NrMaps(file[l]) : p.imm[n] = map_data[l][j].fd
    BY <1>0 DEF ShareInv, RefersTo
  <1>4. \A n \in DOMAIN p.imm : p.imm[n] \in 1..Len(maps'[l])
    BY <1>3, MapsGrow
  <1>5. ASSUME Mine(l, k)', pc'[l] \notin Before
        PROVE  Mine(l, k) /\ pc[l] \notin Before /\ ~Reload(l)
    <2>1. ~Reload(l)
      BY <1>5 DEF Reload, Goto, Before, TypeInv
    <2>2. Mine(l, k)
      BY <1>2, <1>5, <2>1 DEF Mine
    <2>3. QED
      BY <1>0, <2>1, <2>2 DEF OrderInv
  <1>6. ASSUME Mine(l, k)', pc'[l] \notin Before
        PROVE  \A n \in DOMAIN p.imm :
                 p.imm[n] = map_fd'[l][Position(file'[l], RelsOf(file'[l], p.sec)[n].value)]
    <2>1. map_fd' = map_fd
      BY <1>5, <1>6, Changes DEF CreateMap, MapRefused, Before
    <2>2. QED
      BY <1>2, <1>3, <1>5, <1>6, <2>1
  <1>7. ASSUME Mine(l, k)', pc'[l] \in Loading
        PROVE  \A n \in DOMAIN p.imm :
                 \E j \in 1..NrMaps(file'[l]) : p.imm[n] = map_data'[l][j].fd
    <2>1. pc'[l] \notin Before
      BY <1>7 DEF Loading, Attaching, Before
    <2>2. pc[l] \in Loading
      <3>1. pc[l] \in Locations /\ pc[l] \notin Before /\ ~Reload(l)
        BY <1>5, <1>7, <2>1 DEF TypeInv
      <3>2. pc[l] # "returned"
        <4>1. CASE Step(l)
          BY <4>1 DEF Step, Unreadable, Begin, Unloadable, Scan, CreateMap, MapRefused,
             Relocate, LoadRefused, LoadPassive, LoadMisnamed, LoadTailCall,
             LoadRawTracepoint, LoadTracepoint, LoadKprobe, LoadProgram, MayLoad,
             RegisterSys, RegisterPlain, RegisterRefused, ReadId, NoSuchEvent, PerfOpen,
             SetBpf, AttachRefused, Finish
        <4>2. QED
          BY <1>2, <3>1, <4>1 DEF Act
      <3>3. QED
        BY <1>1, <3>1, <3>2 DEF Locations, Loading, Attaching, Before
    <2>3. map_data' = map_data
      BY <2>2, LoadingTables
    <2>4. QED
      BY <1>2, <1>3, <1>5, <1>7, <2>1, <2>2, <2>3
  <1>8. progs'[l][k] = p /\ DOMAIN p.imm = DOMAIN RelsOf(file'[l], p.sec)
    BY <1>2, <1>3
  <1> HIDE DEF p
  <1>9. QED
    BY <1>4, <1>6, <1>7, <1>8 DEF RefersTo

LEMMA NewRefersTo ==
  ASSUME TypeInv, NEW l \in Loaders, LoaderInv(l), Act(l), ~Exit(l), NEW k \in DOMAIN progs'[l],
         LoadProgram(l), progs'[l][k].sec = sec[l], progs'[l][k].imm = imm[l][sec[l]]
  PROVE  RefersTo(l, k)'
  <1>0. OrderInv(l) /\ FdInv(l) /\ pc[l] \in Loading
    BY DEF LoaderInv, LoadProgram, MayLoad, Loading
  <1>1. /\ map_fd' = map_fd /\ map_data' = map_data /\ file' = file
        /\ Len(maps'[l]) = Len(maps[l])
    BY <1>0, LoadingTables
  <1> DEFINE code == imm[l][sec[l]]
             rels == RelsOf(file[l], sec[l])
  <1>2. /\ DOMAIN code = DOMAIN rels
        /\ \A x \in DOMAIN code : \E j \in 1..NrMaps(file[l]) :
             /\ code[x] = map_data[l][j].fd /\ code[x] = map_fd[l][j]
             /\ code[x] \in 1..Len(maps[l])
             /\ Position(file[l], rels[x].value) = j
    BY <1>0, NewImm
  <1> HIDE DEF code, rels
  <1>3. /\ \A x \in DOMAIN code : code[x] \in 1..Len(maps[l])
        /\ \A x \in DOMAIN code : code[x] = map_fd[l][Position(file[l], rels[x].value)]
        /\ \A x \in DOMAIN code : \E j \in 1..NrMaps(file[l]) : code[x] = map_data[l][j].fd
    BY <1>2
  <1>4. /\ progs'[l][k].imm = code /\ RelsOf(file'[l], progs'[l][k].sec) = rels
        /\ file'[l] = file[l] /\ map_fd'[l] = map_fd[l] /\ map_data'[l] = map_data[l]
    BY <1>1 DEF code, rels
  <1>5. QED
    BY <1>1, <1>2, <1>3, <1>4 DEF RefersTo

LEMMA ShareStep ==
  ASSUME TypeInv, NEW l \in Loaders, LoaderInv(l), Act(l)
  PROVE  ShareInv(l)'
  <1>0. OrderInv(l) /\ FdInv(l) /\ ShareInv(l)
    BY DEF LoaderInv
  <1>1. CASE Exit(l)
    <2>1. progs'[l] = <<>>
      BY <1>1 DEF Exit, TypeInv
    <2>2. DOMAIN progs'[l] = {}
      BY <2>1, SMT
    <2>3. QED
      BY <2>2 DEF ShareInv
  <1>2. CASE ~Exit(l)
    <2>1. \A k \in DOMAIN progs'[l] : RefersTo(l, k)'
      BY <1>2, ProgramsAfter, OldRefersTo, NewRefersTo
    <2>2. ASSUME NEW j \in DOMAIN progs[l], progs[l][j].load # loads[l], LoadProgram(l),
                 NEW m \in DOMAIN progs[l][j].imm, NEW n \in DOMAIN imm[l][sec[l]]
          PROVE  progs[l][j].imm[m] # imm[l][sec[l]][n]
      <3>1. \E i \in 1..NrMaps(file[l]) : imm[l][sec[l]][n] = map_fd[l][i] /\ Ready(l, i)
        BY <1>0, <2>2, NewImm
      <3>2. QED
        BY <2>2, <3>1 DEF Ready, Mine
    <2>3. ASSUME NEW j \in DOMAIN progs'[l], NEW k \in DOMAIN progs'[l],
                 progs'[l][j].load # progs'[l][k].load,
                 NEW m \in DOMAIN progs'[l][j].imm, NEW n \in DOMAIN progs'[l][k].imm
          PROVE  progs'[l][j].imm[m] # progs'[l][k].imm[n]
      <3> DEFINE Old(i) == i \in DOMAIN progs[l] /\ progs'[l][i] = progs[l][i]
                 New(i) == LoadProgram(l) /\ progs'[l][i].load = loads[l]
                             /\ progs'[l][i].imm = imm[l][sec[l]]
      <3>1. (Old(j) \/ New(j)) /\ (Old(k) \/ New(k))
        BY <1>2, ProgramsAfter
      <3>2. CASE Old(j) /\ Old(k)
        BY <1>0, <2>3, <3>2 DEF ShareInv
      <3>3. CASE Old(j) /\ New(k)
        BY <2>2, <2>3, <3>3
      <3>4. CASE New(j) /\ Old(k)
        BY <2>2, <2>3, <3>4
      <3>5. QED
        BY <2>3, <3>1, <3>2, <3>3, <3>4
    <2>4. QED
      BY <2>1, <2>3 DEF ShareInv
  <1>3. QED
    BY <1>1, <1>2

-----------------------------------------------------------------------------
(* The list of kprobe events *)

\* A process that takes part alone is the only one that does anything.
LEMMA AloneActor ==
  ASSUME TypeInv, ListInv, Alone, NEW l \in Loaders, Act(l)
  PROVE  \A m \in Loaders : m # l => pc[m] = "idle"
  <1>1. l \in scene.loaders
    <2>1. CASE Start(l)
      BY <2>1 DEF Start
    <2>2. CASE ~Start(l)
      <3>1. pc[l] # "idle"
        <4>1. CASE Reload(l) \/ Exit(l)
          BY <4>1 DEF Reload, Exit
        <4>2. CASE Step(l)
          BY <4>2 DEF Step, Unreadable, Begin, Unloadable, Scan, CreateMap, MapRefused,
             Relocate, LoadRefused, LoadPassive, LoadMisnamed, LoadTailCall,
             LoadRawTracepoint, LoadTracepoint, LoadKprobe, LoadProgram, MayLoad,
             RegisterSys, RegisterPlain, RegisterRefused, ReadId, NoSuchEvent, PerfOpen,
             SetBpf, AttachRefused, Finish
        <4>3. QED
          BY <2>2, <4>1, <4>2 DEF Act
      <3>2. QED
        BY <3>1 DEF ListInv
    <2>3. QED
      BY <2>1, <2>2
  <1>2. PICK x : scene.loaders = {x}
    BY DEF Alone
  <1>3. QED
    BY <1>1, <1>2 DEF ListInv

\* The list after a step.
LEMMA ListAfter ==
  ASSUME NEW l \in Loaders, Act(l)
  PROVE  \/ kprobe_events' = kprobe_events
         \/ Begin(l)
         \/ \E p \in {"__x64_", NoName} : Register(l, p)
  <1>1. CASE RegisterSys(l)
    BY <1>1 DEF RegisterSys
  <1>2. CASE RegisterPlain(l)
    BY <1>2 DEF RegisterPlain
  <1>3. QED
    BY <1>1, <1>2, Changes

\* What Register adds.
LEMMA RegisterFacts ==
  ASSUME NEW l \in Loaders, NEW p, Register(l, p), TypeInv
  PROVE  LET new == [name |-> <<p, Event(l).name>>, kind |-> ProbeKind(Event(l)),
                     by |-> <<l, starts[l]>>]
         IN  /\ kprobe_events' = {e \in kprobe_events : e.name # new.name} \cup {new}
             /\ id'[l] = new /\ pc'[l] = "readid"
             /\ new.name[2] = Event(l).name
             /\ new.kind = IF Event(l).type = "kprobe" THEN "p" ELSE "r"
             /\ new.by = <<l, starts[l]>>
  <1> DEFINE new == [name |-> <<p, Event(l).name>>, kind |-> ProbeKind(Event(l)),
                     by |-> <<l, starts[l]>>]
  <1>1. /\ new.name[2] = Event(l).name /\ new.by = <<l, starts[l]>>
        /\ new.kind = IF Event(l).type = "kprobe" THEN "p" ELSE "r"
    BY DEF ProbeKind
  <1>2. /\ kprobe_events' = {e \in kprobe_events : e.name # new.name} \cup {new}
        /\ id' = [id EXCEPT ![l] = new] /\ pc' = [pc EXCEPT ![l] = "readid"]
    BY DEF Register, Goto
  <1> HIDE DEF new
  <1>3. id'[l] = new /\ pc'[l] = "readid"
    BY <1>2 DEF TypeInv
  <1>4. QED
    BY <1>1, <1>2, <1>3 DEF new

\* A process that is past the clearing was so before, or has just done it.
LEMMA ClearedAfter ==
  ASSUME TypeInv, NEW l \in Loaders, LoaderInv(l), Act(l), Cleared(l)'
  PROVE  starts'[l] = starts[l] /\ (Cleared(l) \/ (Begin(l) /\ events[l] = <<>>))
  <1>0. /\ pc \in [Loaders -> Locations] /\ loads \in [Loaders -> Nat] /\ ret \in [Loaders -> Int]
        /\ EventInv(l)
    BY DEF TypeInv, LoaderInv
  <1> USE DEF Loading, Attaching, Goto
  <1>1. ~Start(l) /\ ~Exit(l)
    <2>1. ~Start(l)
      <3> SUFFICES ASSUME Start(l) PROVE FALSE
        OBVIOUS
      <3>1. pc'[l] = "begin" /\ loads'[l] = 1
        BY <1>0 DEF Start
      <3>2. QED
        BY <3>1, SMT DEF Cleared
    <2>2. ~Exit(l)
      BY <1>0 DEF Exit, Cleared
    <2>3. QED
      BY <2>1, <2>2
  <1>2. starts'[l] = starts[l]
    BY <1>1, Changes
  <1>3. CASE Reload(l)
    BY <1>2, <1>3 DEF Reload, Cleared
  <1>4. CASE Begin(l)
    <2>1. loads[l] > 0 /\ pc[l] = "begin"
      BY <1>0, <1>4 DEF EventInv, Begin
    <2>2. CASE loads[l] = 1
      BY <1>0, <1>2, <1>4, <2>1, <2>2 DEF EventInv
    <2>3. CASE loads[l] > 1
      BY <1>2, <2>1, <2>3 DEF Cleared
    <2>4. QED
      BY <1>0, <1>2, <2>1, <2>2, <2>3, SMT
  <1>5. CASE Scan(l) \/ CreateMap(l) \/ Relocate(l) \/ SetBpf(l) \/ Finish(l)
    BY <1>2, <1>5 DEF Scan, CreateMap, Relocate, SetBpf, Finish, Cleared
  <1>6. CASE Hops(l) \/ GoesOn(l)
    BY <1>2, <1>6 DEF Hops, GoesOn, LoadProgram, MayLoad, Cleared
  <1>7. CASE Gives(l)
    <2>1. pc'[l] = "returned" /\ ret'[l] # 0 /\ loads' = loads /\ pc[l] # "idle"
      BY <1>0, <1>7, SMT DEF Gives, Return, local
    <2>2. loads[l] > 1
      BY <2>1 DEF Cleared
    <2>3. pc[l] \in Locations \ {"idle"}
      BY <1>0, <2>1
    <2>4. QED
      BY <1>2, <2>2, <2>3 DEF Cleared, Locations
  <1>8. QED
    BY <1>1, <1>2, <1>3, <1>4, <1>5, <1>6, <1>7, Kinds

LEMMA ListStep ==
  ASSUME IInv, NEW l \in Loaders, Act(l)
  PROVE  ListInv'
  <1>0. TypeInv /\ ListInv /\ \A m \in Loaders : LoaderInv(m)
    BY DEF IInv
  <1>1. \A d, e \in kprobe_events' : d.name = e.name => d = e
    <2>1. \A d, e \in kprobe_events : d.name = e.name => d = e
      BY <1>0 DEF ListInv
    <2>2. CASE kprobe_events' = kprobe_events
      BY <2>1, <2>2
    <2>3. CASE Begin(l)
      BY <2>1, <2>3 DEF Begin, ClearKprobes
    <2>4. CASE \E p \in {"__x64_", NoName} : Register(l, p)
      <3>1. PICK new : kprobe_events' = {e \in kprobe_events : e.name # new.name} \cup {new}
        BY <2>4 DEF Register
      <3>2. QED
        BY <2>1, <3>1
    <2>5. QED
      BY <2>2, <2>3, <2>4, ListAfter
  <1>2. scene' = scene
    BY Changes
  <1>3. \A m \in Loaders \ scene'.loaders : pc'[m] = "idle"
    <2> SUFFICES ASSUME NEW m \in Loaders, m \notin scene.loaders PROVE pc'[m] = "idle"
      BY <1>2
    <2>1. pc[m] = "idle"
      BY <1>0 DEF ListInv
    <2>2. CASE m = l
      <3>1. ~Step(l) /\ ~Reload(l) /\ ~Exit(l)
        BY <2>1, <2>2 DEF Reload, Exit, Step, Unreadable, Begin, Unloadable, Scan, CreateMap,
           MapRefused, Relocate, LoadRefused, LoadPassive, LoadMisnamed, LoadTailCall,
           LoadRawTracepoint, LoadTracepoint, LoadKprobe, LoadProgram, MayLoad,
           RegisterSys, RegisterPlain, RegisterRefused, ReadId, NoSuchEvent, PerfOpen,
           SetBpf, AttachRefused, Finish
      <3>2. QED
        BY <2>2, <3>1 DEF Act, Start
    <2>3. CASE m # l
      BY <1>0, <2>1, <2>3, OthersPc
    <2>4. QED
      BY <2>2, <2>3
  <1>4. ASSUME Alone', NEW m \in Loaders, Cleared(m)', NEW e \in kprobe_events'
        PROVE  e.by = <<m, starts'[m]>>
    <2>1. Alone
      BY <1>2, <1>4 DEF Alone
    <2>2. \A k \in Loaders : k # l => pc[k] = "idle"
      BY <1>0, <2>1, AloneActor
    <2>3. m = l
      <3> SUFFICES ASSUME m # l PROVE FALSE
        OBVIOUS
      <3>1. pc'[m] = "idle"
        BY <1>0, <2>2, OthersPc
      <3>2. QED
        BY <1>4, <3>1 DEF Cleared, Loading, Attaching
    <2>4. starts'[l] = starts[l] /\ (Cleared(l) \/ (Begin(l) /\ events[l] = <<>>))
      BY <1>0, <1>4, <2>3, ClearedAfter
    <2>5. Cleared(l) => \A d \in kprobe_events : d.by = <<l, starts[l]>>
      BY <1>0, <2>1 DEF ListInv
    <2>6. CASE Begin(l) /\ events[l] = <<>>
      <3>1. \A k \in Loaders : DOMAIN events[k] = {}
        <4>1. \A k \in Loaders : events[k] = <<>>
          BY <1>0, <2>2, <2>6 DEF LoaderInv, EventInv
        <4>2. QED
          BY <4>1, SMT
      <3>2. InUse = {}
        BY <3>1 DEF InUse
      <3>3. kprobe_events' = {}
        BY <2>6, <3>2 DEF Begin, ClearKprobes
      <3>4. QED
        BY <1>4, <3>3
    <2>7. CASE Cleared(l)
      <3>1. CASE kprobe_events' \subseteq kprobe_events
        BY <1>4, <2>3, <2>4, <2>5, <2>7, <3>1
      <3>2. CASE Begin(l)
        BY <3>1, <3>2 DEF Begin, ClearKprobes
      <3>3. CASE \E p \in {"__x64_", NoName} : Register(l, p)
        <4>1. PICK p \in {"__x64_", NoName} : Register(l, p)
          BY <3>3
        <4>2. PICK new : /\ kprobe_events' = {d \in kprobe_events : d.name # new.name} \cup {new}
                         /\ new.by = <<l, starts[l]>>
          BY <1>0, <4>1, RegisterFacts
        <4>3. QED
          BY <1>4, <2>3, <2>4, <2>5, <2>7, <4>2
      <3>4. QED
        BY <3>1, <3>2, <3>3, ListAfter
    <2>8. QED
      BY <2>4, <2>6, <2>7
  <1>5. QED
    BY <1>1, <1>3, <1>4 DEF ListInv

-----------------------------------------------------------------------------
(* Programs at the events they declare *)

\* An event that has a program had it before, or has just got it.
LEMMA EventsAfter ==
  ASSUME TypeInv, NEW l \in Loaders, LoaderInv(l), Act(l), ~Exit(l), NEW j \in DOMAIN events'[l],
         events'[l][j].prog # 0
  PROVE  \/ j \in DOMAIN events[l] /\ events'[l][j] = events[l][j]
         \/ /\ LoadRawTracepoint(l)
            /\ events'[l][j].on.name = <<"raw", Event(l).name>>
            /\ events'[l][j].prog = Len(progs[l]) + 1
         \/ /\ SetBpf(l) /\ events'[l][j].on = events[l][Len(events[l])].on
            /\ events'[l][j].prog = Len(progs[l])
  <1>0. events[l] \in Seq(Attached) /\ events \in [Loaders -> Seq(Attached)] /\ ConnectInv(l)
    BY DEF TypeInv, LoaderInv
  <1>1. CASE events' = events
    BY <1>1
  <1>2. CASE LoadRawTracepoint(l) /\ events' # events
    <2> DEFINE n == Len(events[l])
               e == [on |-> [name |-> <<"raw", Event(l).name>>, kind |-> "t", by |-> <<>>],
                     prog |-> Len(progs[l]) + 1]
    <2>1. events' = [events EXCEPT ![l] = Append(events[l], e)]
      BY <1>0, <1>2 DEF LoadRawTracepoint
    <2>2. e.on.name = <<"raw", Event(l).name>> /\ e.prog = Len(progs[l]) + 1
      OBVIOUS
    <2> HIDE DEF e
    <2>3. events'[l] = Append(events[l], e)
      BY <1>0, <2>1
    <2>4. /\ n \in Nat /\ DOMAIN events[l] = 1..n /\ DOMAIN events'[l] = 1..(n + 1)
          /\ events'[l][n + 1] = e /\ \A i \in 1..n : events'[l][i] = events[l][i]
      BY <1>0, <2>3, SMT
    <2> HIDE DEF n
    <2>5. j \in 1..n \/ j = n + 1
      BY <2>4, SMT
    <2>6. QED
      BY <1>2, <2>2, <2>4, <2>5
  <1>3. CASE PerfOpen(l)
    <2> DEFINE n == Len(events[l])
    <2>1. /\ n \in Nat /\ DOMAIN events[l] = 1..n /\ DOMAIN events'[l] = 1..(n + 1)
          /\ events'[l][n + 1].prog = 0 /\ \A i \in 1..n : events'[l][i] = events[l][i]
      BY <1>3, PerfOpenFacts
    <2> HIDE DEF n
    <2>2. j \in 1..n \/ j = n + 1
      BY <2>1, SMT
    <2>3. QED
      BY <2>1, <2>2
  <1>4. CASE SetBpf(l)
    BY <1>0, <1>4, SetBpfFacts
  <1>5. QED
    BY <1>1, <1>2, <1>3, <1>4, Changes

\* Steps after which load_and_attach holds the id of an event.
LEMMA HasId ==
  ASSUME TypeInv, NEW l \in Loaders, Act(l), pc'[l] \in {"readid", "perfopen"}
  PROVE  \/ LoadTracepoint(l) /\ pc'[l] = "readid"
         \/ (\E p \in {"__x64_", NoName} : Register(l, p)) /\ (RegisterSys(l) \/ RegisterPlain(l))
         \/ ReadId(l) /\ pc'[l] = "perfopen"
  <1>0. pc \in [Loaders -> Locations]
    BY DEF TypeInv
  <1>1. ~Start(l) /\ ~Reload(l) /\ ~Exit(l) /\ ~Unreadable(l) /\ ~Begin(l) /\ ~Unloadable(l)
        /\ ~Scan(l)
    BY <1>0 DEF Start, Reload, Exit, Unreadable, Begin, Unloadable, Scan, Return, Goto
  <1>2. ~CreateMap(l) /\ ~MapRefused(l) /\ ~Relocate(l)
    BY <1>0 DEF CreateMap, MapRefused, Relocate, Return, Goto
  <1>3. ~LoadRefused(l) /\ ~LoadMisnamed(l) /\ ~LoadPassive(l)
    BY <1>0 DEF LoadRefused, LoadMisnamed, LoadPassive, Proceed, Abandon, Return, Goto
  <1>4. ~LoadTailCall(l) /\ ~LoadRawTracepoint(l)
    BY <1>0 DEF LoadTailCall, LoadRawTracepoint, Proceed, Abandon, Return, Goto
  <1>5. ~LoadKprobe(l) /\ (LoadTracepoint(l) => pc'[l] = "readid")
    BY <1>0 DEF LoadTracepoint, LoadKprobe, Goto
  <1>6. /\ ~RegisterRefused(l) /\ (ReadId(l) => pc'[l] = "perfopen")
        /\ RegisterSys(l) => Register(l, "__x64_")
        /\ RegisterPlain(l) => Register(l, NoName)
    BY <1>0 DEF RegisterSys, RegisterPlain, RegisterRefused, ReadId, Abandon, Return, Goto
  <1>7. ~NoSuchEvent(l) /\ ~SetBpf(l) /\ ~AttachRefused(l) /\ ~Finish(l) /\ ~PerfOpen(l)
    BY <1>0 DEF NoSuchEvent, SetBpf, AttachRefused, Finish, PerfOpen, Proceed, Abandon,
       Return, Goto
  <1>8. QED
    BY <1>1, <1>2, <1>3, <1>4, <1>5, <1>6, <1>7 DEF Act, Step

\* The id is that of an event the section declares.
LEMMA IdStep ==
  ASSUME TypeInv, ListInv, NEW l \in Loaders, LoaderInv(l), Act(l),
         pc'[l] \in {"readid", "perfopen"}
  PROVE  /\ Declared(l, id[l], Event(l))'
         /\ pc'[l] = "readid" /\ Alone' /\ Event(l)'.type \in Kprobe => id'[l] \in kprobe_events'
  <1>0. EventInv(l) /\ id \in [Loaders -> Defined]
    BY DEF LoaderInv, TypeInv
  <1>1. scene' = scene /\ (Alone' <=> Alone)
    BY Changes DEF Alone
  <1>2. CASE LoadTracepoint(l)
    <2>1. /\ id'[l] = [name |-> <<"events", Event(l).name>>, kind |-> "t", by |-> <<>>]
          /\ file' = file /\ sec' = sec /\ Event(l).type = "tracepoint"
      BY <1>0, <1>2 DEF LoadTracepoint, IsNamed, local
    <2>2. id'[l].name[2] = Event(l).name
      BY <2>1, SMT
    <2>3. Event(l)' = Event(l) /\ Event(l).type \notin Kprobe
      BY <2>1 DEF Event, Kprobe
    <2>4. QED
      BY <2>2, <2>3 DEF Declared
  <1>3. CASE (\E p \in {"__x64_", NoName} : Register(l, p)) /\ (RegisterSys(l) \/ RegisterPlain(l))
    <2>1. PICK p : Register(l, p)
      BY <1>3
    <2>2. PICK new : /\ kprobe_events' = {e \in kprobe_events : e.name # new.name} \cup {new}
                     /\ id'[l] = new
                     /\ new.name[2] = Event(l).name
                     /\ new.kind = IF Event(l).type = "kprobe" THEN "p" ELSE "r"
                     /\ new.by = <<l, starts[l]>>
      BY <2>1, RegisterFacts
    <2>3. file' = file /\ sec' = sec /\ starts' = starts
      BY <1>3 DEF RegisterSys, RegisterPlain, local
    <2>4. Event(l)' = Event(l)
      BY <2>3 DEF Event
    <2>5. QED
      BY <2>2, <2>3, <2>4 DEF Declared
  <1>4. CASE ReadId(l) /\ pc'[l] = "perfopen"
    <2>1. /\ file' = file /\ sec' = sec /\ starts' = starts /\ pc[l] = "readid"
          /\ id' = id \/ \E e \in kprobe_events : e.name = id[l].name /\ id'[l] = e
      BY <1>0, <1>4 DEF ReadId, local
    <2>2. Event(l)' = Event(l)
      BY <2>1 DEF Event
    <2>3. Declared(l, id[l], Event(l)) /\ (Alone /\ Event(l).type \in Kprobe => id[l] \in kprobe_events)
      BY <1>0, <2>1 DEF EventInv
    <2>4. id'[l].name = id[l].name /\ (Alone /\ Event(l).type \in Kprobe => id'[l] = id[l])
      BY <2>1, <2>3 DEF ListInv
    <2>5. QED
      BY <1>1, <1>4, <2>1, <2>2, <2>3, <2>4 DEF Declared
  <1>5. QED
    BY <1>2, <1>3, <1>4, HasId

LEMMA EventStep ==
  ASSUME TypeInv, ListInv, NEW l \in Loaders, LoaderInv(l), Act(l)
  PROVE  EventInv(l)'
  <1>0. OrderInv(l) /\ FdInv(l) /\ EventInv(l) /\ ConnectInv(l)
    BY DEF LoaderInv
  <1>1. pc \in [Loaders -> Locations] /\ loads \in [Loaders -> Nat] /\ DOMAIN events = Loaders
    BY DEF TypeInv
  <1>2. /\ pc'[l] = "idle" \/ (pc'[l] = "begin" /\ loads'[l] = 1) => events'[l] = <<>>
        /\ pc'[l] # "idle" => loads'[l] > 0
    <2>1. CASE Start(l)
      <3>1. pc[l] = "idle" /\ pc'[l] = "begin" /\ loads'[l] = 1 /\ events' = events
        BY <1>1, <2>1 DEF Start, Goto, objects
      <3>2. events[l] = <<>>
        BY <1>0, <3>1 DEF EventInv
      <3>3. loads'[l] > 0
        BY <3>1, SMT
      <3>4. QED
        BY <3>1, <3>2, <3>3
    <2>2. CASE Reload(l)
      <3>1. pc[l] = "returned" /\ pc'[l] = "begin" /\ loads'[l] = loads[l] + 1
        BY <1>1, <2>2 DEF Reload, Goto
      <3>2. loads[l] \in Nat /\ loads[l] > 0
        BY <1>0, <1>1, <3>1 DEF EventInv
      <3>3. QED
        BY <3>1, <3>2, SMT
    <2>3. CASE Exit(l)
      BY <1>1, <2>3 DEF Exit, Goto
    <2>4. CASE ~Start(l) /\ ~Reload(l) /\ ~Exit(l)
      <3>1. pc[l] # "idle" /\ pc'[l] \notin {"idle", "begin"}
        <4>1. CASE Begin(l) \/ Scan(l) \/ CreateMap(l) \/ Relocate(l) \/ SetBpf(l)
          BY <1>1, <4>1 DEF Begin, Scan, CreateMap, Relocate, SetBpf, Proceed, Goto
        <4>2. CASE Finish(l) \/ Gives(l) \/ Hops(l) \/ GoesOn(l)
          BY <1>1, <4>2 DEF Finish, Gives, Hops, GoesOn, Return, Proceed, Goto, Attaching,
             LoadProgram, MayLoad
        <4>3. QED
          BY <2>4, <4>1, <4>2, Kinds
      <3>2. loads' = loads
        BY <2>4, Changes
      <3>3. QED
        BY <1>0, <3>1, <3>2 DEF EventInv
    <2>5. QED
      BY <2>1, <2>2, <2>3, <2>4
  <1>3. ASSUME NEW j \in DOMAIN events'[l], events'[l][j].prog # 0
        PROVE  /\ events'[l][j].prog \in DOMAIN progs'[l]
               /\ Declared(l, events[l][j].on, file[l][progs[l][events[l][j].prog].sec].event)'
    <2>1. ~Exit(l)
      <3> SUFFICES ASSUME Exit(l) PROVE FALSE
        OBVIOUS
      <3>1. events'[l] = <<>>
        BY <1>1 DEF Exit
      <3>2. QED
        BY <1>3, <3>1, SMT
    <2>2. scene' = scene /\ (Alone' <=> Alone)
      BY Changes DEF Alone
    <2>3. CASE j \in DOMAIN events[l] /\ events'[l][j] = events[l][j]
      <3> DEFINE k == events[l][j].prog
      <3>1. k \in DOMAIN progs[l] /\ Declared(l, events[l][j].on, file[l][progs[l][k].sec].event)
        BY <1>0, <1>3, <2>3 DEF EventInv
      <3>2. k \in DOMAIN progs'[l] /\ progs'[l][k] = progs[l][k]
        BY <2>1, <3>1, ProgramsStay
      <3>3. ~Start(l)
        <4>1. events[l] # <<>>
          BY <2>3, SMT
        <4>2. QED
          BY <1>0, <4>1 DEF EventInv, Start
      <3>4. file' = file /\ starts' = starts
        BY <3>3, Changes
      <3>5. QED
        BY <2>2, <2>3, <3>1, <3>2, <3>4 DEF Declared
    <2>4. CASE /\ LoadRawTracepoint(l) /\ events'[l][j].on.name = <<"raw", Event(l).name>>
               /\ events'[l][j].prog = Len(progs[l]) + 1
      <3> DEFINE k == Len(progs[l]) + 1
      <3>1. LoadProgram(l) /\ Event(l).type = "raw_tracepoint" /\ file' = file
        BY <2>4 DEF LoadRawTracepoint, local
      <3>2. /\ k \in Nat \ {0} /\ DOMAIN progs'[l] = 1..k
            /\ progs'[l][k] = [load |-> loads[l], sec |-> sec[l], imm |-> imm[l][sec[l]]]
        BY <1>0, <3>1, NewProgram, SMT
      <3>3. k \in DOMAIN progs'[l] /\ progs'[l][k].sec = sec[l]
        BY <3>2, SMT
      <3>4. /\ file'[l][progs'[l][k].sec].event.type \notin Kprobe
            /\ file'[l][progs'[l][k].sec].event.name = Event(l).name
        BY <3>1, <3>3 DEF Event, Kprobe
      <3>5. events'[l][j].on.name[2] = Event(l).name
        BY <2>4, SMT
      <3> HIDE DEF k
      <3>6. events'[l][j].prog = k
        BY <2>4 DEF k
      <3>7. QED
        BY <3>3, <3>4, <3>5, <3>6 DEF Declared
    <2>5. CASE /\ SetBpf(l) /\ events'[l][j].on = events[l][Len(events[l])].on
               /\ events'[l][j].prog = Len(progs[l])
      <3> DEFINE k == Len(progs[l])
      <3>1. pc[l] = "setbpf" /\ file' = file /\ progs' = progs /\ starts' = starts
        BY <2>5 DEF SetBpf, local
      <3>2. k > 0 /\ progs[l][k].sec = sec[l]
        BY <1>0, <3>1 DEF OrderInv, Attaching
      <3>3. k \in DOMAIN progs[l]
        BY <3>2, SMT DEF TypeInv
      <3>4. Declared(l, events[l][Len(events[l])].on, Event(l))
        BY <1>0, <3>1 DEF EventInv
      <3> HIDE DEF k
      <3>5. events'[l][j].prog = k
        BY <2>5 DEF k
      <3>6. QED
        BY <2>2, <2>5, <3>1, <3>2, <3>3, <3>4, <3>5 DEF Declared, Event
    <2>6. QED
      BY <1>3, <2>1, <2>3, <2>4, <2>5, EventsAfter
  <1>4. ASSUME pc'[l] = "setbpf"
        PROVE  Declared(l, events[l][Len(events[l])].on, Event(l))'
    <2>1. PerfOpen(l)
      BY <1>4, OpensEvent
    <2>2. events'[l][Len(events'[l])].on = id[l]
      BY <2>1, PerfOpenFacts
    <2>3. pc[l] = "perfopen" /\ file' = file /\ sec' = sec /\ starts' = starts /\ scene' = scene
      BY <2>1 DEF PerfOpen, local
    <2>4. Declared(l, id[l], Event(l))
      BY <1>0, <2>3 DEF EventInv
    <2>5. QED
      BY <2>2, <2>3, <2>4 DEF Declared, Event, Alone
  <1>5. QED
    BY <1>2, <1>3, <1>4, IdStep DEF EventInv

-----------------------------------------------------------------------------
(* The invariant holds *)

\* A loader whose state is as before keeps its invariant, unless the list
\* of kprobe events changes while it relies on it.
LEMMA Framed ==
  ASSUME NEW m \in Loaders, LoaderInv(m),
         pc'[m] = pc[m] /\ sec'[m] = sec[m] /\ ret'[m] = ret[m],
         file'[m] = file[m] /\ starts'[m] = starts[m] /\ loads'[m] = loads[m],
         map_fd'[m] = map_fd[m] /\ map_data'[m] = map_data[m],
         prog_array_fd'[m] = prog_array_fd[m] /\ imm'[m] = imm[m] /\ id'[m] = id[m],
         maps'[m] = maps[m] /\ progs'[m] = progs[m] /\ events'[m] = events[m],
         scene' = scene,
         kprobe_events' = kprobe_events \/ (Alone => pc[m] = "idle")
  PROVE  LoaderInv(m)'
  <1>0. \A k : Mine(m, k)' <=> Mine(m, k)
    BY DEF Mine
  <1>1. OrderInv(m)' /\ DoneInv(m)'
    <2>1. \A s : Loaded(m, s)' <=> Loaded(m, s)
      BY <1>0 DEF Loaded
    <2>2. OrderInv(m)'
      BY <1>0 DEF LoaderInv, OrderInv
    <2>3. DoneInv(m)'
      BY <2>1 DEF LoaderInv, DoneInv
    <2>4. QED
      BY <2>2, <2>3
  <1>2. ConnectInv(m)'
    <2>1. \A k : Connected(m, k)' <=> Connected(m, k)
      BY DEF Connected
    <2>2. Settled(m)' <=> Settled(m)
      BY DEF Settled
    <2>3. QED
      BY <2>1, <2>2 DEF LoaderInv, ConnectInv
  <1>3. TableInv(m)'
    <2>1. Filling(m)' <=> Filling(m)
      BY DEF Filling
    <2>2. TableInv(m)
      BY DEF LoaderInv
    <2>3. \A i \in DOMAIN maps[m] : \A j \in DOMAIN maps[m][i] :
            LET k == maps[m][i][j]
            IN  /\ k \in DOMAIN progs[m]
                /\ IsTailCall(file[m][progs[m][k].sec].event)
                /\ file[m][progs[m][k].sec].event.idx = j
      BY <2>2 DEF TableInv
    <2> DEFINE a == prog_array_fd[m]
    <2>4. /\ pc[m] = "idle" => a = -1
          /\ a \in {-1} \cup (1..Len(maps[m]))
          /\ a # -1 => HasArray(file[m], NrMaps(file[m]))
          /\ pc[m] = "maps" => sec[m] \in 1..(NrMaps(file[m]) + 1)
          /\ a # -1 /\ Filling(m) =>
               \A i \in DOMAIN maps[m][a] : progs[m][maps[m][a][i]].load = loads[m]
      BY <2>2 DEF TableInv, Mine
    <2> DEFINE b == prog_array_fd'[m]
    <2>5. /\ pc'[m] = "idle" => b = -1
          /\ b \in {-1} \cup (1..Len(maps'[m]))
          /\ b # -1 => HasArray(file'[m], NrMaps(file'[m]))
          /\ pc'[m] = "maps" => sec'[m] \in 1..(NrMaps(file'[m]) + 1)
          /\ b # -1 /\ Filling(m)' =>
               \A i \in DOMAIN maps'[m][b] : progs'[m][maps'[m][b][i]].load = loads'[m]
      BY <2>1, <2>4
    <2>6. \A i \in DOMAIN maps'[m] : \A j \in DOMAIN maps'[m][i] :
            LET k == maps'[m][i][j]
            IN  /\ k \in DOMAIN progs'[m]
                /\ IsTailCall(file'[m][progs'[m][k].sec].event)
                /\ file'[m][progs'[m][k].sec].event.idx = j
      <3>1. ASSUME NEW i \in DOMAIN maps'[m], NEW j \in DOMAIN maps'[m][i]
            PROVE  /\ maps'[m][i][j] \in DOMAIN progs'[m]
                   /\ IsTailCall(file'[m][progs'[m][maps'[m][i][j]].sec].event)
                   /\ file'[m][progs'[m][maps'[m][i][j]].sec].event.idx = j
        <4> DEFINE k == maps[m][i][j]
                   e == file[m][progs[m][k].sec].event
        <4>0. i \in DOMAIN maps[m] /\ j \in DOMAIN maps[m][i]
          BY <3>1
        <4>1. k \in DOMAIN progs[m] /\ IsTailCall(e) /\ e.idx = j
          BY <2>3, <4>0
        <4>2. maps'[m][i][j] = k /\ file'[m][progs'[m][k].sec].event = e
          OBVIOUS
        <4> HIDE DEF k, e
        <4>3. QED
          BY <4>1, <4>2
      <3>2. QED
        BY <3>1
    <2>7. QED
      BY <2>5, <2>6 DEF TableInv, Mine
  <1>4. FdInv(m)'
    <2>1. \A j : Ready(m, j)' <=> Ready(m, j)
      BY <1>0 DEF Ready
    <2>2. \A s : Sound(m, s, imm[m][s])' <=> Sound(m, s, imm[m][s])
      <3> DEFINE SoundIn(f, d, s, code) ==
            /\ code \in Seq(Int)
            /\ DOMAIN code = DOMAIN RelsOf(f, s)
            /\ \A n \in DOMAIN code : code[n] > 0 =>
                 \E j \in 1..NrMaps(f) : /\ Offset(f, j) = RelsOf(f, s)[n].value
                                         /\ code[n] = d[j].fd
      <3>1. \A s : /\ Sound(m, s, imm[m][s]) <=> SoundIn(file[m], map_data[m], s, imm[m][s])
                   /\ Sound(m, s, imm[m][s])' <=> SoundIn(file'[m], map_data'[m], s, imm'[m][s])
        BY DEF Sound
      <3> HIDE DEF SoundIn
      <3>2. QED
        BY <3>1
    <2>3. QED
      BY <2>1, <2>2 DEF LoaderInv, FdInv
  <1>5. ShareInv(m)'
    <2>1. \A k : RefersTo(m, k)' <=> RefersTo(m, k)
      <3> DEFINE RefersIn(p, q, f, fds, d, n, mine) ==
            /\ \A x \in DOMAIN p.imm : p.imm[x] \in 1..n
            /\ DOMAIN p.imm = DOMAIN RelsOf(f, p.sec)
            /\ mine /\ q \notin Before =>
                 \A x \in DOMAIN p.imm :
                   p.imm[x] = fds[Position(f, RelsOf(f, p.sec)[x].value)]
            /\ mine /\ q \in Loading =>
                 \A x \in DOMAIN p.imm : \E j \in 1..NrMaps(f) : p.imm[x] = d[j].fd
      <3>1. \A k : RefersTo(m, k) <=>
              RefersIn(progs[m][k], pc[m], file[m], map_fd[m], map_data[m], Len(maps[m]),
                       progs[m][k].load = loads[m])
        BY DEF RefersTo, Mine
      <3>2. \A k : RefersTo(m, k)' <=>
              RefersIn(progs'[m][k], pc'[m], file'[m], map_fd'[m], map_data'[m], Len(maps'[m]),
                       progs'[m][k].load = loads'[m])
        BY DEF RefersTo, Mine
      <3> HIDE DEF RefersIn
      <3>3. QED
        BY <3>1, <3>2
    <2>2. ShareInv(m)
      BY DEF LoaderInv
    <2>3. \A k \in DOMAIN progs'[m] : RefersTo(m, k)'
      BY <2>1, <2>2 DEF ShareInv
    <2> DEFINE Apart(ps) ==
          \A j, k \in DOMAIN ps : ps[j].load # ps[k].load =>
            \A x \in DOMAIN ps[j].imm, y \in DOMAIN ps[k].imm : ps[j].imm[x] # ps[k].imm[y]
    <2>4. Apart(progs[m])
      BY <2>2 DEF ShareInv
    <2>5. Apart(progs'[m])
      <3> HIDE DEF Apart
      <3> QED
        BY <2>4
    <2>6. QED
      BY <2>3, <2>5 DEF ShareInv
  <1>6. EventInv(m)'
    <2>1. (Alone' <=> Alone) /\ Event(m)' = Event(m)
      BY DEF Alone, Event
    <2>2. \A on, ev : Declared(m, on, ev)' <=> Declared(m, on, ev)
      BY <2>1 DEF Declared
    <2>3. EventInv(m)
      BY DEF LoaderInv
    <2>4. \A j \in DOMAIN events'[m] : events'[m][j].prog # 0 =>
            /\ events'[m][j].prog \in DOMAIN progs'[m]
            /\ Declared(m, events[m][j].on, file[m][progs[m][events[m][j].prog].sec].event)'
      <3> SUFFICES ASSUME NEW j \in DOMAIN events[m], events[m][j].prog # 0
                   PROVE  /\ events[m][j].prog \in DOMAIN progs[m]
                          /\ Declared(m, events[m][j].on,
                                      file[m][progs[m][events[m][j].prog].sec].event)'
        OBVIOUS
      <3>1. /\ events[m][j].prog \in DOMAIN progs[m]
            /\ Declared(m, events[m][j].on, file[m][progs[m][events[m][j].prog].sec].event)
        BY <2>3 DEF EventInv
      <3>2. QED
        BY <2>1, <3>1 DEF Declared
    <2>5. /\ pc'[m] \in {"readid", "perfopen"} => Declared(m, id[m], Event(m))'
          /\ pc'[m] = "setbpf" => Declared(m, events[m][Len(events[m])].on, Event(m))'
      <3>1. /\ pc[m] \in {"readid", "perfopen"} => Declared(m, id[m], Event(m))
            /\ pc[m] = "setbpf" => Declared(m, events[m][Len(events[m])].on, Event(m))
        BY <2>3 DEF EventInv
      <3>2. pc'[m] \in {"readid", "perfopen"} => Declared(m, id[m], Event(m))'
        BY <2>1, <3>1 DEF Declared
      <3>3. pc'[m] = "setbpf" => Declared(m, events[m][Len(events[m])].on, Event(m))'
        BY <2>1, <3>1 DEF Declared
      <3>4. QED
        BY <3>2, <3>3
    <2>6. pc'[m] = "readid" /\ Alone' /\ Event(m)'.type \in Kprobe => id'[m] \in kprobe_events'
      <3>1. pc[m] = "readid" /\ Alone /\ Event(m).type \in Kprobe => id[m] \in kprobe_events
        BY <2>3 DEF EventInv
      <3>2. QED
        BY <2>1, <3>1
    <2>7. /\ pc'[m] = "idle" \/ (pc'[m] = "begin" /\ loads'[m] = 1) => events'[m] = <<>>
          /\ pc'[m] # "idle" => loads'[m] > 0
      BY <2>3 DEF EventInv
    <2>8. QED
      BY <2>4, <2>5, <2>6, <2>7 DEF EventInv
  <1>7. QED
    BY <1>1, <1>2, <1>3, <1>4, <1>5, <1>6 DEF LoaderInv

\* The other loaders keep theirs: all but the list of kprobe events is a
\* process's own, and a loader whose invariant speaks of the list is alone.
LEMMA OthersStep ==
  ASSUME TypeInv, ListInv, NEW l \in Loaders, NEW m \in Loaders, m # l, Act(l), LoaderInv(m)
  PROVE  LoaderInv(m)'
  <1>1. Alone => pc[m] = "idle"
    BY AloneActor
  <1>2. QED
    BY <1>1, Others, Framed

\* Every loader starts in it.
LEMMA IInvInit ==
  ASSUME FileFacts, Init
  PROVE  IInv
  <1>1. TypeInv
    <2> DEFINE nil == <<>>
               no == Nothing
    <2>1. nil \in Seq(Int) /\ nil \in Seq(MapData) /\ nil \in Seq(Tables) /\ nil \in Seq(Program)
          /\ nil \in Seq(Attached)
      BY SMT
    <2>2. no \in Defined
      <3>1. nil \in Authors
        BY AuthorFacts
      <3>2. <<NoName, NoName>> \in Prefixes \X Names
        BY DEF Prefixes, Names
      <3>3. no = [name |-> <<NoName, NoName>>, kind |-> NoName, by |-> nil]
        BY DEF Nothing
      <3> HIDE DEF no, nil
      <3>4. QED
        BY <3>1, <3>2, <3>3 DEF Defined
    <2>3. /\ scene \in Scenes /\ kprobe_events = {}
          /\ pc = [l \in Loaders |-> "idle"]
          /\ file = [l \in Loaders |-> nil]
          /\ starts = [l \in Loaders |-> 0] /\ loads = [l \in Loaders |-> 0]
          /\ sec = [l \in Loaders |-> 0] /\ ret = [l \in Loaders |-> 0]
          /\ map_fd = [l \in Loaders |-> nil] /\ map_data = [l \in Loaders |-> nil]
          /\ prog_array_fd = [l \in Loaders |-> -1] /\ imm = [l \in Loaders |-> nil]
          /\ id = [l \in Loaders |-> no] /\ maps = [l \in Loaders |-> nil]
          /\ progs = [l \in Loaders |-> nil] /\ events = [l \in Loaders |-> nil]
      BY DEF Init
    <2>4. file \in [Loaders -> Files \cup {<<>>}]
      BY <2>3
    <2> HIDE DEF nil, no
    <2>5. /\ kprobe_events \subseteq Defined /\ pc \in [Loaders -> Locations]
          /\ starts \in [Loaders -> Nat] /\ loads \in [Loaders -> Nat]
          /\ sec \in [Loaders -> Nat] /\ ret \in [Loaders -> Int]
          /\ prog_array_fd \in [Loaders -> Int] /\ DOMAIN imm = Loaders
      BY <2>3, SMT DEF Locations
    <2>6. /\ map_fd \in [Loaders -> Seq(Int)] /\ map_data \in [Loaders -> Seq(MapData)]
          /\ maps \in [Loaders -> Seq(Tables)] /\ progs \in [Loaders -> Seq(Program)]
          /\ events \in [Loaders -> Seq(Attached)] /\ id \in [Loaders -> Defined]
      BY <2>1, <2>2, <2>3
    <2>7. QED
      BY <2>3, <2>4, <2>5, <2>6 DEF TypeInv
  <1>2. ListInv
    <2>1. kprobe_events = {} /\ \A l \in Loaders : pc[l] = "idle"
      BY DEF Init
    <2>2. QED
      BY <2>1 DEF ListInv
  <1>3. ASSUME NEW l \in Loaders PROVE LoaderInv(l)
    <2>1. /\ pc[l] = "idle" /\ prog_array_fd[l] = -1 /\ progs[l] = <<>> /\ maps[l] = <<>>
          /\ events[l] = <<>>
      BY DEF Init
    <2>2. DOMAIN progs[l] = {} /\ DOMAIN maps[l] = {} /\ DOMAIN events[l] = {}
      BY <2>1, SMT
    <2> USE DEF Before, Loading, Attaching
    <2>3. OrderInv(l) /\ DoneInv(l) /\ ConnectInv(l)
      BY <2>1, <2>2 DEF OrderInv, DoneInv, ConnectInv
    <2>4. TableInv(l)
      BY <2>1, <2>2 DEF TableInv
    <2>5. FdInv(l) /\ ShareInv(l)
      BY <2>1, <2>2 DEF FdInv, ShareInv
    <2>6. EventInv(l)
      BY <2>1, <2>2 DEF EventInv
    <2>7. QED
      BY <2>3, <2>4, <2>5, <2>6 DEF LoaderInv
  <1>4. QED
    BY <1>1, <1>2, <1>3 DEF IInv

\* Every step preserves it.
LEMMA IInvStep == IInv /\ [Next]_vars => IInv'
  <1>1. ASSUME IInv, NEW l \in Loaders, Act(l) PROVE IInv'
    <2>1. TypeInv /\ ListInv /\ \A m \in Loaders : LoaderInv(m)
      BY <1>1 DEF IInv
    <2>2. LoaderInv(l)'
      <3>1. OrderInv(l)' /\ DoneInv(l)' /\ ConnectInv(l)' /\ TableInv(l)'
        BY <1>1, <2>1, OrderStep, DoneStep, ConnectStep, TableStep
      <3>2. FdInv(l)' /\ ShareInv(l)' /\ EventInv(l)'
        BY <1>1, <2>1, FdStep, ShareStep, EventStep
      <3>3. QED
        BY <3>1, <3>2 DEF LoaderInv
    <2>3. \A m \in Loaders : m # l => LoaderInv(m)'
      BY <1>1, <2>1, OthersStep
    <2>4. TypeInv' /\ ListInv'
      BY <1>1, <2>1, TypeStep, ListStep
    <2>5. QED
      BY <2>2, <2>3, <2>4 DEF IInv
  <1>2. ASSUME IInv, UNCHANGED vars PROVE IInv'
    <2>1. TypeInv'
      BY <1>2 DEF IInv, TypeInv, vars
    <2>2. ListInv'
      BY <1>2 DEF IInv, ListInv, Cleared, Alone, vars
    <2>3. \A l \in Loaders : LoaderInv(l)'
      BY <1>2, Framed DEF IInv, vars
    <2>4. QED
      BY <2>1, <2>2, <2>3 DEF IInv
  <1>3. QED
    BY <1>1, <1>2 DEF Next, Act

-----------------------------------------------------------------------------
(* Sizes *)

\* map_fd[] has descriptors of maps or -1, and prog_fd[] is large enough.
SizeInv(l) ==
  /\ starts[l] <= MaxStarts
  /\ file[l] \in scene.files \/ starts[l] = 0
  /\ loads[l] <= scene.loads
  /\ ret[l] \in {-1, 0, 1}
  /\ \A j \in DOMAIN map_fd[l] : map_fd[l][j] \in {-1} \cup (1..Len(maps[l]))
  /\ \A k \in DOMAIN progs[l] : progs[l][k].load > 0
  /\ Len(progs[l]) <= MAX_PROGS

\* A loader stays within the bounds.
LEMMA SizeStep ==
  ASSUME IInv, NEW l \in Loaders, SizeInv(l), Act(l)
  PROVE  SizeInv(l)'
  <1>0. /\ TypeInv /\ LoaderInv(l) /\ OrderInv(l) /\ FdInv(l) /\ EventInv(l)
        /\ scene' = scene /\ scene \in Scenes
    BY Changes DEF IInv, LoaderInv, TypeInv
  <1>1. /\ pc \in [Loaders -> Locations] /\ starts \in [Loaders -> Nat]
        /\ loads \in [Loaders -> Nat] /\ ret \in [Loaders -> Int]
        /\ DOMAIN file = Loaders /\ DOMAIN map_fd = Loaders
        /\ DOMAIN progs = Loaders /\ MaxStarts \in Nat /\ MAX_PROGS \in Nat
    BY <1>0, BoundsAssumption DEF TypeInv
  <1>2. scene.loads \in Nat \ {0}
    BY <1>0, ScenesAssumption
  <1>3. /\ starts'[l] <= MaxStarts
        /\ file'[l] \in scene.files \/ starts'[l] = 0
    <2>1. CASE Start(l)
      <3>1. starts[l] < MaxStarts /\ starts'[l] = starts[l] + 1 /\ file'[l] \in scene.files
        BY <1>1, <2>1 DEF Start
      <3>2. QED
        BY <1>1, <3>1, SMT
    <2>2. CASE ~Start(l)
      BY <2>2, Changes DEF SizeInv
    <2>3. QED
      BY <2>1, <2>2
  <1>4. loads'[l] <= scene.loads
    <2>1. CASE Start(l)
      BY <1>1, <1>2, <2>1, SMT DEF Start
    <2>2. CASE Reload(l)
      <3>1. loads[l] < scene.loads /\ loads'[l] = loads[l] + 1
        BY <1>1, <2>2 DEF Reload
      <3>2. QED
        BY <1>1, <1>2, <3>1, SMT
    <2>3. CASE ~Start(l) /\ ~Reload(l)
      BY <2>3, Changes DEF SizeInv
    <2>4. QED
      BY <2>1, <2>2, <2>3
  <1>5. ret'[l] \in {-1, 0, 1}
    <2>0. ret[l] \in {-1, 0, 1}
      BY DEF SizeInv
    <2>1. CASE Start(l) \/ Reload(l) \/ Exit(l) \/ Begin(l) \/ Scan(l)
      BY <1>1, <2>0, <2>1 DEF Start, Reload, Exit, Begin, Scan
    <2>2. CASE CreateMap(l) \/ Relocate(l) \/ SetBpf(l)
      BY <1>1, <2>0, <2>2 DEF CreateMap, Relocate, SetBpf, Proceed
    <2>3. CASE Finish(l) \/ Gives(l) \/ Hops(l) \/ GoesOn(l)
      BY <1>1, <2>0, <2>3 DEF Finish, Gives, Hops, GoesOn, Return, Proceed
    <2>4. QED
      BY <2>1, <2>2, <2>3, Kinds
  <1>6. \A j \in DOMAIN map_fd'[l] : map_fd'[l][j] \in {-1} \cup (1..Len(maps'[l]))
    <2>0. \A j \in DOMAIN map_fd[l] : map_fd[l][j] \in {-1} \cup (1..Len(maps[l]))
      BY DEF SizeInv
    <2>1. CASE Exit(l)
      <3>1. map_fd'[l] = <<>>
        BY <1>1, <2>1 DEF Exit
      <3>2. QED
        BY <3>1, SMT
    <2>2. CASE ~Exit(l)
      <3>1. 1..Len(maps[l]) \subseteq 1..Len(maps'[l])
        BY <1>0, <2>2, MapsGrow
      <3>2. CASE map_fd' = map_fd
        BY <2>0, <3>1, <3>2
      <3>3. CASE CreateMap(l)
        <4> DEFINE s == sec[l]
                   n == Len(maps[l]) + 1
        <4>1. /\ Len(maps'[l]) = n /\ n \in Nat \ {0}
              /\ DOMAIN map_fd'[l] = DOMAIN map_fd[l] \cup {s} /\ map_fd'[l][s] = n
              /\ \A j \in DOMAIN map_fd[l] : j # s => map_fd'[l][j] = map_fd[l][j]
          BY <1>0, <3>3, NewMapFacts
        <4>2. n \in 1..Len(maps'[l])
          BY <4>1, SMT
        <4> HIDE DEF s, n
        <4>3. QED
          BY <2>0, <3>1, <4>1, <4>2
      <3>4. CASE MapRefused(l)
        <4>1. map_fd'[l] = [k \in DOMAIN map_fd[l] \cup {sec[l]} |->
                              IF k = sec[l] THEN -1 ELSE map_fd[l][k]]
          BY <1>1, <3>4 DEF MapRefused, SetMapFd
        <4>2. QED
          BY <2>0, <3>1, <4>1
      <3>5. QED
        BY <2>2, <3>2, <3>3, <3>4, Changes
    <2>3. QED
      BY <2>1, <2>2
  <1>7. (\A k \in DOMAIN progs'[l] : progs'[l][k].load > 0) /\ Len(progs'[l]) <= MAX_PROGS
    <2>1. CASE Exit(l)
      <3>1. progs'[l] = <<>>
        BY <1>1, <2>1 DEF Exit
      <3>2. DOMAIN progs'[l] = {} /\ Len(progs'[l]) = 0
        BY <3>1, SMT
      <3>3. QED
        BY <1>1, <3>2, SMT
    <2>2. CASE ~Exit(l)
      <3>1. ASSUME NEW k \in DOMAIN progs'[l] PROVE progs'[l][k].load > 0
        <4>1. CASE k \in DOMAIN progs[l] /\ progs'[l][k] = progs[l][k]
          BY <4>1 DEF SizeInv
        <4>2. CASE LoadProgram(l) /\ progs'[l][k].load = loads[l]
          BY <1>0, <4>2 DEF LoadProgram, MayLoad, EventInv
        <4>3. QED
          BY <1>0, <2>2, <4>1, <4>2, ProgramsAfter
      <3>2. Len(progs'[l]) <= MAX_PROGS
        <4>1. CASE progs' = progs
          BY <4>1 DEF SizeInv
        <4>2. CASE LoadProgram(l)
          <5>1. Len(progs'[l]) = Len(progs[l]) + 1 /\ Len(progs[l]) \in Nat
            BY <1>0, <4>2, NewProgram
          <5>2. Len(progs[l]) < MAX_PROGS
            BY <4>2 DEF LoadProgram, MayLoad
          <5>3. QED
            BY <1>1, <5>1, <5>2, SMT
        <4>3. QED
          BY <2>2, <4>1, <4>2, Changes
      <3>3. QED
        BY <3>1, <3>2
    <2>3. QED
      BY <2>1, <2>2
  <1>8. QED
    BY <1>0, <1>3, <1>4, <1>5, <1>6, <1>7 DEF SizeInv

Sizes == \A l \in Loaders : SizeInv(l)

\* At the start nothing is used up.
LEMMA SizesInit == Init => Sizes
  <1> SUFFICES ASSUME Init, NEW l \in Loaders PROVE SizeInv(l)
    BY DEF Sizes
  <1>1. /\ starts[l] = 0 /\ loads[l] = 0 /\ ret[l] = 0 /\ map_fd[l] = <<>> /\ progs[l] = <<>>
        /\ scene \in Scenes
    BY DEF Init
  <1>2. DOMAIN map_fd[l] = {} /\ DOMAIN progs[l] = {} /\ Len(progs[l]) = 0
    BY <1>1, SMT
  <1>3. scene.loads \in Nat /\ MaxStarts \in Nat /\ MAX_PROGS \in Nat
    BY <1>1, ScenesAssumption, BoundsAssumption
  <1>4. QED
    BY <1>1, <1>2, <1>3, SMT DEF SizeInv

\* No step goes beyond the bounds.
LEMMA SizesStep == IInv /\ Sizes /\ [Next]_vars => Sizes'
  <1>1. ASSUME IInv, Sizes, NEW l \in Loaders, Act(l), NEW m \in Loaders PROVE SizeInv(m)'
    <2>1. CASE m = l
      BY <1>1, <2>1, SizeStep DEF Sizes
    <2>2. CASE m # l
      <3>1. /\ ret'[m] = ret[m] /\ file'[m] = file[m] /\ starts'[m] = starts[m]
            /\ loads'[m] = loads[m] /\ map_fd'[m] = map_fd[m] /\ maps'[m] = maps[m]
            /\ progs'[m] = progs[m] /\ scene' = scene
        BY <1>1, <2>2, Others DEF IInv
      <3>2. QED
        BY <1>1, <3>1 DEF Sizes, SizeInv
    <2>3. QED
      BY <2>1, <2>2
  <1>2. ASSUME Sizes, UNCHANGED vars PROVE Sizes'
    BY <1>2 DEF Sizes, SizeInv, vars
  <1>3. QED
    BY <1>1, <1>2 DEF Next, Act, Sizes

\* With the bounds the invariant gives the types.
LEMMA Types == IInv /\ Sizes => TypeOK
  <1> SUFFICES ASSUME IInv, Sizes PROVE TypeOK
    OBVIOUS
  <1>0. TypeInv /\ \A l \in Loaders : LoaderInv(l) /\ SizeInv(l)
    BY DEF IInv, Sizes
  <1>1. scene \in Scenes /\ pc \in [Loaders -> Locations] /\ sec \in [Loaders -> Nat]
    BY <1>0 DEF TypeInv
  <1>2. \A l \in Loaders : file[l] \in scene.files \/ starts[l] = 0
    BY <1>0 DEF SizeInv
  <1>3. starts \in [Loaders -> 0..MaxStarts]
    <2>1. MaxStarts \in Nat /\ starts \in [Loaders -> Nat]
      BY <1>0, BoundsAssumption DEF TypeInv
    <2>2. \A l \in Loaders : starts[l] <= MaxStarts
      BY <1>0 DEF SizeInv
    <2>3. QED
      BY <2>1, <2>2, SMT
  <1>4. loads \in [Loaders -> 0..scene.loads]
    <2>1. scene.loads \in Nat /\ loads \in [Loaders -> Nat]
      BY <1>0, <1>1, ScenesAssumption DEF TypeInv
    <2>2. \A l \in Loaders : loads[l] <= scene.loads
      BY <1>0 DEF SizeInv
    <2>3. QED
      BY <2>1, <2>2, SMT
  <1>5. ret \in [Loaders -> {-1, 0, 1}]
    BY <1>0 DEF TypeInv, SizeInv
  <1>6. ASSUME NEW l \in Loaders
        PROVE  /\ map_fd[l] \in Seq({-1} \cup (1..Len(maps[l])))
               /\ prog_array_fd[l] \in {-1} \cup (1..Len(maps[l]))
               /\ progs[l] \in Seq([load : 1..scene.loads, sec : ProgSecs(file[l]),
                                    imm : Seq(1..Len(maps[l]))])
               /\ \A k \in DOMAIN events[l] : events[l][k].prog \in 0..Len(progs[l])
               /\ Len(progs[l]) <= MAX_PROGS
    <2>0. OrderInv(l) /\ TableInv(l) /\ ShareInv(l) /\ EventInv(l) /\ SizeInv(l)
      BY <1>0 DEF LoaderInv
    <2>1. map_fd[l] \in Seq({-1} \cup (1..Len(maps[l])))
      <3> DEFINE R == {-1} \cup (1..Len(maps[l]))
                 t == map_fd[l]
      <3>1. t \in Seq(Int) /\ \A j \in DOMAIN t : t[j] \in R
        BY <1>0, <2>0 DEF TypeInv, SizeInv
      <3> HIDE DEF R, t
      <3>2. t \in Seq(R)
        BY <3>1, SMT
      <3>3. QED
        BY <3>2 DEF R, t
    <2>2. prog_array_fd[l] \in {-1} \cup (1..Len(maps[l]))
      BY <2>0 DEF TableInv
    <2>3. progs[l] \in Seq([load : 1..scene.loads, sec : ProgSecs(file[l]),
                            imm : Seq(1..Len(maps[l]))])
      <3> DEFINE R == [load : 1..scene.loads, sec : ProgSecs(file[l]),
                       imm : Seq(1..Len(maps[l]))]
                 t == progs[l]
      <3>1. t \in Seq(Program)
        BY <1>0 DEF TypeInv
      <3>2. ASSUME NEW k \in DOMAIN t PROVE t[k] \in R
        <4>1. t[k] \in Program
          <5> HIDE DEF t
          <5>1. QED
            BY <3>1, SMT
        <4>2. t[k].load \in 1..scene.loads
          <5>1. t[k].load \in Nat /\ loads[l] \in Nat /\ scene.loads \in Nat
            BY <1>0, <1>1, <4>1, ScenesAssumption DEF Program, TypeInv
          <5>2. t[k].load > 0 /\ loads[l] <= scene.loads /\ t[k].load <= loads[l]
            BY <2>0 DEF SizeInv, OrderInv
          <5>3. QED
            BY <5>1, <5>2, SMT
        <4>3. t[k].sec \in ProgSecs(file[l])
          BY <2>0 DEF OrderInv
        <4>4. t[k].imm \in Seq(1..Len(maps[l]))
          <5> DEFINE c == t[k].imm
                     D == 1..Len(maps[l])
          <5>1. c \in Seq(Int)
            BY <4>1 DEF Program
          <5>2. \A n \in DOMAIN c : c[n] \in D
            BY <2>0 DEF ShareInv, RefersTo
          <5> HIDE DEF c, D
          <5>3. c \in Seq(D)
            BY <5>1, <5>2, SMT
          <5>4. QED
            BY <5>3 DEF c, D
        <4>5. t[k] = [load |-> t[k].load, sec |-> t[k].sec, imm |-> t[k].imm]
          BY <4>1 DEF Program
        <4> HIDE DEF t
        <4>6. QED
          BY <4>2, <4>3, <4>4, <4>5
      <3> HIDE DEF R, t
      <3>3. t \in Seq(R)
        BY <3>1, <3>2, SMT
      <3>4. QED
        BY <3>3 DEF R, t
    <2>4. \A k \in DOMAIN events[l] : events[l][k].prog \in 0..Len(progs[l])
      <3> TAKE k \in DOMAIN events[l]
      <3>1. DOMAIN progs[l] = 1..Len(progs[l]) /\ Len(progs[l]) \in Nat
        BY <1>0, SMT DEF TypeInv
      <3>2. events[l][k].prog = 0 \/ events[l][k].prog \in DOMAIN progs[l]
        BY <2>0 DEF EventInv
      <3>3. QED
        BY <3>1, <3>2, SMT
    <2>5. Len(progs[l]) <= MAX_PROGS
      BY <2>0 DEF SizeInv
    <2>6. QED
      BY <2>1, <2>2, <2>3, <2>4, <2>5
  <1>7. QED
    BY <1>1, <1>2, <1>3, <1>4, <1>5, <1>6 DEF TypeOK

-----------------------------------------------------------------------------
(* What follows from the invariant *)

\* The other properties are consequences of the invariant alone.
LEMMA Consequences ==
  IInv => /\ ZeroMeansComplete /\ LiveInOrder /\ UserAndProbesShareMaps
          /\ LoadsAreIndependent /\ ProbesWhereDeclared /\ OldProbesAreGone
  <1>1. IInv => ZeroMeansComplete
    <2> SUFFICES ASSUME IInv, NEW l \in Loaders, pc[l] = "returned", ret[l] = 0,
                        NEW s \in ProgSecs(file[l])
                 PROVE  \E k \in DOMAIN progs[l] : /\ progs[l][k].sec = s
                                                   /\ progs[l][k].load = loads[l]
                                                   /\ Connected(l, k)
      BY DEF ZeroMeansComplete
    <2>1. DoneInv(l) /\ ConnectInv(l)
      BY DEF IInv, LoaderInv
    <2>2. PICK k \in DOMAIN progs[l] : progs[l][k].sec = s /\ progs[l][k].load = loads[l]
      BY <2>1 DEF DoneInv, Loaded, Mine
    <2>3. Connected(l, k)
      BY <2>1 DEF ConnectInv, Settled
    <2>4. QED
      BY <2>2, <2>3
  <1>2. IInv => LiveInOrder
    <2> SUFFICES ASSUME IInv, NEW l \in Loaders, NEW j \in DOMAIN progs[l],
                        NEW k \in DOMAIN progs[l], j < k
                 PROVE  /\ Connected(l, j)
                        /\ progs[l][j].load = progs[l][k].load
                             => progs[l][j].sec < progs[l][k].sec
      BY DEF LiveInOrder
    <2>1. OrderInv(l) /\ ConnectInv(l) /\ TypeInv
      BY DEF IInv, LoaderInv
    <2>2. j < Len(progs[l])
      <3>1. progs[l] \in Seq(Program)
        BY <2>1 DEF TypeInv
      <3>2. QED
        BY <3>1, SMT
    <2>3. QED
      BY <2>1, <2>2 DEF OrderInv, ConnectInv
  <1>3. IInv => UserAndProbesShareMaps
    <2> SUFFICES ASSUME IInv, NEW l \in Loaders, NEW k \in DOMAIN progs[l],
                        progs[l][k].load = loads[l], pc[l] \notin {"begin", "scan", "maps"},
                        NEW n \in DOMAIN RelsOf(file[l], progs[l][k].sec)
                 PROVE  progs[l][k].imm[n] =
                          map_fd[l][Position(file[l], RelsOf(file[l], progs[l][k].sec)[n].value)]
      BY DEF UserAndProbesShareMaps
    <2>1. RefersTo(l, k)
      BY DEF IInv, LoaderInv, ShareInv
    <2>2. QED
      BY <2>1 DEF RefersTo, Mine, Before
  <1>4. IInv => LoadsAreIndependent
    BY DEF IInv, LoaderInv, ShareInv, LoadsAreIndependent
  <1>5. IInv => ProbesWhereDeclared
    <2> SUFFICES ASSUME IInv, NEW l \in Loaders, NEW j \in DOMAIN events[l],
                        events[l][j].prog # 0
                 PROVE  LET e  == events[l][j]
                            ev == file[l][progs[l][e.prog].sec].event
                        IN  /\ e.on.name[2] = ev.name
                            /\ (Alone /\ ev.type \in Kprobe) =>
                                 /\ e.on.kind = IF ev.type = "kprobe" THEN "p" ELSE "r"
                                 /\ e.on.by = <<l, starts[l]>>
      BY DEF ProbesWhereDeclared
    <2>1. Declared(l, events[l][j].on, file[l][progs[l][events[l][j].prog].sec].event)
      BY DEF IInv, LoaderInv, EventInv
    <2>2. QED
      BY <2>1 DEF Declared
  <1>6. IInv => OldProbesAreGone
    <2> SUFFICES ASSUME IInv, Alone, NEW l \in Loaders,
                        pc[l] \notin {"idle", "begin"}, pc[l] # "returned",
                        NEW e \in kprobe_events
                 PROVE  e.by = <<l, starts[l]>>
      BY DEF OldProbesAreGone
    <2>1. pc[l] \in Locations
      BY DEF IInv, TypeInv
    <2>2. Cleared(l)
      BY <2>1 DEF Locations, Cleared, Loading, Attaching
    <2>3. QED
      BY <2>2 DEF IInv, ListInv
  <1>7. QED
    BY <1>1, <1>2, <1>3, <1>4, <1>5, <1>6

-----------------------------------------------------------------------------
(* Object files *)

INSTANCE FiniteSetTheorems

\* A set of numbers has a least one.
LEMMA LeastNumber ==
  ASSUME NEW S, S \subseteq Nat, S # {}
  PROVE  \E n \in S : \A m \in S : n <= m
  <1> DEFINE R == {ss \in Nat \X Nat : ss[1] < ss[2]}
  <1>1. \A m, n \in Nat : m < n => <<m, n>> \in R
    OBVIOUS
  <1>2. IsWellFoundedOn(R, Nat)
    BY NatLessThanWellFounded DEF OpToRel
  <1> HIDE DEF R
  <1>3. PICK n \in S : \A m \in S : ~(<<m, n>> \in R)
    BY <1>2, WFMin
  <1>4. \A m \in S : m \in Nat /\ n \in Nat /\ ~(m < n)
    BY <1>1, <1>3
  <1>5. QED
    BY <1>3, <1>4, SMT

\* Of n numbers there is one below which there are k - 1, for every k up to n.
LEMMA Ranks ==
  ASSUME NEW S, IsFiniteSet(S), S \subseteq Nat, NEW k \in 1..Cardinality(S)
  PROVE  \E o \in S : Cardinality({p \in S : p < o}) = k - 1
  <1> DEFINE n == Cardinality(S)
             Below(o) == {p \in S : p < o}
             r == [o \in S |-> Cardinality(Below(o))]
             T == 0..(n - 1)
  <1>1. n \in Nat
    BY FS_CardinalityType
  <1>2. \A o \in S : IsFiniteSet(Below(o)) /\ Cardinality(Below(o)) \in Nat
    <2> TAKE o \in S
    <2>1. IsFiniteSet(Below(o))
      BY FS_Subset
    <2>2. QED
      BY <2>1, FS_CardinalityType
  <1>3. \A o \in S : Cardinality(Below(o)) < n
    <2> TAKE o \in S
    <2>1. Below(o) \in SUBSET S /\ o \notin Below(o)
      BY SMT
    <2>2. Cardinality(Below(o)) <= n /\ (n = Cardinality(Below(o)) => S = Below(o))
      BY <2>1, FS_Subset
    <2>3. QED
      BY <1>1, <1>2, <2>1, <2>2, SMT
  <1>4. \A o, q \in S : o < q => Cardinality(Below(o)) < Cardinality(Below(q))
    <2> SUFFICES ASSUME NEW o \in S, NEW q \in S, o < q
                 PROVE  Cardinality(Below(o)) < Cardinality(Below(q))
      OBVIOUS
    <2>0. o \in Nat /\ q \in Nat /\ \A p \in S : p \in Nat /\ (p < o => p < q)
      BY SMT
    <2>1. Below(o) \in SUBSET Below(q) /\ o \in Below(q) /\ o \notin Below(o)
      <3>1. \A p \in Below(o) : p \in Below(q)
        BY <2>0
      <3>2. o \in Below(q) /\ o \notin Below(o)
        BY <2>0, SMT
      <3>3. QED
        BY <3>1, <3>2
    <2>2. /\ Cardinality(Below(o)) <= Cardinality(Below(q))
          /\ Cardinality(Below(q)) = Cardinality(Below(o)) => Below(q) = Below(o)
      BY <1>2, <2>1, FS_Subset
    <2>3. QED
      BY <1>2, <2>1, <2>2, SMT
  <1> HIDE DEF Below
  <1>5. r \in [S -> T]
    BY <1>1, <1>2, <1>3, SMT
  <1>6. \A o, q \in S : r[o] = r[q] => o = q
    <2>1. \A o, q \in S : o # q => o < q \/ q < o
      BY SMT
    <2>2. \A o, q \in S : r[o] = Cardinality(Below(o)) /\ r[q] = Cardinality(Below(q))
      OBVIOUS
    <2>3. QED
      BY <1>2, <1>4, <2>1, <2>2, SMT
  <1>7. r \in Injection(S, T)
    BY <1>5, <1>6 DEF Injection, IsInjective
  <1>8. IsFiniteSet(T) /\ Cardinality(T) = n
    <2>1. 0 \in Int /\ n - 1 \in Int
      BY <1>1, SMT
    <2>2. /\ IsFiniteSet(0..(n - 1))
          /\ Cardinality(0..(n - 1)) = IF 0 > n - 1 THEN 0 ELSE (n - 1) - 0 + 1
      BY <2>1, FS_Interval
    <2>3. QED
      BY <1>1, <2>2, SMT
  <1>9. r \in Surjection(S, T)
    BY <1>7, <1>8, FS_Injection
  <1>10. k - 1 \in T
    BY <1>1, SMT
  <1>11. \E o \in S : r[o] = k - 1
    BY <1>9, <1>10 DEF Surjection
  <1>12. QED
    BY <1>11 DEF Below

\* The symbols of a file that has a symbol table.
LEMMA SymbolsFacts ==
  ASSUME NEW f \in Files, Has(f, "symtab")
  PROVE  Symbols(f) \in Seq(Nat) /\ NrMaps(f) \in Nat
  <1>1. Indices(f, "symtab") # {} /\ Indices(f, "symtab") \subseteq DOMAIN f
    BY DEF Has, Indices
  <1>2. WellFormed(f) /\ DOMAIN f = 1..Len(f) /\ Len(f) \in Nat
    <2>1. f \in Seq({f[s] : s \in DOMAIN f})
      BY FilesAssumption DEF WellFormed
    <2>2. QED
      BY <2>1, FilesAssumption, SMT
  <1>3. \E s \in Indices(f, "symtab") : \A t \in Indices(f, "symtab") : t <= s
    <2> DEFINE D == {m \in Nat : \A t \in Indices(f, "symtab") : t <= m}
    <2>1. Indices(f, "symtab") \subseteq 1..Len(f)
      BY <1>1, <1>2
    <2>2. Len(f) \in D
      BY <1>2, <2>1, SMT
    <2>3. PICK b \in D : \A m \in D : b <= m
      BY <2>2, LeastNumber
    <2>4. b \in Indices(f, "symtab")
      <3> SUFFICES ASSUME b \notin Indices(f, "symtab") PROVE FALSE
        OBVIOUS
      <3>1. \A t \in Indices(f, "symtab") : t <= b - 1
        BY <2>1, <2>3, SMT
      <3>2. b - 1 \in D
        BY <1>1, <2>1, <3>1, SMT
      <3>3. QED
        BY <2>3, <3>2, SMT
    <2>5. QED
      BY <2>3, <2>4
  <1>4. Last(f, "symtab") \in Indices(f, "symtab")
    BY <1>3 DEF Last
  <1>5. Symbols(f) \in Seq(Nat)
    BY <1>2, <1>4 DEF WellFormed, Symbols
  <1>6. QED
    BY <1>5, SMT DEF NrMaps

\* The k-th map of the sorted table is the k-th in the maps section.
LEMMA PositionOfOffset ==
  ASSUME NEW f \in Files, Has(f, "symtab"), NEW k \in 1..NrMaps(f)
  PROVE  Offset(f, k) \in Nat /\ Position(f, Offset(f, k)) = k
  <1> DEFINE S == {Symbols(f)[j] : j \in DOMAIN Symbols(f)}
  <1>1. WellFormed(f) /\ Has(f, "maps") /\ NrMaps(f) = Len(Symbols(f))
    BY FilesAssumption, SMT DEF NrMaps
  <1>2. S = DOMAIN MapDefs(f) /\ Cardinality(S) = Len(Symbols(f))
    BY <1>1 DEF WellFormed
  <1>3. Symbols(f) \in Seq(Nat)
    BY SymbolsFacts
  <1>4. S \subseteq Nat
    BY <1>3, SMT
  <1>5. IsFiniteSet(S)
    <2> DEFINE h == [j \in DOMAIN Symbols(f) |-> Symbols(f)[j]]
    <2>1. DOMAIN Symbols(f) = 1..Len(Symbols(f)) /\ Len(Symbols(f)) \in Nat
      BY <1>3, SMT
    <2>2. h \in Surjection(DOMAIN Symbols(f), S)
      BY DEF Surjection
    <2>3. IsFiniteSet(DOMAIN Symbols(f))
      BY <2>1, FS_Interval, SMT
    <2>4. QED
      BY <2>2, <2>3, FS_Surjection
  <1>6. k \in 1..Cardinality(S)
    BY <1>1, <1>2
  <1>7. \E o \in S : Cardinality({p \in S : p < o}) = k - 1
    BY <1>4, <1>5, <1>6, Ranks
  <1> DEFINE o == Offset(f, k)
  <1>8. o \in S /\ Cardinality({p \in S : p < o}) = k - 1
    BY <1>7 DEF Offset
  <1> HIDE DEF S, o
  <1>9. {p \in S : p <= o} = {p \in S : p < o} \cup {o}
    <2>1. o \in Nat /\ \A p \in S : p <= o <=> p < o \/ p = o
      BY <1>4, <1>8, SMT
    <2>2. QED
      BY <1>8, <2>1
  <1>10. IsFiniteSet({p \in S : p < o}) /\ o \notin {p \in S : p < o}
    BY <1>4, <1>5, <1>8, FS_Subset, SMT
  <1>11. Cardinality({p \in S : p <= o}) = k - 1 + 1
    BY <1>8, <1>9, <1>10, FS_AddElement, SMT
  <1>12. QED
    BY <1>2, <1>4, <1>8, <1>11, SMT DEF Position, o

\* NextProg finds the first program section there is.
LEMMA FirstProgFacts ==
  ASSUME NEW f \in Files, NEW s \in Nat
  PROVE  /\ ProgSecs(f) \subseteq Nat \ {0}
         /\ NextProg(f, s) \in Nat
         /\ NextProg(f, s) = 0 => \A t \in ProgSecs(f) : t < s
         /\ NextProg(f, s) # 0 => /\ NextProg(f, s) \in ProgSecs(f)
                                  /\ NextProg(f, s) >= s
                                  /\ \A t \in ProgSecs(f) : t >= s => NextProg(f, s) <= t
  <1>1. DOMAIN f \subseteq Nat \ {0}
    <2>1. f \in Seq({f[t] : t \in DOMAIN f})
      BY FilesAssumption DEF WellFormed
    <2>2. DOMAIN f = 1..Len(f) /\ Len(f) \in Nat
      BY <2>1, SMT
    <2>3. QED
      BY <2>2, SMT
  <1>2. ProgSecs(f) \subseteq Nat \ {0}
    BY <1>1 DEF ProgSecs, Indices
  <1> DEFINE rest == {t \in ProgSecs(f) : t >= s}
  <1>3. rest # {} => \E t \in rest : \A u \in rest : t <= u
    BY <1>2, LeastNumber
  <1>4. NextProg(f, s) = IF rest = {} THEN 0
                         ELSE CHOOSE t \in rest : \A u \in rest : t <= u
    BY DEF NextProg
  <1>5. CASE rest = {}
    BY <1>2, <1>4, <1>5, SMT
  <1>6. CASE rest # {}
    <2>1. NextProg(f, s) \in rest /\ \A u \in rest : NextProg(f, s) <= u
      BY <1>3, <1>4, <1>6
    <2>2. QED
      BY <1>2, <2>1
  <1>7. QED
    BY <1>5, <1>6

\* So much for the constants: the facts hold of all files.
LEMMA AllFiles == FileFacts
  <1> SUFFICES ASSUME NEW f \in Files
               PROVE  /\ ProgSecs(f) \subseteq Nat \ {0}
                      /\ \A s \in Nat : FirstProg(f, s)
                      /\ Has(f, "symtab") =>
                           /\ NrMaps(f) \in Nat
                           /\ \A k \in 1..NrMaps(f) :
                                Offset(f, k) \in Nat /\ Position(f, Offset(f, k)) = k
    BY DEF FileFacts
  <1>1. \A s \in Nat : ProgSecs(f) \subseteq Nat \ {0} /\ FirstProg(f, s)
    BY FirstProgFacts DEF FirstProg
  <1>2. 0 \in Nat
    OBVIOUS
  <1>3. QED
    BY <1>1, <1>2, SymbolsFacts, PositionOfOffset

-----------------------------------------------------------------------------
(* The theorems *)

\* The invariant the properties of the loader follow from.
THEOREM Invariance == Spec => []IInv
  <1>1. Init => IInv
    BY IInvInit, AllFiles
  <1>2. QED
    BY <1>1, IInvStep, PTL DEF Spec

\* load_bpf_file returns 0 only if every program section of the file has been
\* loaded by this call and is connected.
THEOREM ZeroIsComplete == Spec => []ZeroMeansComplete
  BY Invariance, Consequences, PTL

\* The programs of a load go live in the order of the file.
THEOREM InOrder == Spec => []LiveInOrder
  BY Invariance, Consequences, PTL

\* What an instruction of the current load refers to is in map_fd[] at the
\* place the map has in the source.
THEOREM MapsAreShared == Spec => []UserAndProbesShareMaps
  BY Invariance, Consequences, PTL

\* No map is referred to by programs of two loads.
THEOREM IndependentLoads == Spec => []LoadsAreIndependent
  BY Invariance, Consequences, PTL

\* A program is attached to an event on the function its section names, of the
\* right kind and its own when no other loader is at work.
THEOREM AttachedWhereDeclared == Spec => []ProbesWhereDeclared
  BY Invariance, Consequences, PTL

\* Past the clearing of the list, a loader that is alone finds there no event
\* but its own.
THEOREM OldEventsAreGone == Spec => []OldProbesAreGone
  BY Invariance, Consequences, PTL

\* The descriptors of the loader's tables and of the patched instructions are
\* those of maps that exist, events have programs that were loaded, and
\* prog_fd[] never overflows.
THEOREM TypeCorrect == Spec => []TypeOK
  BY Invariance, SizesInit, SizesStep, Types, PTL DEF Spec
-----------------------------------------------------------------------------
(* The end of a load *)

\* How many steps a section may still take, itself and its event counted.
Turns(p) ==
  CASE p = "load"       -> 6
    [] p = "register64" -> 5
    [] p = "register"   -> 4
    [] p = "readid"     -> 3
    [] p = "perfopen"   -> 2
    [] OTHER            -> 1

MapCount(f) == IF Has(f, "symtab") THEN NrMaps(f) ELSE 0

\* How many steps a call that is at p, with map or section s of the file f at
\* hand, may still take.
Left(f, p, s) ==
  IF p \in {"idle", "returned"} THEN 0
  ELSE IF p = "begin" THEN 6 * Len(f) + MapCount(f) + 4
  ELSE IF p = "scan" THEN 6 * Len(f) + MapCount(f) + 3
  ELSE IF p = "maps" THEN 6 * Len(f) + (MapCount(f) + 1 - s) + 2
  ELSE IF s = 0 THEN 1
  ELSE 6 * (Len(f) - s) + Turns(p) + 1

StepsLeft(l) == Left(file[l], pc[l], sec[l])

\* Every step of load_bpf_file brings it nearer to its return, and no step of
\* another process, nor its own death, sets it back.
LoadAdvances ==
  \A l \in Loaders : /\ pc[l] \notin {"idle", "returned"} => StepsLeft(l)' <= StepsLeft(l)
                     /\ Step(l) => StepsLeft(l)' < StepsLeft(l)

\* A file has a number of sections and of maps.
LEMMA FileSizes ==
  ASSUME NEW f \in Files
  PROVE  Len(f) \in Nat /\ MapCount(f) \in Nat /\ ProgSecs(f) \subseteq 1..Len(f)
  <1>1. f \in Seq({f[t] : t \in DOMAIN f})
    BY FilesAssumption DEF WellFormed
  <1>2. DOMAIN f = 1..Len(f) /\ Len(f) \in Nat /\ 0 \in Nat
    BY <1>1, SMT
  <1>3. QED
    BY <1>2, SymbolsFacts DEF MapCount, ProgSecs, Indices

\* What a section may take.
LEMMA TurnsType == \A p : Turns(p) \in 1..6
  <1>1. \A n \in {1, 2, 3, 4, 5, 6} : n \in 1..6
    BY SMT
  <1>2. QED
    BY <1>1 DEF Turns

\* The values of Left.
LEMMA LeftFacts ==
  ASSUME NEW f \in Files, NEW s
  PROVE  /\ Left(f, "idle", s) = 0 /\ Left(f, "returned", s) = 0
         /\ Left(f, "begin", s) = 6 * Len(f) + MapCount(f) + 4
         /\ Left(f, "scan", s) = 6 * Len(f) + MapCount(f) + 3
         /\ Left(f, "maps", s) = 6 * Len(f) + (MapCount(f) + 1 - s) + 2
         /\ \A p \in Loading : s = 0 => Left(f, p, s) = 1
         /\ \A p \in Loading : s # 0 => Left(f, p, s) = 6 * (Len(f) - s) + Turns(p) + 1
  <1>1. \A p \in Loading : p \notin {"idle", "returned", "begin", "scan", "maps"}
    BY DEF Loading, Attaching
  <1>2. QED
    BY <1>1 DEF Left

\* The arithmetic of sections and turns.
LEMMA TurnsLeft ==
  \A n \in Nat, t \in 1..6 : \A s \in 1..n : \A x : x = 6 * (n - s) + t + 1 =>
    /\ x \in Nat /\ x >= 1 /\ 1 \in 1..(x - 1)
    /\ \A u \in 1..n : \A y : y = 6 * (n - u) + 6 + 1 /\ u >= s + 1 => y \in 1..(x - 1)
  BY SMTT(30)

\* The loop over the sections goes on with less to do, and begins with no more
\* than all sections.
LEMMA NextIsLess ==
  ASSUME TypeInv, NEW f \in Files
  PROVE  /\ Left(f, "load", NextProg(f, 1)) \in 1..(6 * Len(f) + 1)
         /\ \A s \in ProgSecs(f), p \in Loading :
              Left(f, "load", NextProg(f, s + 1)) \in 1..(Left(f, p, s) - 1)
  <1>1. Len(f) \in Nat /\ ProgSecs(f) \subseteq 1..Len(f) /\ "load" \in Loading
    BY FileSizes DEF Loading
  <1>2. Turns("load") = 6
    BY DEF Turns
  <1>3. ASSUME NEW s \in Nat
        PROVE  LET t == NextProg(f, s)
               IN  \/ t = 0 /\ Left(f, "load", t) = 1
                   \/ /\ t \in 1..Len(f) /\ t >= s
                      /\ Left(f, "load", t) = 6 * (Len(f) - t) + 6 + 1
    <2> DEFINE t == NextProg(f, s)
    <2>1. t # 0 => t \in ProgSecs(f) /\ t >= s
      BY <1>3, NextProgFacts
    <2>2. t = 0 => Left(f, "load", t) = 1
      BY <1>1, LeftFacts
    <2>3. t # 0 => Left(f, "load", t) = 6 * (Len(f) - t) + Turns("load") + 1
      BY <1>1, LeftFacts
    <2>4. QED
      BY <1>1, <1>2, <2>1, <2>2, <2>3
  <1>4. Left(f, "load", NextProg(f, 1)) \in 1..(6 * Len(f) + 1)
    <2> DEFINE t == NextProg(f, 1)
    <2>1. 1 \in Nat
      BY SMT
    <2>2. \/ t = 0 /\ Left(f, "load", t) = 1
          \/ /\ t \in 1..Len(f) /\ t >= 1
             /\ Left(f, "load", t) = 6 * (Len(f) - t) + 6 + 1
      BY <1>3, <2>1
    <2> HIDE DEF t
    <2>3. Left(f, "load", t) \in 1..(6 * Len(f) + 1)
      BY <1>1, <2>2, SMT
    <2>4. QED
      BY <2>3 DEF t
  <1>5. ASSUME NEW s \in ProgSecs(f), NEW p \in Loading
        PROVE  Left(f, "load", NextProg(f, s + 1)) \in 1..(Left(f, p, s) - 1)
    <2> DEFINE t == NextProg(f, s + 1)
    <2>1. s \in 1..Len(f) /\ s # 0 /\ s + 1 \in Nat
      <3>1. s \in 1..Len(f)
        BY <1>1
      <3>2. QED
        BY <3>1, SMT
    <2>2. \/ t = 0 /\ Left(f, "load", t) = 1
          \/ /\ t \in 1..Len(f) /\ t >= s + 1
             /\ Left(f, "load", t) = 6 * (Len(f) - t) + 6 + 1
      BY <1>3, <2>1
    <2>3. Left(f, p, s) = 6 * (Len(f) - s) + Turns(p) + 1 /\ Turns(p) \in 1..6
      BY <2>1, LeftFacts, TurnsType
    <2> HIDE DEF t
    <2>4. Left(f, "load", t) \in 1..(Left(f, p, s) - 1)
      <3>1. /\ 1 \in 1..(Left(f, p, s) - 1)
            /\ \A u \in 1..Len(f) : \A y : y = 6 * (Len(f) - u) + 6 + 1 /\ u >= s + 1 =>
                 y \in 1..(Left(f, p, s) - 1)
        BY <1>1, <2>1, <2>3, TurnsLeft
      <3>2. QED
        BY <2>2, <3>1
    <2>5. QED
      BY <2>4 DEF t
  <1>6. QED
    BY <1>4, <1>5

\* A call that has not returned has a step to take.
LEMMA LeftPositive ==
  ASSUME IInv, NEW l \in Loaders
  PROVE  /\ StepsLeft(l) \in Nat
         /\ pc[l] \notin {"idle", "returned"} => StepsLeft(l) >= 1
  <1> DEFINE f == file[l]
             p == pc[l]
             s == sec[l]
  <1>1. TypeInv /\ OrderInv(l) /\ TableInv(l) /\ FdInv(l)
    BY DEF IInv, LoaderInv
  <1>2. p \in Locations /\ s \in Nat /\ (p # "idle" => f \in Files)
    BY <1>1 DEF TypeInv, OrderInv
  <1>3. CASE p \in {"idle", "returned"}
    <2>1. Left(f, p, s) = 0
      BY <1>3 DEF Left
    <2>2. 0 \in Nat
      BY SMT
    <2>3. QED
      BY <1>3, <2>1, <2>2 DEF StepsLeft
  <1>4. CASE p \notin {"idle", "returned"}
    <2>1. f \in Files /\ Len(f) \in Nat /\ MapCount(f) \in Nat /\ ProgSecs(f) \subseteq 1..Len(f)
      BY <1>2, <1>4, FileSizes
    <2>2. CASE p \in {"begin", "scan"}
      <3>1. \/ Left(f, p, s) = 6 * Len(f) + MapCount(f) + 4
            \/ Left(f, p, s) = 6 * Len(f) + MapCount(f) + 3
        BY <2>1, <2>2, LeftFacts
      <3>2. Left(f, p, s) \in Nat /\ Left(f, p, s) >= 1
        BY <2>1, <3>1, SMT
      <3>3. QED
        BY <3>2 DEF StepsLeft
    <2>3. CASE p = "maps"
      <3>1. s \in 1..(NrMaps(f) + 1) /\ MapCount(f) = NrMaps(f)
        BY <1>1, <2>3 DEF TableInv, FdInv, MapCount
      <3>2. Left(f, p, s) = 6 * Len(f) + (MapCount(f) + 1 - s) + 2
        BY <2>1, <2>3, LeftFacts
      <3>3. Left(f, p, s) \in Nat /\ Left(f, p, s) >= 1
        BY <2>1, <3>1, <3>2, SMT
      <3>4. QED
        BY <3>3 DEF StepsLeft
    <2>4. CASE p \in Loading
      <3>1. s # 0 => s \in ProgSecs(f)
        BY <1>1, <2>4 DEF OrderInv
      <3>2. \/ Left(f, p, s) = 1
            \/ s \in 1..Len(f) /\ Left(f, p, s) = 6 * (Len(f) - s) + Turns(p) + 1
        BY <2>1, <2>4, <3>1, LeftFacts
      <3>3. Turns(p) \in 1..6
        BY TurnsType
      <3>4. Left(f, p, s) \in Nat /\ Left(f, p, s) >= 1
        <4>1. 1 \in Nat /\ 1 >= 1
          BY SMT
        <4>2. QED
          BY <2>1, <3>2, <3>3, <4>1, TurnsLeft
      <3>5. QED
        BY <3>4 DEF StepsLeft
    <2>5. QED
      BY <1>2, <1>4, <2>2, <2>3, <2>4 DEF Locations, Loading, Attaching
  <1>5. QED
    BY <1>3, <1>4

\* A step of the call.
LEMMA StepAdvances ==
  ASSUME IInv, NEW l \in Loaders, Step(l)
  PROVE  StepsLeft(l)' < StepsLeft(l)
  <1> DEFINE f == file[l]
             p == pc[l]
             s == sec[l]
  <1>1. TypeInv /\ OrderInv(l) /\ TableInv(l) /\ FdInv(l)
    BY DEF IInv, LoaderInv
  <1>2. file' = file /\ l \in Loaders /\ pc[l] \notin {"idle", "returned"}
    <2>1. Act(l) /\ ~Start(l)
      BY DEF Act, Step, Start, Unreadable, Begin, Unloadable, Scan, CreateMap, MapRefused,
         Relocate, LoadRefused, LoadPassive, LoadMisnamed, LoadTailCall, LoadRawTracepoint,
         LoadTracepoint, LoadKprobe, LoadProgram, MayLoad, RegisterSys, RegisterPlain,
         RegisterRefused, ReadId, NoSuchEvent, PerfOpen, SetBpf, AttachRefused, Finish
    <2>2. pc[l] \notin {"idle", "returned"}
      BY DEF Step, Unreadable, Begin, Unloadable, Scan, CreateMap, MapRefused,
         Relocate, LoadRefused, LoadPassive, LoadMisnamed, LoadTailCall, LoadRawTracepoint,
         LoadTracepoint, LoadKprobe, LoadProgram, MayLoad, RegisterSys, RegisterPlain,
         RegisterRefused, ReadId, NoSuchEvent, PerfOpen, SetBpf, AttachRefused, Finish
    <2>3. QED
      BY <2>1, <2>2, Changes
  <1>3. f \in Files /\ s \in Nat /\ Len(f) \in Nat /\ MapCount(f) \in Nat
    BY <1>1, <1>2, FileSizes DEF TypeInv, OrderInv
  <1>4. StepsLeft(l)' = Left(f, pc'[l], sec'[l]) /\ StepsLeft(l) = Left(f, p, s)
    BY <1>2 DEF StepsLeft
  <1>5. ASSUME pc'[l] = "returned" PROVE StepsLeft(l)' < StepsLeft(l)
    <2>1. StepsLeft(l)' = 0
      BY <1>3, <1>4, <1>5, LeftFacts
    <2>2. StepsLeft(l) \in Nat /\ StepsLeft(l) >= 1
      BY <1>2, LeftPositive
    <2> HIDE DEF StepsLeft
    <2>3. QED
      BY <2>1, <2>2, SMT
  <1>6. CASE Begin(l)
    <2>1. p = "begin" /\ pc'[l] = "scan"
      BY <1>1, <1>6 DEF Begin, Goto, TypeInv
    <2>2. /\ StepsLeft(l)' = 6 * Len(f) + MapCount(f) + 3
          /\ StepsLeft(l) = 6 * Len(f) + MapCount(f) + 4
      BY <1>3, <1>4, <2>1, LeftFacts
    <2>3. \A n, m \in Nat : 6 * n + m + 3 < 6 * n + m + 4
      BY SMT
    <2>4. QED
      BY <1>3, <2>2, <2>3
  <1>7. CASE Scan(l)
    <2>1. p = "scan" /\ pc'[l] = "maps" /\ sec'[l] = 1
      BY <1>1, <1>7 DEF Scan, Goto, TypeInv
    <2>2. /\ StepsLeft(l)' = 6 * Len(f) + (MapCount(f) + 1 - 1) + 2
          /\ StepsLeft(l) = 6 * Len(f) + MapCount(f) + 3
      BY <1>3, <1>4, <2>1, LeftFacts
    <2>3. \A n, m \in Nat : 6 * n + (m + 1 - 1) + 2 < 6 * n + m + 3
      BY SMT
    <2>4. QED
      BY <1>3, <2>2, <2>3
  <1>8. CASE CreateMap(l)
    <2>1. p = "maps" /\ pc'[l] = "maps" /\ sec'[l] = s + 1
      BY <1>1, <1>8 DEF CreateMap, TypeInv
    <2>2. /\ StepsLeft(l)' = 6 * Len(f) + (MapCount(f) + 1 - (s + 1)) + 2
          /\ StepsLeft(l) = 6 * Len(f) + (MapCount(f) + 1 - s) + 2
      BY <1>3, <1>4, <2>1, LeftFacts
    <2>3. \A n, m, k \in Nat : 6 * n + (m + 1 - (k + 1)) + 2 < 6 * n + (m + 1 - k) + 2
      BY SMT
    <2>4. QED
      BY <1>3, <2>2, <2>3
  <1>9. CASE Relocate(l)
    <2>1. p = "maps" /\ pc'[l] = "load" /\ sec'[l] = NextProg(f, 1)
      BY <1>1, <1>9 DEF Relocate, Goto, TypeInv
    <2>2. s \in 1..(NrMaps(f) + 1) /\ MapCount(f) = NrMaps(f)
      BY <1>1, <2>1 DEF TableInv, FdInv, MapCount
    <2>3. /\ StepsLeft(l)' \in 1..(6 * Len(f) + 1)
          /\ StepsLeft(l) = 6 * Len(f) + (MapCount(f) + 1 - s) + 2
      BY <1>1, <1>3, <1>4, <2>1, LeftFacts, NextIsLess
    <2>4. \A n, m \in Nat : \A k \in 1..(m + 1), x \in 1..(6 * n + 1) :
            x < 6 * n + (m + 1 - k) + 2
      BY SMT
    <2>5. QED
      BY <1>3, <2>2, <2>3, <2>4
  <1>10. ASSUME p \in Loading, s \in ProgSecs(f), Proceed(l) PROVE StepsLeft(l)' < StepsLeft(l)
    <2>1. pc'[l] = "load" /\ sec'[l] = NextProg(f, s + 1)
      BY <1>1, <1>10 DEF Proceed, Goto, TypeInv
    <2>2. StepsLeft(l)' \in 1..(StepsLeft(l) - 1)
      BY <1>1, <1>3, <1>4, <1>10, <2>1, NextIsLess
    <2>3. StepsLeft(l) \in Nat
      BY LeftPositive
    <2> HIDE DEF StepsLeft
    <2>4. QED
      BY <2>2, <2>3, SMT
  <1>11. ASSUME NEW q, p \in Loading, s \in ProgSecs(f), sec' = sec, Goto(l, q), q \in Loading,
                Turns(q) < Turns(p)
         PROVE  StepsLeft(l)' < StepsLeft(l)
    <2>1. pc'[l] = q /\ sec'[l] = s /\ s # 0
      BY <1>1, <1>3, <1>11, NextProgFacts DEF Goto, TypeInv
    <2>2. /\ StepsLeft(l)' = 6 * (Len(f) - s) + Turns(q) + 1
          /\ StepsLeft(l) = 6 * (Len(f) - s) + Turns(p) + 1
      BY <1>3, <1>4, <1>11, <2>1, LeftFacts
    <2>3. Turns(p) \in 1..6 /\ Turns(q) \in 1..6
      BY TurnsType
    <2>4. \A n, k \in Nat : \A t, u \in 1..6 : u < t => 6 * (n - k) + u + 1 < 6 * (n - k) + t + 1
      BY SMT
    <2>5. QED
      BY <1>3, <1>11, <2>2, <2>3, <2>4
  <1>12. /\ \A q \in Attaching : Turns(q) < Turns("load")
         /\ Turns("register") < Turns("register64") /\ Turns("readid") < Turns("register64")
         /\ Turns("readid") < Turns("register") /\ Turns("perfopen") < Turns("readid")
         /\ Turns("setbpf") < Turns("perfopen")
    <2>1. 1 < 2 /\ 2 < 3 /\ 3 < 4 /\ 3 < 5 /\ 4 < 5 /\ \A n \in {1, 2, 3, 4, 5} : n < 6
      BY SMT
    <2>2. /\ Turns("load") = 6 /\ Turns("register64") = 5 /\ Turns("register") = 4
          /\ Turns("readid") = 3 /\ Turns("perfopen") = 2 /\ Turns("setbpf") = 1
      BY DEF Turns
    <2>3. QED
      BY <2>1, <2>2 DEF Attaching
  <1>13. ASSUME p \in Attaching \/ LoadProgram(l)
         PROVE  p \in Loading /\ s \in ProgSecs(f) /\ (LoadProgram(l) => p = "load")
    BY <1>1, <1>13 DEF OrderInv, Loading, LoadProgram, MayLoad
  <1>14. CASE Unreadable(l) \/ Unloadable(l) \/ MapRefused(l) \/ LoadRefused(l) \/ LoadMisnamed(l)
              \/ RegisterRefused(l) \/ NoSuchEvent(l) \/ AttachRefused(l) \/ Finish(l)
    <2>1. \E r : Return(l, r)
      BY <1>14 DEF Unreadable, Unloadable, MapRefused, LoadRefused, LoadMisnamed, Abandon,
         RegisterRefused, NoSuchEvent, AttachRefused, Finish
    <2>2. pc'[l] = "returned"
      BY <1>1, <2>1 DEF Return, Goto, TypeInv
    <2>3. QED
      BY <1>5, <2>2
  <1>15. CASE LoadPassive(l) \/ LoadTailCall(l) \/ LoadRawTracepoint(l)
    <2>1. LoadProgram(l) /\ (Proceed(l) \/ Abandon(l))
      BY <1>15 DEF LoadPassive, LoadTailCall, LoadRawTracepoint
    <2>2. Abandon(l) => pc'[l] = "returned"
      BY <1>1 DEF Abandon, Return, Goto, TypeInv
    <2>3. QED
      BY <1>5, <1>10, <1>13, <2>1, <2>2
  <1>16. CASE SetBpf(l)
    <2>1. p \in Attaching /\ Proceed(l)
      BY <1>16 DEF SetBpf, Attaching
    <2>2. QED
      BY <1>10, <1>13, <2>1
  <1>17. CASE LoadTracepoint(l) \/ LoadKprobe(l)
    <2>1. LoadProgram(l) /\ sec' = sec /\ \E q \in Attaching : Goto(l, q)
      BY <1>17 DEF LoadTracepoint, LoadKprobe, Attaching
    <2>2. p = "load" /\ p \in Loading /\ s \in ProgSecs(f) /\ \A q \in Attaching : q \in Loading
      BY <1>13, <2>1 DEF Loading
    <2>3. QED
      BY <1>11, <1>12, <2>1, <2>2
  <1>18. CASE RegisterSys(l) \/ RegisterPlain(l) \/ ReadId(l) \/ PerfOpen(l)
    <2>1. /\ p \in Attaching /\ sec' = sec
          /\ \/ p = "register64" /\ (Goto(l, "readid") \/ Goto(l, "register"))
             \/ p = "register" /\ Goto(l, "readid")
             \/ p = "readid" /\ Goto(l, "perfopen")
             \/ p = "perfopen" /\ Goto(l, "setbpf")
      BY <1>18 DEF RegisterSys, RegisterPlain, Register, ReadId, PerfOpen, Attaching
    <2>2. /\ p \in Loading /\ s \in ProgSecs(f)
          /\ {"readid", "register", "perfopen", "setbpf"} \subseteq Loading
      BY <1>13, <2>1 DEF Loading, Attaching
    <2>3. QED
      BY <1>11, <1>12, <2>1, <2>2
  <1>19. QED
    BY <1>6, <1>7, <1>8, <1>9, <1>14, <1>15, <1>16, <1>17, <1>18 DEF Step

\* A call of load_bpf_file returns after at most 6 * n + m + 4 steps of its own,
\* for a file of n sections and m maps, whatever other loaders do and the kernel
\* answers: no failure makes it try anything twice.  (That each of these steps is
\* taken is the fairness of the scheduler.)
THEOREM LoadsAdvance == Spec => [][LoadAdvances]_vars
  <1>1. IInv => \A l \in Loaders : StepsLeft(l) \in Nat
    BY LeftPositive
  <1>2. IInv' => (\A l \in Loaders : StepsLeft(l) \in Nat)'
    BY <1>1, PTL
  <1>3. ASSUME IInv, [Next]_vars PROVE LoadAdvances
    <2> SUFFICES ASSUME NEW l \in Loaders
                 PROVE  /\ pc[l] \notin {"idle", "returned"} => StepsLeft(l)' <= StepsLeft(l)
                        /\ Step(l) => StepsLeft(l)' < StepsLeft(l)
      BY DEF LoadAdvances
    <2>1. TypeInv /\ IInv'
      BY <1>3, IInvStep DEF IInv
    <2>2. StepsLeft(l) \in Nat
      BY <1>1, <1>3
    <2>3. StepsLeft(l)' \in Nat
      BY <1>2, <2>1
    <2>4. Step(l) => StepsLeft(l)' < StepsLeft(l)
      BY <1>3, StepAdvances
    <2>5. ASSUME pc[l] \notin {"idle", "returned"}, ~Step(l)
          PROVE  StepsLeft(l)' = 0 \/ StepsLeft(l)' = StepsLeft(l)
      <3>1. CASE UNCHANGED vars
        BY <3>1 DEF vars, StepsLeft
      <3>2. CASE Exit(l)
        <4>1. pc'[l] = "idle"
          BY <2>1, <3>2 DEF Exit, Goto, TypeInv
        <4>2. QED
          BY <4>1 DEF StepsLeft, Left
      <3>3. CASE Start(l) \/ Reload(l)
        BY <2>5, <3>3 DEF Start, Reload
      <3>4. ASSUME NEW m \in Loaders, m # l, Act(m) PROVE StepsLeft(l)' = StepsLeft(l)
        <4>1. pc'[l] = pc[l] /\ sec'[l] = sec[l]
          BY <2>1, <3>4, OthersPc
        <4>2. file'[l] = file[l]
          BY <2>1, <3>4, Others
        <4>3. QED
          BY <4>1, <4>2 DEF StepsLeft
      <3>5. QED
        BY <1>3, <2>5, <3>1, <3>2, <3>3, <3>4 DEF Next, Act
    <2> HIDE DEF StepsLeft
    <2>6. QED
      BY <2>2, <2>3, <2>4, <2>5, SMT
  <1>4. QED
    BY <1>3, Invariance, PTL DEF Spec
=============================================================================
