----------------------------- MODULE BpfLoader -----------------------------
(***************************************************************************)
(* load_bpf_file (bpf_load.c): it clears the kprobe events, creates the    *)
(* maps of an object file, patches their descriptors into the programs,    *)
(* loads the programs and attaches each to its event.  Every user program  *)
(* of the repository calls it, open_tp_user several times.  The loaders    *)
(* are processes that may run side by side and may die at any moment;      *)
(* what a process holds open goes with it, the kprobe events do not.       *)
(*                                                                         *)
(* A descriptor is the position of the object in the process's maps, progs *)
(* or events, counted from 1; 0 is a descriptor nobody has set, which is   *)
(* the standard input and never a map.                                     *)
(***************************************************************************)
EXTENDS Integers, Sequences, FiniteSets

CONSTANTS
  Loaders,    \* the processes
  Scenes,     \* what may go on: [loaders: the processes that take part,
              \*   files: the object files they load, loads: how often a
              \*   process calls load_bpf_file (num_progs of open_tp_user)]
  MAX_PROGS,  \* the size of prog_fd[] and event_fd[]
  MaxStarts   \* bound: how often a process is started

Files == UNION {s.files : s \in Scenes}

\* An object file is a sequence of sections:
\*   [kind: "version", sized]  sized: it holds an int
\*   [kind: "maps", defs]      defs: the map definitions by their offset
\*   [kind: "symtab", syms]    syms: the offsets of the map symbols
\*   [kind: "rel", info, rels] info: the section it patches
\*   [kind: "prog", event]     event: what follows from the section's name
\* A relocation says whether its instruction is a BPF_LD_IMM64, whether its
\* symbol is a map, and the symbol's value.
Indices(f, kind) == {s \in DOMAIN f : f[s].kind = kind}
Has(f, kind)     == Indices(f, kind) # {}
Last(f, kind)    == CHOOSE s \in Indices(f, kind) :
                      \A t \in Indices(f, kind) : t <= s

MapDefs(f)  == f[Last(f, "maps")].defs
Symbols(f)  == f[Last(f, "symtab")].syms
NrMaps(f)   == IF Has(f, "maps") THEN Len(Symbols(f)) ELSE 0
ProgSecs(f) == Indices(f, "prog")

NoName == "-"   \* the empty string

Kprobe     == {"kprobe", "kretprobe"}
Passive    == {"xdp", "perf_event", "cgroup/skb", "cgroup/sock"}
Numbered   == {"socket", "sockops"}
EventTypes == Kprobe \cup Passive \cup Numbered
                \cup {"tracepoint", "raw_tracepoint", "unknown"}

IsTailCall(e) == e.type \in Kprobe \cup Numbered /\ e.idx # -1

\* Compiler output: every map has one symbol and every program section at
\* most one section of relocations.  No two sections are for the same place in
\* the jump table.
WellFormed(f) ==
  /\ f \in Seq({f[s] : s \in DOMAIN f})
  /\ \A s \in Indices(f, "symtab") : f[s].syms \in Seq(Nat)
  /\ \A s \in Indices(f, "rel") :
       f[s].rels \in Seq([ld_imm64 : BOOLEAN, to_map : BOOLEAN, value : Nat])
  /\ \A s \in ProgSecs(f) : f[s].event.type \in EventTypes /\ f[s].event.idx \in Int
  /\ Has(f, "maps") /\ Has(f, "symtab") =>
       /\ {Symbols(f)[k] : k \in DOMAIN Symbols(f)} = DOMAIN MapDefs(f)
       /\ Cardinality(DOMAIN MapDefs(f)) = Len(Symbols(f))
       /\ Len(Symbols(f)) > 0
  /\ \A s, t \in ProgSecs(f) :
       /\ Cardinality({r \in Indices(f, "rel") : f[r].info = s}) <= 1
       /\ IsTailCall(f[s].event) /\ IsTailCall(f[t].event) /\ s # t
            => f[s].event.idx # f[t].event.idx

ASSUME FilesAssumption == \A f \in Files : WellFormed(f)
ASSUME ScenesAssumption ==
  \A s \in Scenes : s.loaders \subseteq Loaders /\ s.loads \in Nat \ {0}
ASSUME BoundsAssumption == {MAX_PROGS, MaxStarts} \subseteq Nat

VARIABLES
  scene,          \* which of Scenes it is, the same throughout
  kprobe_events,  \* the kernel's list of kprobe events
  pc,             \* where each process is in load_bpf_file
  file,           \* the object file it loads
  starts,         \* how often it has been started
  loads,          \* which call of load_bpf_file it is in
  sec,            \* the map or the section at hand, i in the code
  map_fd,         \* the descriptors user code addresses the maps by
  map_data,       \* offset, type and descriptor of each map
  prog_array_fd,  \* the program array, -1 if there is none
  imm,            \* imm[l][s]: the descriptors patched into section s
  id,             \* the event whose id load_and_attach has read
  ret,            \* what load_bpf_file returns
  maps, progs, events  \* the kernel objects the process holds open

local    == <<scene, starts, file, loads>>
tables   == <<map_fd, map_data, prog_array_fd, imm>>
objects  == <<maps, progs, events>>
vars     == <<scene, kprobe_events, pc, file, starts, loads, sec, map_fd,
              map_data, prog_array_fd, imm, id, ret, maps, progs, events>>

\* An event: its name with the prefix the loader may give it, whether it is at
\* the entry (p) or the return (r) of a function or a tracepoint (t), and who
\* defined it.
Nothing == [name |-> <<NoName, NoName>>, kind |-> NoName, by |-> <<>>]

Init ==
  /\ scene \in Scenes
  /\ kprobe_events = {}
  /\ pc = [l \in Loaders |-> "idle"]
  /\ file = [l \in Loaders |-> <<>>]
  /\ starts = [l \in Loaders |-> 0]
  /\ loads = [l \in Loaders |-> 0]
  /\ sec = [l \in Loaders |-> 0]
  /\ map_fd = [l \in Loaders |-> <<>>]
  /\ map_data = [l \in Loaders |-> <<>>]
  /\ prog_array_fd = [l \in Loaders |-> -1]
  /\ imm = [l \in Loaders |-> <<>>]
  /\ id = [l \in Loaders |-> Nothing]
  /\ ret = [l \in Loaders |-> 0]
  /\ maps = [l \in Loaders |-> <<>>]
  /\ progs = [l \in Loaders |-> <<>>]
  /\ events = [l \in Loaders |-> <<>>]

Goto(l, where) == pc' = [pc EXCEPT ![l] = where]

\* return r, with or without a descriptor left open.
Return(l, r) == Goto(l, "returned") /\ ret' = [ret EXCEPT ![l] = r]

-----------------------------------------------------------------------------
(* The process around load_bpf_file *)

Start(l) ==
  /\ pc[l] = "idle"
  /\ l \in scene.loaders
  /\ starts[l] < MaxStarts
  /\ starts' = [starts EXCEPT ![l] = @ + 1]
  /\ loads' = [loads EXCEPT ![l] = 1]
  /\ \E f \in scene.files : file' = [file EXCEPT ![l] = f]
  /\ Goto(l, "begin")
  /\ UNCHANGED <<scene, kprobe_events, sec, tables, id, ret, objects>>

\* The for loop of test() in open_tp_user.
Reload(l) ==
  /\ pc[l] = "returned"
  /\ ret[l] = 0
  /\ loads[l] < scene.loads
  /\ loads' = [loads EXCEPT ![l] = @ + 1]
  /\ Goto(l, "begin")
  /\ UNCHANGED <<scene, kprobe_events, starts, file, sec, tables, id, ret,
                 objects>>

\* main returns, or the process is killed: the kernel closes what it held.
Exit(l) ==
  /\ pc[l] # "idle"
  /\ Goto(l, "idle")
  /\ sec' = [sec EXCEPT ![l] = 0]
  /\ map_fd' = [map_fd EXCEPT ![l] = <<>>]
  /\ map_data' = [map_data EXCEPT ![l] = <<>>]
  /\ prog_array_fd' = [prog_array_fd EXCEPT ![l] = -1]
  /\ imm' = [imm EXCEPT ![l] = <<>>]
  /\ id' = [id EXCEPT ![l] = Nothing]
  /\ ret' = [ret EXCEPT ![l] = 0]
  /\ maps' = [maps EXCEPT ![l] = <<>>]
  /\ progs' = [progs EXCEPT ![l] = <<>>]
  /\ events' = [events EXCEPT ![l] = <<>>]
  /\ UNCHANGED <<kprobe_events, local>>

-----------------------------------------------------------------------------
(* do_load_bpf_file: the file, the old kprobes, the sections *)

InUse == UNION {{events[m][k].on : k \in DOMAIN events[m]} : m \in Loaders}

\* Mutant: the events file is opened for appending, as for a new probe.
ClearNothing == UNCHANGED kprobe_events

\* write_kprobe_events(""): opening with O_TRUNC deletes every event, and is
\* refused when one of them is in use.  Nobody looks at the result.
ClearKprobes == kprobe_events' = IF kprobe_events \cap InUse = {}
                                 THEN {} ELSE kprobe_events

\* libelf or open fails.
Unreadable(l) ==
  /\ pc[l] = "begin"
  /\ Return(l, 1)
  /\ UNCHANGED <<kprobe_events, local, sec, tables, id, objects>>

Begin(l) ==
  /\ pc[l] = "begin"
  /\ ClearKprobes
  /\ Goto(l, "scan")
  /\ UNCHANGED <<local, sec, tables, id, ret, objects>>

\* Mutant: the symbols are taken in the order of the symbol table.
UnsortedOffset(f, k) == Symbols(f)[k]

\* The symbols of the maps section sorted on their offset: the k-th of them.
Offset(f, k) ==
  LET offsets == {Symbols(f)[j] : j \in DOMAIN Symbols(f)}
  IN  CHOOSE o \in offsets : Cardinality({p \in offsets : p < o}) = k - 1

\* load_elf_maps_section: a definition with features this loader does not
\* know makes it give up.
Loadable(f) ==
  /\ \A s \in Indices(f, "version") : f[s].sized
  /\ Has(f, "symtab")
  /\ Has(f, "maps") => \A k \in 1..NrMaps(f) : ~MapDefs(f)[Offset(f, k)].newer

Unloadable(l) ==
  /\ pc[l] = "scan"
  /\ ~Loadable(file[l])
  /\ Return(l, 1)
  /\ UNCHANGED <<kprobe_events, local, sec, tables, id, objects>>

Scan(l) ==
  /\ pc[l] = "scan"
  /\ Loadable(file[l])
  /\ map_data' = [map_data EXCEPT ![l] =
                    [k \in 1..NrMaps(file[l]) |->
                       [offset |-> Offset(file[l], k), fd |-> -1]]]
  /\ sec' = [sec EXCEPT ![l] = 1]
  /\ Goto(l, "maps")
  /\ UNCHANGED <<kprobe_events, local, map_fd, prog_array_fd, imm, id, ret,
                 objects>>

-----------------------------------------------------------------------------
(* load_maps *)

Def(l) == MapDefs(file[l])[map_data[l][sec[l]].offset]

\* map_fd[i] = fd.  The entries a failed or shorter load leaves behind stay.
SetMapFd(l, fd) ==
  map_fd' = [map_fd EXCEPT ![l] =
               [k \in DOMAIN @ \cup {sec[l]} |->
                  IF k = sec[l] THEN fd ELSE @[k]]]

\* Mutant: a descriptor map_fd[] holds from an earlier load is used again.
UsedFd(l) ==
  IF sec[l] \in DOMAIN map_fd[l] THEN map_fd[l][sec[l]] ELSE Len(maps[l]) + 1

\* bpf_create_map_node returns a new descriptor.
NewFd(l) == Len(maps[l]) + 1

\* A map of maps is created from the map that inner_map_idx names, if that
\* one is there by now.
CreateMap(l) ==
  /\ pc[l] = "maps"
  /\ sec[l] <= NrMaps(file[l])
  /\ Def(l).type = "map_in_map" => /\ Def(l).inner \in DOMAIN map_fd[l]
                                   /\ map_fd[l][Def(l).inner] > 0
  /\ LET fd == NewFd(l)
     IN  /\ maps' = [maps EXCEPT ![l] = Append(@, <<>>)]
         /\ SetMapFd(l, fd)
         /\ map_data' = [map_data EXCEPT ![l][sec[l]].fd = fd]
         /\ prog_array_fd' = IF Def(l).type = "prog_array"
                             THEN [prog_array_fd EXCEPT ![l] = fd]
                             ELSE prog_array_fd
  /\ sec' = [sec EXCEPT ![l] = @ + 1]
  /\ UNCHANGED <<kprobe_events, pc, local, imm, id, ret, progs, events>>

MapRefused(l) ==
  /\ pc[l] = "maps"
  /\ sec[l] <= NrMaps(file[l])
  /\ SetMapFd(l, -1)
  /\ Return(l, 1)
  /\ UNCHANGED <<kprobe_events, local, sec, map_data, prog_array_fd, imm, id,
                 objects>>

-----------------------------------------------------------------------------
(* parse_relo_and_apply *)

RelsOf(f, s) ==
  LET rel == {r \in Indices(f, "rel") : f[r].info = s}
  IN  IF rel = {} THEN <<>> ELSE f[CHOOSE r \in rel : TRUE].rels

Matching(l, r) == {k \in 1..NrMaps(file[l]) : map_data[l][k].offset = r.value}

Applies(l, r) == r.ld_imm64 /\ Matching(l, r) # {}

\* Relocations are applied in order up to the first that fails.  The caller
\* carries on with the next section whatever the outcome.
Patched(l, rels) ==
  [n \in DOMAIN rels |->
     IF \A j \in 1..n : Applies(l, rels[j])
     THEN map_data[l][CHOOSE k \in Matching(l, rels[n]) : TRUE].fd
     ELSE 0]

\* The first program section from s on, 0 if there is none.
NextProg(f, s) ==
  LET rest == {t \in ProgSecs(f) : t >= s}
  IN  IF rest = {} THEN 0 ELSE CHOOSE t \in rest : \A u \in rest : t <= u

\* ret = 1 until a program has been loaded.
Relocate(l) ==
  /\ pc[l] = "maps"
  /\ sec[l] > NrMaps(file[l])
  /\ imm' = [imm EXCEPT ![l] = [s \in ProgSecs(file[l]) |->
                                  Patched(l, RelsOf(file[l], s))]]
  /\ sec' = [sec EXCEPT ![l] = NextProg(file[l], 1)]
  /\ ret' = [ret EXCEPT ![l] = 1]
  /\ Goto(l, "load")
  /\ UNCHANGED <<kprobe_events, local, map_fd, map_data, prog_array_fd, id,
                 objects>>

-----------------------------------------------------------------------------
(* load_and_attach: bpf_load_program and what follows it at once *)

Event(l) == file[l][sec[l]].event

\* Mutant: the section after the one just loaded is passed over.
ProceedTooFar(l) ==
  /\ sec' = [sec EXCEPT ![l] = NextProg(file[l], @ + 2)]
  /\ ret' = [ret EXCEPT ![l] = 0]
  /\ Goto(l, "load")

\* The next turn of the loop over the sections, after load_and_attach returned 0.
Proceed(l) ==
  /\ sec' = [sec EXCEPT ![l] = NextProg(file[l], @ + 1)]
  /\ ret' = [ret EXCEPT ![l] = 0]
  /\ Goto(l, "load")

\* goto done: what earlier sections have set up stays as it is.
Abandon(l) == Return(l, -1) /\ UNCHANGED sec

\* The verifier: an instruction that needs a map has the descriptor of one,
\* and a reference to anything but a map is not supported.
Verifies(l) ==
  LET rels == RelsOf(file[l], sec[l])
  IN  \A n \in DOMAIN rels : rels[n].to_map /\ imm[l][sec[l]][n] > 0

\* Mutant: prog_cnt is compared after the program has been stored.
MayLoadOneMore(l) ==
  /\ pc[l] = "load" /\ sec[l] # 0
  /\ Event(l).type # "unknown"
  /\ Len(progs[l]) <= MAX_PROGS
  /\ Verifies(l)

MayLoad(l) ==
  /\ pc[l] = "load" /\ sec[l] # 0
  /\ Event(l).type # "unknown"
  /\ Len(progs[l]) < MAX_PROGS
  /\ Verifies(l)

\* prog_fd[prog_cnt++] = fd
LoadProgram(l) ==
  /\ MayLoad(l)
  /\ progs' = [progs EXCEPT ![l] =
                 Append(@, [load |-> loads[l], sec |-> sec[l],
                            imm |-> imm[l][sec[l]]])]

\* An unknown event, no room in prog_fd[], or the kernel says no.
LoadRefused(l) ==
  /\ pc[l] = "load" /\ sec[l] # 0
  /\ Abandon(l)
  /\ UNCHANGED <<kprobe_events, local, tables, id, objects>>

Nameless(l) == Event(l).name = NoName /\ Event(l).idx = -1

\* Programs the caller attaches by itself.
LoadPassive(l) ==
  /\ LoadProgram(l)
  /\ \/ Event(l).type \in Passive
     \/ Event(l).type \in Numbered /\ Nameless(l)
  /\ Proceed(l)
  /\ UNCHANGED <<kprobe_events, local, tables, id, maps, events>>

\* "event name cannot be empty", "invalid prog number"
LoadMisnamed(l) ==
  /\ LoadProgram(l)
  /\ \/ Event(l).type \in Kprobe \cup {"tracepoint"} /\ Nameless(l)
     \/ Event(l).type \in Numbered /\ Event(l).name # NoName
  /\ Abandon(l)
  /\ UNCHANGED <<kprobe_events, local, tables, id, maps, events>>

\* Mutant: the program is stored under its position in prog_fd[].
PopulateByPosition(l) ==
  maps' = [maps EXCEPT ![l][prog_array_fd[l]] =
             [k \in DOMAIN @ \cup {Len(progs[l])} |->
                IF k = Len(progs[l]) THEN Len(progs[l]) + 1 ELSE @[k]]]

\* populate_prog_array(event, fd)
Populate(l) ==
  maps' = [maps EXCEPT ![l][prog_array_fd[l]] =
             [k \in DOMAIN @ \cup {Event(l).idx} |->
                IF k = Event(l).idx THEN Len(progs[l]) + 1 ELSE @[k]]]

LoadTailCall(l) ==
  /\ LoadProgram(l)
  /\ IsTailCall(Event(l))
  /\ \/ prog_array_fd[l] > 0 /\ Populate(l) /\ Proceed(l)
     \/ Abandon(l) /\ UNCHANGED maps
  /\ UNCHANGED <<kprobe_events, local, tables, id, events>>

\* bpf_raw_tracepoint_open attaches at once.
LoadRawTracepoint(l) ==
  /\ LoadProgram(l)
  /\ Event(l).type = "raw_tracepoint"
  /\ \/ /\ events' = [events EXCEPT ![l] =
                        Append(@, [on |-> [name |-> <<"raw", Event(l).name>>,
                                           kind |-> "t", by |-> <<>>],
                                   prog |-> Len(progs[l]) + 1])]
        /\ Proceed(l)
     \/ Abandon(l) /\ UNCHANGED events
  /\ UNCHANGED <<kprobe_events, local, tables, id, maps>>

IsNamed(e, types) == e.type \in types /\ e.idx = -1 /\ e.name # NoName

LoadTracepoint(l) ==
  /\ LoadProgram(l)
  /\ IsNamed(Event(l), {"tracepoint"})
  /\ id' = [id EXCEPT ![l] = [name |-> <<"events", Event(l).name>>,
                              kind |-> "t", by |-> <<>>]]
  /\ Goto(l, "readid")
  /\ UNCHANGED <<kprobe_events, local, sec, tables, ret, maps, events>>

LoadKprobe(l) ==
  /\ LoadProgram(l)
  /\ IsNamed(Event(l), Kprobe)
  /\ Goto(l, IF Event(l).sys THEN "register64" ELSE "register")
  /\ UNCHANGED <<kprobe_events, local, sec, tables, id, ret, maps, events>>

-----------------------------------------------------------------------------
(* load_and_attach: the kprobe event and the perf event on it *)

\* Mutant: every probe is put at the entry.
AlwaysEntry(e) == "p"

\* is_kprobe ? 'p' : 'r'
ProbeKind(e) == IF e.type = "kprobe" THEN "p" ELSE "r"

\* "p:event event", appended to kprobe_events.  The kernel refuses a name
\* that is in use; it may replace an unused event of that name or refuse.
Register(l, prefix) ==
  LET new == [name |-> <<prefix, Event(l).name>>,
              kind |-> ProbeKind(Event(l)),
              by   |-> <<l, starts[l]>>]
  IN  /\ \A e \in InUse : e.name # new.name
      /\ kprobe_events' =
           {e \in kprobe_events : e.name # new.name} \cup {new}
      /\ id' = [id EXCEPT ![l] = new]
      /\ Goto(l, "readid")

\* A sys_ function has the prefix __x64_ on newer kernels; if that name is
\* refused the plain one is tried.
RegisterSys(l) ==
  /\ pc[l] = "register64"
  /\ \/ Register(l, "__x64_")
     \/ Goto(l, "register") /\ UNCHANGED <<kprobe_events, id>>
  /\ UNCHANGED <<local, sec, tables, ret, objects>>

RegisterPlain(l) ==
  /\ pc[l] = "register"
  /\ Register(l, NoName)
  /\ UNCHANGED <<local, sec, tables, ret, objects>>

\* Mutant: a refused name is tried with the prefix, and so on.
RegisterAgain(l) ==
  /\ pc[l] = "register"
  /\ Goto(l, "register64")
  /\ UNCHANGED <<kprobe_events, local, sec, tables, id, ret, objects>>

\* "failed to create kprobe"
RegisterRefused(l) ==
  /\ pc[l] = "register"
  /\ Abandon(l)
  /\ UNCHANGED <<kprobe_events, local, tables, id, objects>>

\* The id of the event that has the name now, whoever defined it.
ReadId(l) ==
  /\ pc[l] = "readid"
  /\ \/ id[l].kind = "t" /\ UNCHANGED id
     \/ \E e \in kprobe_events :
          e.name = id[l].name /\ id' = [id EXCEPT ![l] = e]
  /\ Goto(l, "perfopen")
  /\ UNCHANGED <<kprobe_events, local, sec, tables, ret, objects>>

\* "failed to open event"
NoSuchEvent(l) ==
  /\ pc[l] = "readid"
  /\ \A e \in kprobe_events : e.name # id[l].name
  /\ Abandon(l)
  /\ UNCHANGED <<kprobe_events, local, tables, id, objects>>

\* perf_event_open with the id, if the event is still the one it belongs to,
\* and PERF_EVENT_IOC_ENABLE: the event is live and has no program yet.
PerfOpen(l) ==
  /\ pc[l] = "perfopen"
  /\ id[l].kind = "t" \/ id[l] \in kprobe_events
  /\ events' = [events EXCEPT ![l] = Append(@, [on |-> id[l], prog |-> 0])]
  /\ Goto(l, "setbpf")
  /\ UNCHANGED <<kprobe_events, local, sec, tables, id, ret, maps, progs>>

\* PERF_EVENT_IOC_SET_BPF
SetBpf(l) ==
  /\ pc[l] = "setbpf"
  /\ events' = [events EXCEPT ![l][Len(events[l])].prog = Len(progs[l])]
  /\ Proceed(l)
  /\ UNCHANGED <<kprobe_events, local, tables, id, maps, progs>>

\* perf_event_open or an ioctl fails.
AttachRefused(l) ==
  /\ pc[l] \in {"perfopen", "setbpf"}
  /\ Abandon(l)
  /\ UNCHANGED <<kprobe_events, local, tables, id, objects>>

\* The loop over the sections has ended; ret is that of the last program.
Finish(l) ==
  /\ pc[l] = "load" /\ sec[l] = 0
  /\ Return(l, ret[l])
  /\ UNCHANGED <<kprobe_events, local, sec, tables, id, objects>>

-----------------------------------------------------------------------------
Step(l) ==
  \/ Unreadable(l) \/ Begin(l) \/ Unloadable(l) \/ Scan(l)
  \/ CreateMap(l) \/ MapRefused(l) \/ Relocate(l)
  \/ LoadRefused(l) \/ LoadPassive(l) \/ LoadMisnamed(l) \/ LoadTailCall(l)
  \/ LoadRawTracepoint(l) \/ LoadTracepoint(l) \/ LoadKprobe(l)
  \/ RegisterSys(l) \/ RegisterPlain(l) \/ RegisterRefused(l)
  \/ ReadId(l) \/ NoSuchEvent(l) \/ PerfOpen(l) \/ SetBpf(l)
  \/ AttachRefused(l) \/ Finish(l)

Next == \E l \in Loaders : Start(l) \/ Reload(l) \/ Exit(l) \/ Step(l)

Spec == Init /\ [][Next]_vars

\* A process that is in load_bpf_file goes on; it may be killed.
FairSpec == Spec /\ \A l \in Loaders : WF_vars(Step(l))

-----------------------------------------------------------------------------
(* Properties *)

Locations == {"idle", "begin", "scan", "maps", "load", "register64",
              "register", "readid", "perfopen", "setbpf", "returned"}

\* map_fd[], prog_array_fd and the patched instructions refer to maps that exist,
\* events to programs that were loaded, and prog_fd[] never overflows.
TypeOK ==
  /\ scene \in Scenes
  /\ pc \in [Loaders -> Locations]
  /\ \A l \in Loaders : file[l] \in scene.files \/ starts[l] = 0
  /\ starts \in [Loaders -> 0..MaxStarts]
  /\ loads \in [Loaders -> 0..scene.loads]
  /\ sec \in [Loaders -> Nat]
  /\ ret \in [Loaders -> {-1, 0, 1}]
  /\ \A l \in Loaders :
       /\ map_fd[l] \in Seq({-1} \cup (1..Len(maps[l])))
       /\ prog_array_fd[l] \in {-1} \cup (1..Len(maps[l]))
       /\ progs[l] \in Seq([load : 1..scene.loads, sec : ProgSecs(file[l]),
                            imm : Seq(1..Len(maps[l]))])
       /\ \A k \in DOMAIN events[l] : events[l][k].prog \in 0..Len(progs[l])
       /\ Len(progs[l]) <= MAX_PROGS

\* Program k of l can run: it is attached to an event, or it is where a tail
\* call finds it, or it is of a kind the caller attaches.
Connected(l, k) ==
  LET e == file[l][progs[l][k].sec].event
  IN  \/ \E j \in DOMAIN events[l] : events[l][j].prog = k
      \/ IsTailCall(e) /\ \E m \in DOMAIN maps[l] :
           e.idx \in DOMAIN maps[l][m] /\ maps[l][m][e.idx] = k
      \/ e.type \in Passive
      \/ e.type \in Numbered /\ e.name = NoName /\ e.idx = -1

\* load_bpf_file returns 0 only if every program section of the file has been
\* loaded by this very call and is connected: the errors on the way that the
\* code does not look at never leave a program out silently.
ZeroMeansComplete ==
  \A l \in Loaders :
    (pc[l] = "returned" /\ ret[l] = 0) =>
      \A s \in ProgSecs(file[l]) :
        \E k \in DOMAIN progs[l] :
          /\ progs[l][k].sec = s
          /\ progs[l][k].load = loads[l]
          /\ Connected(l, k)

\* Programs go live one by one in the order of the file, so at any moment the
\* connected programs of a load are a prefix: a probe is never live while an
\* earlier section of its file is not.  (A later one, such as the tail-call
\* target of an earlier probe, may be missing.)
LiveInOrder ==
  \A l \in Loaders : \A j, k \in DOMAIN progs[l] :
    /\ j < k => Connected(l, j)
    /\ (j < k /\ progs[l][j].load = progs[l][k].load) =>
         progs[l][j].sec < progs[l][k].sec

\* The position of a map in the maps section, by which user code knows it.
Position(f, o) == Cardinality({p \in DOMAIN MapDefs(f) : p <= o})

\* User code and probes mean the same map: what an instruction of the current
\* load refers to is in map_fd[] at the place the map has in the source.
UserAndProbesShareMaps ==
  \A l \in Loaders : \A k \in DOMAIN progs[l] :
    LET p == progs[l][k]
        rels == RelsOf(file[l], p.sec)
    IN  (p.load = loads[l] /\ pc[l] \notin {"begin", "scan", "maps"}) =>
          \A n \in DOMAIN rels :
            p.imm[n] = map_fd[l][Position(file[l], rels[n].value)]

\* Two loads of one file by one process have nothing in common: no map is
\* referred to by programs of both (open_tp_user verifies each pair by itself).
LoadsAreIndependent ==
  \A l \in Loaders : \A j, k \in DOMAIN progs[l] :
    progs[l][j].load # progs[l][k].load =>
      \A m \in DOMAIN progs[l][j].imm, n \in DOMAIN progs[l][k].imm :
        progs[l][j].imm[m] # progs[l][k].imm[n]

\* No other loader takes part.
Alone == \E l \in Loaders : scene.loaders = {l}

\* A program is attached to an event on the function its section names: when no
\* other loader is at work, of the kind the section names, and defined by
\* this run of the loader, whatever its earlier runs left in the kernel's list.
\* With several loaders only the function is certain, for between writing
\* the event and opening its id file another loader may have cleared the event
\* and defined one of the same name.
ProbesWhereDeclared ==
  \A l \in Loaders : \A j \in DOMAIN events[l] :
    LET e  == events[l][j]
        ev == file[l][progs[l][e.prog].sec].event
    IN  e.prog # 0 =>
          /\ e.on.name[2] = ev.name
          /\ (Alone /\ ev.type \in Kprobe) =>
               /\ e.on.kind = IF ev.type = "kprobe" THEN "p" ELSE "r"
               /\ e.on.by = <<l, starts[l]>>

\* A loader that has died leaves kprobe events behind; once a loader that is
\* alone has begun, all that are left are its own.
OldProbesAreGone ==
  Alone => \A l \in Loaders :
    pc[l] \notin {"idle", "begin"} /\ pc[l] # "returned" =>
      \A e \in kprobe_events : e.by = <<l, starts[l]>>

\* Every call of load_bpf_file returns, unless the process is killed.
LoadReturns == \A l \in Loaders : pc[l] = "begin" ~> pc[l] \in {"returned", "idle"}
=============================================================================
