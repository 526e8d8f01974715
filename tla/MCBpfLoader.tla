---------------------------- MODULE MCBpfLoader ----------------------------
(* Object files in the shape of the repository's, cut down to small sizes. *)
EXTENDS BpfLoader

CONSTANTS a, b  \* two loader processes

Ev(type, name, idx) ==
  [kind |-> "prog", event |-> [type |-> type, name |-> name, idx |-> idx,
                               sys |-> name = "sys_write"]]
Array     == [type |-> "array", inner |-> 0, newer |-> FALSE]
ProgArray == [type |-> "prog_array", inner |-> 0, newer |-> FALSE]
OfMaps(k) == [type |-> "map_in_map", inner |-> k, newer |-> FALSE]
Newer     == [type |-> "array", inner |-> 0, newer |-> TRUE]
Maps(d)   == [kind |-> "maps", defs |-> d]
Symtab(s) == [kind |-> "symtab", syms |-> s]
Version(ok) == [kind |-> "version", sized |-> ok]
Rel(s, r) == [kind |-> "rel", info |-> s, rels |-> r]
To(o)     == [ld_imm64 |-> TRUE, to_map |-> TRUE, value |-> o]
Call      == [ld_imm64 |-> FALSE, to_map |-> FALSE, value |-> 0]
Data(o)   == [ld_imm64 |-> TRUE, to_map |-> FALSE, value |-> o]

\* Map definitions at consecutive offsets.
At(defs) == [o \in 0..(Len(defs) - 1) |-> defs[o + 1]]

\* tailcall_kern: the probe, its three targets, the map and the jump table.
Tailcall ==
  << Version(TRUE), Ev("kprobe", "copyout_bpf", -1), Rel(2, <<To(1)>>),
     Ev("kprobe", NoName, 1), Rel(4, <<To(0), To(0)>>),
     Ev("kprobe", NoName, 3), Ev("kprobe", NoName, 2),
     Maps(At(<<Array, ProgArray>>)), Symtab(<<1, 0>>) >>

\* Two probes, on the entry and the return of one function.
EntryAndReturn ==
  << Ev("kprobe", "copyout_bpf", -1), Rel(1, <<To(0)>>),
     Ev("kretprobe", "copyout_bpf", -1), Maps(At(<<Array>>)), Symtab(<<0>>) >>

ReturnOnly == << Ev("kretprobe", "copyout_bpf", -1), Symtab(<<>>) >>

\* hellotrace_kern: a system call, and no map at all.
SysWrite == << Ev("kprobe", "sys_write", -1), Symtab(<<>>) >>

\* open_tp_kern: one map for each of two tracepoints.
OpenTp ==
  << Maps(At(<<Array, Array>>)), Ev("tracepoint", "sys_enter_open", -1),
     Rel(2, <<To(0)>>), Ev("tracepoint", "sys_exit_open", -1),
     Rel(4, <<To(1)>>), Symtab(<<1, 0>>) >>

\* Files whose relocations or sections are not what the loader supports.
Odd ==
  { << Ev("kprobe", "f", -1), Rel(1, <<To(0), Call, To(0)>>),
       Maps(At(<<Array>>)), Symtab(<<0>>) >>,
    << Ev("kprobe", "f", -1), Rel(1, <<Data(0)>>),
       Maps(At(<<Array>>)), Symtab(<<0>>) >>,
    << Ev("kprobe", "f", -1), Rel(1, <<Data(7)>>), Symtab(<<>>) >>,
    << Ev("kprobe", NoName, -1), Symtab(<<>>) >>,
    << Ev("kprobe", NoName, 1), Symtab(<<>>) >>,
    << Ev("unknown", "x", -1), Symtab(<<>>) >>,
    << Ev("xdp", NoName, -1), Ev("socket", NoName, -1), Ev("socket", "x", -1),
       Symtab(<<>>) >>,
    << Ev("raw_tracepoint", "x", -1), Ev("perf_event", NoName, -1),
       Ev("tracepoint", NoName, -1), Symtab(<<>>) >>,
    << Ev("xdp", NoName, -1), Ev("xdp", NoName, -1), Ev("xdp", NoName, -1),
       Ev("xdp", NoName, -1), Ev("xdp", NoName, -1), Symtab(<<>>) >>,
    << Maps(At(<<Array, OfMaps(1)>>)), Symtab(<<0, 1>>) >>,
    << Maps(At(<<OfMaps(2), Array>>)), Symtab(<<0, 1>>) >>,
    << Maps(At(<<Newer>>)), Symtab(<<0>>) >>,
    << Ev("xdp", NoName, -1) >>,
    << Version(FALSE), Symtab(<<>>) >> }

Common == {Tailcall, EntryAndReturn, ReturnOnly, SysWrite, OpenTp}
AllFiles == Common \cup Odd

\* readiter_kern: several probes, here two, one of them also in ReturnOnly.
TwoProbes == << Ev("kprobe", "copyout_bpf", -1), Ev("kprobe", "vfs_read", -1),
                Symtab(<<>>) >>
ProbeFiles == {TwoProbes, ReturnOnly, SysWrite}

\* One process that may load any file three times, and two side by side.
AloneOrPair == { [loaders |-> {a}, files |-> AllFiles, loads |-> 3],
                 [loaders |-> {a, b}, files |-> ProbeFiles, loads |-> 1] }
=============================================================================
