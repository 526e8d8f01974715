# Specifications of ebpf-filter-reduce

TLA+ specifications of the programs in this repository, with the TLC
configurations that check them on small instances and the TLAPS proofs of what
holds for every instance. Paths below are relative to the repository.

## The system

The repository explores reducing data inside the kernel. A user program loads an
object file of eBPF programs, registers the address of its buffer in a map, and
calls `read`. A kprobe on the kernel's copy function recognises the address,
overrides the copy, computes the average of the page itself, and leaves the
result in a map from which the user program takes it. Around that prototype lie
the benchmarks it is compared with, and earlier experiments with maps, counters,
tracepoints and a kernel module.

| Part | Source | Module |
|---|---|---|
| offloaded read | `out-of-tree/readiter_*.c` | `Readiter` |
| program loader | `out-of-tree/bpf_load.c` and its copies | `BpfLoader` |
| tail-call reduction, benchmarks | `out-of-tree/tailcall_*.c`, `bpfbench_*.c`, `userbench.c` | `Reduction` |
| idle and frequency statistics | `415/src/cpustat_*.c` (same kernel part in `504`) | `CpuStat` |
| read tracing through maps | `buffermap_*`, `readbuff_*`, `passfd_*` in `415/src` (copies in `504/src`, `out-of-tree`) | `ReadTrace` |
| event counters | `open_tp_*.c`, `sampleip_*.c` in `415/src`, `src/sock_*.c` | `Counters`, `Tally` |
| ring buffer | `out-of-tree/perfarray_*.c` and, of libbpf, what it runs | `Perfarray` |
| override statistics | `out-of-tree/override_exec_*.c` | `Override`, `Tally` |
| procfs module and its override | `procfs/`, `out-of-tree/procfs_override_*.c` | `Override` |
| trace-only probes, stubs, samples | see *Not modelled* | none |

How they interact: every user program goes through the loader, and every probe
finds its maps only because the loader has patched their descriptors into it.
`Readiter` and `Reduction` share the parser of two-digit numbers, `Strtoul`,
which stands for the kernel's `bpf_strtoul`. `Counters` and `Override` each contain a
map that counts, and are shown to implement the same abstract counter, `Tally`.

## The modules

**Strtoul** (external). What `bpf_strtoul` makes of two or three bytes: whether it
succeeds, and the number it stores. Known from the kernel, not from this
repository.

**Readiter**. Processes that read files, one of them `readiter_user`. `main` is
where the user program is, `pc[p]` where process p's system call is, `loop[p]` the
locals of the probe that runs for it; `my_read_map` and `result_map` are the two
maps. Each statement of `bpf_copyout` that touches shared state is an action
(`PassBy`, `Override`, `Iterate`, `GiveUp`, `Publish`, `Mark`), so probes on several
CPUs interleave. `OverrideLost` is the copy that takes place in spite of the
override, which `out-of-tree/report.md:23` reports.

**BpfLoader**. `load_bpf_file` as a process: reset and clearing of the kprobe
events, the scan of the sections, one action per map, relocation, the load of each
program, and the steps of attaching it (write the event, open its id, open the
perf event, set the program). Processes can be killed and started again; the
kernel's list of kprobe events is shared and outlives them. A file is a sequence
of sections, abstracted to what the loader looks at (`NoName` stands for an empty
string). A `scene`, chosen at the
start, says which processes load, which files, and how often.

**Reduction**. The loops of `tailcall_kern.c`, `userbench.c` and `bpfbench_kern.c` on
the same file, byte by byte, including what a partly filled or uninitialised
buffer holds.

**CpuStat**. The handlers of `cpu_idle` and `cpu_frequency` for each CPU, cut at the
accesses to the words they share; `cpustat_user` copies the totals one entry at a
time. A `mode` says whether that is part of the behaviour, and whether the two
handlers for one CPU may run at once: they may, since a frequency change is often
made by another CPU. An event for a CPU beyond the table finds no entry and
changes nothing.

**ReadTrace**. The probes on entry and exit of `read` in three experiments, chosen by
`Program`, with their user programs and the reads of other processes.
`val[p]` is what a probe holds between reading one map and writing another. `early`
records which probes had read `my_map` when the user program set it; no guard
looks at it.

**Tally**. The abstract counter: a number of events and a value for each key. An
*exact* tally is the number of events. A *lossy* one may forget events and may be
set to 0, but never exceeds the number of events, and is above 0 after an event
it counts. A *rewritten* one may also return to an earlier count.

**Counters**. The handlers of `open_tp`, `sampleip` and `sock` on several CPUs, with
their user programs; `Program` says which one runs. `at[c]`, `key[c]` and `reg[c]` are
the place, the key and the loaded count of the handler on CPU c. Where the code
adds with `*val += 1`, load and store are two actions; `sock` adds atomically. In
`sampleip` a key that was not found is inserted in a separate step, and finds the
map full or the entry present by then. `open_tp`'s program opens a file, checks each
map and sets it to 0 (`VerifyLookup`, `VerifyUpdate`). `sampleip`'s arms the CPUs, sleeps,
disarms them and walks the map; a signal starts the walk at any time
(`Interrupt`), also in the middle of another one. The walk follows the order of the
hash, and entries may appear before or behind it.

**Perfarray**. The kprobe on CPU 0 with its ring, and the user program with the libbpf
functions it calls. The reader waits, takes a snapshot of the head (`ReadHead`),
processes record by record (`ProcessRecord`, `CopyFails` for the copy of a record
that wraps around), and gives the room back (`WriteTail`). The kernel's part is
external: a record that does not fit is refused, the next one that fits is
preceded by a record that says so, and a record is announced after it has been
put in (`Announce`), which is a step of its own.

**Override**. `override_exec` and `procfs_override` among other readers. Of the first,
the probe is cut at each access to `counter_map`: `*counter += 1` is `Load` and `Store`,
and the update that copies the entry onto itself is `Reload` and `Restore`. Of the
second, `myread` is `Allocate`, `CopyToUser` and `CopyFaults`, or `ReadReplaced` while the
experiment runs. `Mark` has the three outcomes the repository reports: marked,
not marked, and marked but overwritten by the copy. The module can be removed
(`Cleanup`), the user program killed. `None`, the value of `my_read_map` before
registration, is the null address.

The `MC...` modules give the constants their values. Definitions commented as
*Mutant* are wrong variants of the definition that follows: put in its place,
each makes one property fail.

## What is checked

| Run | States | What it shows |
|---|---|---|
| `readiter_alone` | 1,020 | Buffers at distinct addresses: other readers keep their data, an owner whose buffer says 42 prints the average of its own page, nothing is lost without a parse error, every read returns. |
| `readiter_shared` | 568,344 | A reader at the owner's address and one at address 0, probes publishing concurrently: `result_map` still only holds averages of whole pages. |
| `readiter_average` | violation | With a shared address the owner prints another process's average. |
| `loader` | 101,865 | One loader, killed, restarted and loading repeatedly, on nineteen files, and two loaders side by side: success means complete, programs go live in order and on the function they name, user program and probes use the same maps, loads do not affect each other, every load returns; for a single loader also that entry and return probes are what they were declared, and that old probes are gone. |
| `reduction_small` | 16,135 | Some 1200 short files: where the kernel's parser succeeds the C library agrees, and which numbers each loop counts. |
| `reduction_page` | violation | At the real sizes, on a page of twelves, bpfbench publishes 8. |
| `cpustat` | 1,526,979 | Handlers of a CPU one at a time: idle and busy time together never exceed the elapsed time, in the maps and in the copy. Handlers interleaved: the idle times still do not, and rows of other CPUs stay 0. |
| `cpustat_interval` | violation | Overlapping handlers compute an interval that wraps. |
| `readtrace` | 183,096 | The user program gets the descriptor it passed, or its own buffer's address, among the reads of others, unless a probe had read `my_map` before it was set; without that exception the property fails. buffermap's `my_char_map` gets and keeps the watched process's byte, even with a reader at the same address. |
| `counters` | 832,540 | The three programs on two CPUs: `sock` counts exactly, the others are lossy tallies that lose events only where two handlers met on a key; `open_tp` never reports a 0; what `sampleip` prints after sampling is final, fits `counts[]`, and comes with a warning if samples were dropped; every user program ends. |
| `perfarray` | 33,437 | Every sample in the ring is counted once, also when it wraps around or a pass is cut short; no record is left unannounced while the program waits; the rate is printed once and contains at most one ring of samples from before `start_time`; the program ends. |
| `override` | 112,475 | "success" is the number of replaced and marked reads; the counter is exact without overlap, and a rewritten tally with it; a reader of `/proc/helloworld` gets the contents before the end of the file, leaves at most one buffer unfreed, and comes to an end. |

Limits of what holds. `ProbesWhereDeclared` claims the function's name always, and
the kind of probe only for a single loader: between writing an event and opening its
id, another loader can replace it by one of the same name and the other kind.
`TailAgreesWithLibc` is about files whose first nine bytes are not zero; on a
shorter file the tail call parses an uninitialised buffer. `myread` does not free its
buffer on its early return or when the copy fails, so `LeaksBounded` is about one
for each reader, and not none. `SuccessIsOverride` is about files that do not begin
with 42, which the program could not tell from an override. `PrintIsFinal` and
`DropIsReported` are about a `sampleip` that no signal interrupts.

### Disagreements with the comments

1. `out-of-tree/readiter_kern.c:224` compares addresses and not processes, so
   `result_map`, "used to pass the average back to the user" (line 28), can hold
   the average of someone else's page.
2. `out-of-tree/bpfbench_kern.c:117` reads chunks of 256 bytes and takes 85 triples
   from each, but 256 is no multiple of 3. What it publishes is not "the average"
   (line 28).
3. `415/src/cpustat_kern.c:169`: the two handlers share `pts` without a lock, and
   "Duration(Idx) = Ts\` - Ts" (32-33) can be negative, that is, nearly 2^64. It
   holds on the same instance when the handlers do not overlap.

More are visible in the models as they stand, without a run of their own. Checking
the property named, with the configuration named, gives the counterexample:

- `415/src/cpustat_kern.c:268` looks up the operating point after overwriting it,
  although "need recording interval for previous frequency OPP3" (253-254):
  `PreviousFrequencyIsCharged` with `cpustat.cfg`.
- `415/src/buffermap_user.c:87` looks up `map_fd[2]`, which is `my_buffer_map`; the
  character that is returned "to userland through the map" is in the fourth,
  `my_char_map` (`buffermap_kern.c:87`): `CharReachesTheUser` with `readtrace.cfg`.
- `readbuff_kern.c:171` takes the first byte of the map's value, the address, and not
  of the buffer (line 79): the same property, with `Programs = {"readbuff"}`.
- `buffermap_kern.c:190` deletes from an array map, which has no effect (line 189).
- `passfd_kern.c:74` copies on every read of every process, not "if the
  instrumentation was on the passed file descriptor" (`passfd_user.c:61`).

### Bounds

- Pages of 7 bytes hold two numbers, enough for a first turn of the loop and a
  last one; one of the pages is a short file. Three processes are an owner, a
  rival at the same address, and one at address 0, which matches the map before
  registration.
- Two starts and three loads per process, and `MAX_PROGS` 4, reach a collision with
  leftovers, a reload and a full table. The files are cut-down versions of the
  repository's and variants the loader does not support.
- Chunks of 7 bytes with 2 triples keep the remainder of 1 that 256 and 85 have.
- A clock up to 4 (serial) and 3 (overlapping) let a CPU be busy, idle and busy again
  around a frequency change, and let both handlers hold a stale time. A third
  frequency is missing from the table. `U32` and `U64` are small widths that the
  totals do not reach unless a difference wraps.
- Three readers in `ReadTrace`: the user program, one on descriptor 0, which equals
  `my_map` before it is set, and one on another descriptor at the same
  address. They read for ever.
- Two CPUs and two events of other processes for each key are enough for a lost
  increment, a stale store after a reset, and two insertions of one key. Three
  addresses for `MAX_IPS` 2 fill the map. `sock` prints twice of five times.
- A ring of 192 bytes with records of 32, and 24 for a loss, does not divide evenly,
  so records wrap around at several offsets; `MAX_CNT` 8 takes more than one ring.
- The rival of `Override` shares the user program's address and reads `/proc` to the end;
  the other reads once, as `usertest` does. Two iterations show what one read leaves
  for the next. The rivals' reads before registration (the null address) are in the
  proofs only.

### Fairness

`ReadsReturn` assumes weak fairness of each system call in the kernel and of the
user program's steps after its read: the scheduler runs what is runnable.
`LoadReturns` assumes it of a process inside `load_bpf_file`, which never blocks on
another process. `UserEnds` assumes it of the user program and of the handlers that
are under way, not that events occur. `Finishes` assumes that the traced function
goes on being called on CPU 0 (`dd` runs until the program kills it), that the kernel
announces what it has put in, and that the program runs; it assumes no error and
excludes none. `AllEnd` assumes that system calls run to their end and that a
process that reads a file to its end goes on reading. Failures, signals, and when a
process starts are never assumed. The other runs check safety only. Deadlock is not
checked where all processes come to an end: in `loader`, `counters`, `perfarray`, `override`
and the reductions.

## What is proved

Each theorem holds for every value of the constants that the module's assumption
allows, not only for the instances above.

| Module | Theorems | For any |
|---|---|---|
| `ReaditerProofs` | `TypeCorrect` (with it: the loop stays in the page and never divides by zero), `FilterCorrect`, `ResultCorrect`, `AnswerCorrect`, `LossFree`, `ReadsAdvance` | processes, addresses, page size above 3, pages |
| `CountersProofs` | `TypeCorrect`, `OnlyOverlapLosesCorrect`, `VerifyCorrect`, `PrintFits`, `PrintIsFinalCorrect`, `DropIsReportedCorrect`, `TallyImplemented` | CPUs, addresses, `MAX_IPS`, numbers of events |
| `PerfarrayProofs` | `TypeCorrect`, `CountedOnce`, `NeverStranded`, `RatePrintedOnce`, `RateCorrect` | ring and record sizes, `MAX_CNT` |
| `OverrideProofs` | `TypeCorrect`, `SuccessCorrect`, `CountCorrect`, `EndCorrect`, `LeaksCorrect`, `TallyImplemented` | processes, addresses, iterations |
| `ReadTraceProofs` | `TypeCorrect`, `HandOverCorrect`, `CharCorrect` | processes, descriptors, addresses, bytes |
| `CpuStatProofs` | `TypeCorrect`, `RowsCorrect`, `IdleTimesAreElapsed`, `TimesAreCountedOnce`, `PrintedTimesAreElapsed` | CPUs, idle states, operating points, clocks |
| `BpfLoaderProofs` | `TypeCorrect`, `ZeroIsComplete`, `InOrder`, `MapsAreShared`, `IndependentLoads`, `AttachedWhereDeclared`, `OldEventsAreGone`, `LoadsAdvance` | object files, loaders, starts, loads, sizes of `prog_fd[]`, answers of the kernel |
| `ReductionProofs` | `TypeCorrect`, `TailAgrees`, `UserAveragesCorrect`, `BenchCorrect` | files, sizes and numbers of chunks, triples per chunk, widths of the sum, contents of the stack |

With these, every safety property that a passing run checks is also proved, and so are
the two refinements. The type invariants of the eight modules are proved too; only the
run `loader` repeats one. Every proof has the same plan: an
inductive invariant `IInv`, a lemma for each conjunct or group of conjuncts with a
case for each action, and a theorem that combines them. What has to be added to the
properties:

- **Readiter**. The locals of a running probe account for the numbers read so far
  (`LoopInv`), a probe that has published has parsed its whole page (`MarkInv`), a
  process with another address never passes the comparison (`FilterInv`), and, with
  addresses unshared, what the owner's probe published stays until the owner has
  looked it up (`OwnerInv`).
- **Counters**. A handler
  that has had its key to itself holds what the map holds (`AloneInv`), no loaded
  count exceeds the finished handlers (`BoundInv`), a map that `open_tp` has yet to
  check is above 0 or its own handler is still under way (`VerifyInv`), with the events
  disarmed no handler is left and what has been printed is what the map holds
  (`PrintInv`), and samples are dropped only from a full map (`RoomInv`).
- **Perfarray**. Records take less than the ring's bytes, and the loop stays
  within the snapshot of `head` it took (`TypeInv`, `RoomInv`); a record that is there while
  the program waits has been announced or is about to be (`AnnouncedInv`); the samples
  put in before `start_time` fit into one ring (`RateInv`).
- **Override**. Which code a process can be in (`PlaceInv`), no loaded count exceeds
  the executions and without overlap it is the counter's value (`CountInv`, `AloneInv`),
  the user program's buffer is clear until its read is marked or copied (`SeenInv`), a
  reader's position moves exactly when it gets the contents (`GotInv`), and a buffer
  stays allocated only for a read under way or the last one (`LeakInv`).
- **ReadTrace**. A probe that compared after registration holds the right value, and
  the user program's own probe leaves it in the map (`HandInv`); in `buffermap` only
  the watched process's probe gets past the comparison (`CharInv`).
- **CpuStat**. The locals of a handler are in their ranges (`HandlerInv`), and
  falling asleep and waking take turns, so that the index of the state left is one of
  the table (`WakeInv`). That keys of different CPUs differ is arithmetic on
  `cpu * MAX_CSTATE_ENTRIES + state` (`KeyFacts`, `RowKeys`). For the times, `TimeInv`:
  the idle times, with an interval about to be added, lie before `cts` (`IdleInv`); the
  word `cstate` says whether the CPU is awake once it has had an event (`TurnInv`,
  `AsleepInv`); with one handler at a time all that is recorded or owed lies before
  `pts` while the CPU is busy and before `cts` while it is idle (`SerialInv`); and a
  copied total is never more than its entry, because an addition that stays below the
  clock does not wrap around (`CopyInv`). The properties are sums over rows, so the
  section *Sums* first shows what the recursive sum over a set does: any element may
  come first (`TotalWithout`), parts add up (`TotalParts`), a sum grows by what one
  entry grows (`TotalBound`), and a sum over entries paired with larger ones is smaller
  (`TotalBelow`).
- **Reduction**. The tail call has added up what `strtoul` returns for the triples
  behind it (`TailInv`); `userbench` has added up exactly the numbers before `i`
  (`UserInv`); `bpfbench` has added up no more than the numbers of the page that begin
  before its place, and its buffer is the chunk at hand up to the first zero
  (`BenchInv`). The step that matters is `OutOfStep`: a triple of a regular page begins
  on a number, on its second digit or on a separator, and in none of the three cases
  does `bpf_strtoul` make more of it than one number of the page, another one for each
  triple. `LibcFacts` and
  the lemmas after it show that `strtoul` agrees with `bpf_strtoul` wherever the latter
  succeeds, for any two bytes. Sums and values are recursive functions; that these
  exist, and what they are, is shown with the least counterexample (`Numbers`,
  `SumsExist`, `TotalIs`, `DigitsExist`).
- **BpfLoader**. The
  programs of a call are those of the sections before the one at hand, in order and
  without a gap (`OrderInv`, `DoneInv`); all are connected but the last while it is being
  attached (`ConnectInv`); a jump table holds programs at their own indices, and the one
  being filled only programs of this call (`TableInv`); the maps made so far have one
  descriptor in `map_fd[]`, `map_data[]` and the patched instructions, which no earlier
  program has (`FdInv`, `ShareInv`); the event a program is about to be attached to is the
  declared one (`EventInv`), since the kernel's list has one event of a name, and a single
  loader finds there only its own (`ListInv`). What the proof needs of object files (the
  next program section, the order of the sorted map symbols) is a fact about constants
  (`FileFacts`), shown once. The sizes of `prog_fd[]` and of the tables, which only the
  types need, are a second invariant on top (`SizeInv`).

`ReadsAdvance` and `LoadsAdvance` are the half of `ReadsReturn` and `LoadReturns` that
needs no fairness. `StepsLeft` bounds the steps a read, or a call of `load_bpf_file`, may
still take. Every step of the read or the call lowers it, and no step of anybody else
raises it: the loop of `bpf_copyout` is bounded by the page, and the loader tries nothing
twice. That a step is taken at all while some are left is the fairness, and is
checked by TLC.

`TallyImplemented`, in both modules, is a refinement proof: initial states map to
initial states of `Tally`, and every step to a step of it or a stutter.

Assumptions, all evaluated by TLC on the instances. `Readiter`: the owner is a process,
its buffer is not the null pointer, and pages are functions into bytes. `Counters`: the caller's CPU exists. `Perfarray`: sizes are positive, and a
sample and a loss record fit into the ring. `Override`: the user program is a process
and not one of those that read a file to its end. `ReadTrace`: process ids are positive, and the owner's
descriptor and address are not 0. `CpuStat`: sizes are positive, the table's indices fit
into 32 bits, and the clock into 64. `BpfLoader`: an object file is a sequence of sections that
is well formed (`WellFormed`: every map has one symbol, every program section at most one
section of relocations, and no two sections claim the same place in the jump table), a
scene's processes are loaders, and the bounds are numbers. `Reduction`: files are
sequences of at most a page of bytes, the triples of a chunk leave a byte of it over, the
tail call's buffer has its nine bytes, and a sum of two-digit numbers, one for each byte of
a page, does not overflow.

Only model-checked: the liveness properties (`ReadsReturn`, `LoadReturns`, `UserEnds`,
`Finishes`, `AllEnd`), since fairness and enabledness are beyond the proof system, and the
three properties of the violation runs, which do not hold.

## Not modelled

- The probes that only print a trace line (`hellotrace`, `tracex1`, `kprobe_open`, the
  other kprobes of `readiter_kern.c`, the active parts of `mmap_kern.c`) keep no state.
  `proberead` overwrites the buffer of one write and keeps nothing between two calls. `strtol` is one call on a constant.
- `attach_open` and `attach_read` do not compile; `attach_file` and `benchmark` are
  empty; `src/cpustat` is a stub.
- `task_fd_query` is the kernel's own sample; `module/lkm_example.c` prints two lines.
- In the loader, `load_bpf_file_fixup_map`'s callback, which no program uses, and
  `read_trace_pipe`. In cpustat, the signal handler, which repeats the update and
  exits, lost events, and idle states deeper than the table.
- In the procfs module, a `kmalloc` that fails, which `myread` does not check. In
  `sampleip`, a signal once the last entry has been fetched. In `perfarray`, events
  while `perf_buffer__new` is still opening the rings.
- The vendored kernel headers and tools (of libbpf only what `perfarray` runs), and the
  recorded traces in `docs`.

## Plan

1. A composition of `BpfLoader` and the tail call: what a probe does that runs before
   its jump table is filled.
2. In `CpuStat`, lost events and deep idle states (`cpustat_kern.c:198`), and the signal
   handler.
3. Bounds like `StepsLeft` for the user programs of `Counters` and the readers of
   `Override`.
