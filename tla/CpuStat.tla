------------------------------ MODULE CpuStat ------------------------------
(***************************************************************************)
(* cpustat: two tracepoint handlers, for cpu_idle and cpu_frequency, keep  *)
(* for every CPU the time it spends in each idle state and at each         *)
(* operating point; cpustat_user copies the totals and prints them.        *)
(* cpu_idle fires on the CPU it is about.  cpu_frequency may fire on       *)
(* another one, so the two handlers for one CPU can run at the same time   *)
(* and share its four words of my_map without a lock.                      *)
(***************************************************************************)
EXTENDS Integers, FiniteSetsExt

CONSTANTS
  Cpus,         \* the CPUs that have events (an event of any other is a
                \* stutter: its lookups in my_map fail)
  MAX_CPU, MAX_CSTATE_ENTRIES, MAX_PSTATE_ENTRIES,
  cpu_opps,     \* the operating points, by their index
  Frequencies,  \* what cpu_frequency events report
  Modes,        \* the settings that are checked:
                \*   overlap: may the two handlers of one CPU overlap?
                \*   watching: does cpustat_user read the durations?
                \*   until: bound, how long the clock runs (a 64-bit
                \*   count, which does not wrap around)
  U32, U64      \* the integers of the two widths are 0..U32 - 1, 0..U64 - 1

ASSUME CpuAssumption ==
  /\ {MAX_CPU, MAX_CSTATE_ENTRIES, MAX_PSTATE_ENTRIES, U32, U64} \subseteq Nat \ {0}
  /\ MAX_CSTATE_ENTRIES < U32 /\ MAX_CPU * MAX_CSTATE_ENTRIES <= U32
  /\ Cpus \subseteq 0..(MAX_CPU - 1)
  /\ cpu_opps \in [0..(MAX_PSTATE_ENTRIES - 1) -> Frequencies]
  /\ Modes \subseteq [overlap : BOOLEAN, watching : BOOLEAN, until : 1..(U64 - 1)]

EXITED == U32 - 1   \* (u32)-1: the CPU has left its idle state

VARIABLES
  mode,             \* the setting, which stays
  now,              \* bpf_ktime_get_ns
  asleep,           \* which CPUs are idle
  my_map,           \* cts, cstate, pts, pstate of each CPU
  cstate_duration, pstate_duration,
  idle,             \* the handler of cpu_idle for each CPU, with its locals
  freq,             \* the handler of cpu_frequency for each CPU
  stat_data,        \* cpustat_user's copy of the durations
  next              \* the entry it copies next

maps == <<my_map, cstate_duration, pstate_duration>>
user == <<stat_data, next>>
vars == <<mode, now, asleep, my_map, cstate_duration, pstate_duration,
          idle, freq, stat_data, next>>

CKeys == 0..(MAX_CPU * MAX_CSTATE_ENTRIES - 1)
PKeys == 0..(MAX_CPU * MAX_PSTATE_ENTRIES - 1)

\* The n-th entry that cpu_stat_update reads: which map, which key.
Entry(n) ==
  LET c == (n - 1) \div (MAX_CSTATE_ENTRIES + MAX_PSTATE_ENTRIES)
      i == (n - 1) % (MAX_CSTATE_ENTRIES + MAX_PSTATE_ENTRIES)
  IN  IF i < MAX_CSTATE_ENTRIES
      THEN <<"c", c * MAX_CSTATE_ENTRIES + i>>
      ELSE <<"p", c * MAX_PSTATE_ENTRIES + i - MAX_CSTATE_ENTRIES>>
NrEntries == MAX_CPU * (MAX_CSTATE_ENTRIES + MAX_PSTATE_ENTRIES)

Off == [pc |-> "off", state |-> 0, prev_state |-> 0, cur_ts |-> 0, delta |-> 0]

Init ==
  /\ mode \in Modes
  /\ now = 1
  /\ asleep \in [Cpus -> BOOLEAN]
  /\ my_map = [c \in Cpus |-> [cts |-> 0, cstate |-> 0, pts |-> 0, pstate |-> 0]]
  /\ cstate_duration = [k \in CKeys |-> 0]
  /\ pstate_duration = [k \in PKeys |-> 0]
  /\ idle = [c \in Cpus |-> Off]
  /\ freq = [c \in Cpus |-> Off]
  /\ stat_data = [n \in 1..NrEntries |-> 0]
  /\ next = 1

Tick ==
  /\ now < mode.until
  /\ now' = now + 1
  /\ UNCHANGED <<asleep, maps, idle, freq, user>>

\* a - b in unsigned long long
Minus(a, b) == (a - b) % U64

Add(durations, key, delta) ==
  IF key \in DOMAIN durations
  THEN [durations EXCEPT ![key] = (@ + delta) % U64]
  ELSE durations

\* find_cpu_pstate_idx, MAX_PSTATE_ENTRIES for failure
Found(f) == {n \in DOMAIN cpu_opps : cpu_opps[n] = f}
FindIdx(f) == IF Found(f) = {} THEN MAX_PSTATE_ENTRIES
              ELSE CHOOSE n \in Found(f) : \A m \in Found(f) : n <= m

\* Mutant: idle states counted from one.
CKeyOneBased(c, state) == (c * MAX_CSTATE_ENTRIES + state + 1) % U32

CKey(c, state) == (c * MAX_CSTATE_ENTRIES + state) % U32
PKey(c, n)     == c * MAX_PSTATE_ENTRIES + n

Leave(h, c) == [h EXCEPT ![c] = Off]

-----------------------------------------------------------------------------
(* bpf_prog1, on cpu_idle *)

\* The CPU goes to sleep or wakes up; the event carries the idle state or -1.
IdleEvent(c) ==
  /\ idle[c].pc = "off"
  /\ mode.overlap \/ freq[c].pc = "off"
  /\ \E s \in 0..(MAX_CSTATE_ENTRIES - 1) :
       idle' = [idle EXCEPT ![c] = [Off EXCEPT !.pc = "state",
                  !.state = IF asleep[c] THEN EXITED ELSE s]]
  /\ asleep' = [asleep EXCEPT ![c] = ~@]
  /\ UNCHANGED <<now, maps, freq, user>>

IdleState(c) ==
  /\ idle[c].pc = "state"
  /\ idle' = [idle EXCEPT ![c].prev_state = my_map[c].cstate, ![c].pc = "clock"]
  /\ my_map' = [my_map EXCEPT ![c].cstate = idle[c].state]
  /\ UNCHANGED <<now, asleep, cstate_duration, pstate_duration, freq, user>>

\* if (!*cts)
IdleFirst(c) ==
  /\ idle[c].pc = "clock"
  /\ my_map[c].cts = 0
  /\ my_map' = [my_map EXCEPT ![c].cts = now]
  /\ idle' = Leave(idle, c)
  /\ UNCHANGED <<now, asleep, cstate_duration, pstate_duration, freq, user>>

\* Mutant: *cts keeps its value.
IdleClockKeepsCts(c) ==
  /\ idle[c].pc = "clock"
  /\ my_map[c].cts # 0
  /\ idle' = [idle EXCEPT ![c].cur_ts = now,
                          ![c].delta = Minus(now, my_map[c].cts),
                          ![c].pc = IF idle[c].state = EXITED
                                    THEN "cstate" ELSE "pts"]
  /\ UNCHANGED <<now, asleep, maps, freq, user>>

\* cts is the idle handler's own: reading the clock and taking the interval
\* are one step.
IdleClock(c) ==
  /\ idle[c].pc = "clock"
  /\ my_map[c].cts # 0
  /\ idle' = [idle EXCEPT ![c].cur_ts = now,
                          ![c].delta = Minus(now, my_map[c].cts),
                          ![c].pc = IF idle[c].state = EXITED
                                    THEN "cstate" ELSE "pts"]
  /\ my_map' = [my_map EXCEPT ![c].cts = now]
  /\ UNCHANGED <<now, asleep, cstate_duration, pstate_duration, freq, user>>

\* if (!*pts): before the first cpu_frequency event
IdleNoPts(c) ==
  /\ idle[c].pc = "pts"
  /\ my_map[c].pts = 0
  /\ idle' = Leave(idle, c)
  /\ UNCHANGED <<now, asleep, maps, freq, user>>

\* delta = cur_ts - *pts
IdleInterval(c) ==
  /\ idle[c].pc = "pts"
  /\ my_map[c].pts # 0
  /\ idle' = [idle EXCEPT ![c].delta = Minus(idle[c].cur_ts, my_map[c].pts),
                          ![c].pc = "pstate"]
  /\ UNCHANGED <<now, asleep, maps, freq, user>>

\* The interval goes to the operating point, if it is a known one.
IdlePstate(c) ==
  LET n == FindIdx(my_map[c].pstate)
  IN  /\ idle[c].pc = "pstate"
      /\ \/ /\ n >= MAX_PSTATE_ENTRIES
            /\ idle' = Leave(idle, c)
            /\ UNCHANGED pstate_duration
         \/ /\ n < MAX_PSTATE_ENTRIES
            /\ idle' = [idle EXCEPT ![c].pc = "stamp"]
            /\ pstate_duration' = Add(pstate_duration, PKey(c, n), idle[c].delta)
      /\ UNCHANGED <<now, asleep, my_map, cstate_duration, freq, user>>

\* The CPU has woken up: the interval goes to the idle state it was in.
IdleCstate(c) ==
  /\ idle[c].pc = "cstate"
  /\ idle' = [idle EXCEPT ![c].pc = "stamp"]
  /\ cstate_duration' = Add(cstate_duration, CKey(c, idle[c].prev_state),
                            idle[c].delta)
  /\ UNCHANGED <<now, asleep, my_map, pstate_duration, freq, user>>

\* Mutant: the new start time is not recorded.
IdleNoStamp(c) ==
  /\ idle[c].pc = "stamp"
  /\ idle' = Leave(idle, c)
  /\ UNCHANGED <<now, asleep, maps, freq, user>>

\* if (*pts) *pts = cur_ts
IdleStamp(c) ==
  /\ idle[c].pc = "stamp"
  /\ my_map' = IF my_map[c].pts = 0 THEN my_map
               ELSE [my_map EXCEPT ![c].pts = idle[c].cur_ts]
  /\ idle' = Leave(idle, c)
  /\ UNCHANGED <<now, asleep, cstate_duration, pstate_duration, freq, user>>

-----------------------------------------------------------------------------
(* bpf_prog2, on cpu_frequency *)

FreqEvent(c) ==
  /\ freq[c].pc = "off"
  /\ mode.overlap \/ idle[c].pc = "off"
  /\ \E f \in Frequencies :
       freq' = [freq EXCEPT ![c] = [Off EXCEPT !.pc = "state", !.state = f]]
  /\ UNCHANGED <<now, asleep, maps, idle, user>>

FreqState(c) ==
  /\ freq[c].pc = "state"
  /\ freq' = [freq EXCEPT ![c].prev_state = my_map[c].pstate, ![c].pc = "clock"]
  /\ my_map' = [my_map EXCEPT ![c].pstate = freq[c].state]
  /\ UNCHANGED <<now, asleep, cstate_duration, pstate_duration, idle, user>>

\* if (!*pts)
FreqFirst(c) ==
  /\ freq[c].pc = "clock"
  /\ my_map[c].pts = 0
  /\ my_map' = [my_map EXCEPT ![c].pts = now]
  /\ freq' = Leave(freq, c)
  /\ UNCHANGED <<now, asleep, cstate_duration, pstate_duration, idle, user>>

\* cur_ts = bpf_ktime_get_ns()
FreqClock(c) ==
  /\ freq[c].pc = "clock"
  /\ my_map[c].pts # 0
  /\ freq' = [freq EXCEPT ![c].cur_ts = now, ![c].pc = "pts"]
  /\ UNCHANGED <<now, asleep, maps, idle, user>>

\* delta = cur_ts - *pts; *pts = cur_ts
FreqInterval(c) ==
  /\ freq[c].pc = "pts"
  /\ freq' = [freq EXCEPT ![c].delta = Minus(freq[c].cur_ts, my_map[c].pts),
                          ![c].pc = "pstate"]
  /\ my_map' = [my_map EXCEPT ![c].pts = freq[c].cur_ts]
  /\ UNCHANGED <<now, asleep, cstate_duration, pstate_duration, idle, user>>

\* The CPU is idle, or the operating point is not in the table.
FreqBailsOut(c) ==
  /\ freq[c].pc = "pstate"
  /\ \/ my_map[c].cstate # EXITED
     \/ FindIdx(my_map[c].pstate) >= MAX_PSTATE_ENTRIES
  /\ freq' = Leave(freq, c)
  /\ UNCHANGED <<now, asleep, maps, idle, user>>

\* The operating point is looked up after *pstate has been overwritten.
FreqPstate(c) ==
  LET n == FindIdx(my_map[c].pstate)
  IN  /\ freq[c].pc = "pstate"
      /\ my_map[c].cstate = EXITED
      /\ n < MAX_PSTATE_ENTRIES
      /\ freq' = Leave(freq, c)
      /\ pstate_duration' = Add(pstate_duration, PKey(c, n), freq[c].delta)
      /\ UNCHANGED <<now, asleep, my_map, cstate_duration, idle, user>>

-----------------------------------------------------------------------------
(* cpustat_user.c: cpu_stat_update *)

Lookup(e) == IF e[1] = "c" THEN cstate_duration[e[2]] ELSE pstate_duration[e[2]]

\* Mutant: the totals are added to those of the last round.
UpdateAccumulates ==
  /\ mode.watching
  /\ stat_data' = [stat_data EXCEPT ![next] = @ + Lookup(Entry(next))]
  /\ next' = (next % NrEntries) + 1
  /\ UNCHANGED <<now, asleep, maps, idle, freq>>

\* One bpf_map_lookup_elem; the handlers run between two of them.
Update ==
  /\ mode.watching
  /\ stat_data' = [stat_data EXCEPT ![next] = Lookup(Entry(next))]
  /\ next' = (next % NrEntries) + 1
  /\ UNCHANGED <<now, asleep, maps, idle, freq>>

-----------------------------------------------------------------------------
Idle(c) ==
  \/ IdleEvent(c) \/ IdleState(c) \/ IdleFirst(c) \/ IdleClock(c)
  \/ IdleNoPts(c) \/ IdleInterval(c) \/ IdlePstate(c) \/ IdleCstate(c)
  \/ IdleStamp(c)

Freq(c) ==
  \/ FreqEvent(c) \/ FreqState(c) \/ FreqFirst(c) \/ FreqClock(c)
  \/ FreqInterval(c) \/ FreqBailsOut(c) \/ FreqPstate(c)

Next == /\ Tick \/ Update \/ \E c \in Cpus : Idle(c) \/ Freq(c)
        /\ UNCHANGED mode

Spec == Init /\ [][Next]_vars

-----------------------------------------------------------------------------
(* Properties *)

\* The words of the maps, the intervals the handlers compute and the copies
\* cpustat_user makes stay in the ranges of their C types.
TypeOK ==
  /\ mode \in Modes /\ now \in 1..mode.until
  /\ asleep \in [Cpus -> BOOLEAN]
  /\ my_map \in [Cpus -> [cts : 0..mode.until, cstate : 0..EXITED,
                          pts : 0..mode.until, pstate : Frequencies \cup {0}]]
  /\ cstate_duration \in [CKeys -> 0..(U64 - 1)]
  /\ pstate_duration \in [PKeys -> 0..(U64 - 1)]
  /\ \A c \in Cpus : {idle[c].delta, freq[c].delta} \subseteq 0..(U64 - 1)
  /\ stat_data \in [1..NrEntries -> 0..(U64 - 1)]
  /\ next \in 1..NrEntries

Total(durations, keys) == MapThenSumSet(LAMBDA k : durations[k], keys)

Row(c, width) == (c * width)..(c * width + width - 1)
IdleTime(c) == Total(cstate_duration, Row(c, MAX_CSTATE_ENTRIES))
BusyTime(c) == Total(pstate_duration, Row(c, MAX_PSTATE_ENTRIES))

\* No moment is counted twice: what a CPU's entries say it has been idle and
\* busy together is no more than the time that has passed.  It takes both
\* handlers to keep pts and cts in step, and that they do not overlap.
NoTimeCountedTwice ==
  ~mode.overlap => \A c \in Cpus : IdleTime(c) + BusyTime(c) <= now - 1

\* The same for what cpustat_user prints, though it reads entry by entry while
\* the handlers go on.
PrintedWithinElapsed ==
  ~mode.overlap => \A c \in 0..(MAX_CPU - 1) :
    Total(stat_data, {n + 1 : n \in Row(c, MAX_CSTATE_ENTRIES + MAX_PSTATE_ENTRIES)})
      <= now - 1

\* The idle times are right as far as that goes whatever the overlap, for the
\* frequency handler touches neither cts nor cstate.
IdleTimeWithinElapsed == \A c \in Cpus : IdleTime(c) <= now - 1

\* A CPU that has had no event has no time: the state that selects an entry of
\* its row is always one of the table, whatever states the events reported before.
RowsAreSeparate ==
  \A c \in 0..(MAX_CPU - 1) \ Cpus :
    /\ \A k \in Row(c, MAX_CSTATE_ENTRIES) : cstate_duration[k] = 0
    /\ \A k \in Row(c, MAX_PSTATE_ENTRIES) : pstate_duration[k] = 0

\* "Duration(Idx) = Ts` - Ts" with Ts` the later of the two: an interval is
\* never more than the time that has passed.
IntervalsAreElapsedTime ==
  \A c \in Cpus : idle[c].delta < now /\ freq[c].delta < now

\* "need recording interval for previous frequency OPP3": cpu_frequency adds
\* its interval to the entry of the operating point that has ended.
PreviousFrequencyIsCharged ==
  [][\A c \in Cpus : \A n \in DOMAIN cpu_opps :
       (/\ freq[c].pc = "pstate"
        /\ freq'[c].pc = "off"
        /\ pstate_duration'[PKey(c, n)] # pstate_duration[PKey(c, n)])
         => cpu_opps[n] = freq[c].prev_state]_vars
=============================================================================
