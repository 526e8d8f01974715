--------------------------- MODULE CpuStatProofs ---------------------------
(***************************************************************************)
(* Types in CpuStat, that events of one CPU never reach the rows of        *)
(* another, and that the times recorded and printed never add up to more   *)
(* than has passed, for any number of CPUs, states and operating points.   *)
(***************************************************************************)
EXTENDS CpuStat, FiniteSetTheorems, TLAPS

\* Leaves go to Zenon; those with arithmetic ask for SMT.
USE ZenonT(40)

\* Every set of numbers has a least one.
LEMMA LeastNumber ==
  ASSUME NEW S, S \subseteq Nat, S # {}
  PROVE  \E n \in S : \A m \in S : n <= m
  <1> DEFINE R == {ss \in Nat \X Nat : ss[1] < ss[2]}
  <1>1. \A m, n \in Nat : m < n => <<m, n>> \in R
    BY SMT
  <1>2. IsWellFoundedOn(R, Nat)
    BY NatLessThanWellFounded DEF OpToRel
  <1> HIDE DEF R
  <1>3. PICK n \in S : \A m \in S : ~(<<m, n>> \in R)
    BY <1>2, WFMin
  <1>4. \A m \in S : m \in Nat /\ n \in Nat /\ ~(m < n)
    BY <1>1, <1>3
  <1>5. QED
    BY <1>3, <1>4, SMT

\* find_cpu_pstate_idx returns a number: the first match, or the size of the table.
LEMMA FindIdxFacts == \A f : FindIdx(f) \in Nat
  <1> SUFFICES ASSUME NEW f, Found(f) # {} PROVE FindIdx(f) \in Nat
    BY CpuAssumption DEF FindIdx
  <1>1. Found(f) \subseteq Nat
    BY CpuAssumption, SMT DEF Found
  <1>2. \E n \in Found(f) : \A m \in Found(f) : n <= m
    BY <1>1, LeastNumber
  <1>3. QED
    BY <1>1, <1>2 DEF FindIdx

\* Rows of a table lie one after the other.
LEMMA RowFacts ==
  ASSUME NEW c \in Nat, NEW d \in Nat, NEW w \in Nat, NEW i \in 0..(w - 1), c < d
  PROVE  c * w + i \in Nat /\ c * w + i < d * w
  <1>1. c * w \in Nat /\ d * w \in Nat
    BY SMT
  <1>2. \E e \in Nat : d = c + 1 + e
    <2>1. d - c - 1 \in Nat /\ d = c + 1 + (d - c - 1)
      BY SMT
    <2>2. QED
      BY <2>1
  <1>3. PICK e \in Nat : d = c + 1 + e
    BY <1>2
  <1>4. d * w = c * w + w + e * w /\ e * w \in Nat
    BY <1>3, SMT
  <1>5. QED
    BY <1>1, <1>4, SMT

\* The key of an entry of one CPU is in its row, and in no other.
LEMMA KeyFacts ==
  ASSUME NEW c \in 0..(MAX_CPU - 1), NEW w \in Nat, NEW i \in 0..(w - 1)
  PROVE  /\ c * w + i \in 0..(MAX_CPU * w - 1)
         /\ \A d \in 0..(MAX_CPU - 1) : c * w + i \in Row(d, w) => d = c
  <1>1. MAX_CPU \in Nat /\ c \in Nat /\ c < MAX_CPU
    BY CpuAssumption, SMT
  <1>2. c * w + i \in Nat /\ c * w + i < MAX_CPU * w /\ MAX_CPU * w \in Nat
    BY <1>1, RowFacts, SMT
  <1>3. ASSUME NEW d \in 0..(MAX_CPU - 1), c * w + i \in Row(d, w) PROVE d = c
    <2>1. d \in Nat /\ c * w \in Nat /\ d * w \in Nat
      BY <1>1, SMT
    <2>2. d * w <= c * w + i /\ c * w + i < d * w + w
      BY <1>3, <2>1, SMT DEF Row
    <2>3. ~(c < d)
      BY <1>1, <2>1, <2>2, RowFacts, SMT
    <2>4. CASE d < c
      <3>1. d * w + (w - 1) < c * w
        BY <1>1, <2>1, <2>4, RowFacts, SMT
      <3>2. QED
        BY <2>1, <2>2, <3>1, SMT
    <2>5. QED
      BY <1>1, <2>1, <2>3, <2>4, SMT
  <1>4. QED
    BY <1>2, <1>3, SMT

\* Every row is inside its table.
LEMMA RowKeys ==
  ASSUME NEW c \in 0..(MAX_CPU - 1), NEW w \in Nat, NEW k \in Row(c, w)
  PROVE  k \in 0..(MAX_CPU * w - 1)
  <1>1. c \in Nat /\ c * w \in Nat /\ k \in Int /\ k - c * w \in 0..(w - 1)
    BY CpuAssumption, SMT DEF Row
  <1>2. c * w + (k - c * w) \in 0..(MAX_CPU * w - 1)
    BY <1>1, KeyFacts
  <1>3. c * w + (k - c * w) = k
    BY <1>1, SMT
  <1>4. QED
    BY <1>2, <1>3

\* Division with a remainder.
LEMMA DivMod ==
  ASSUME NEW a \in Nat, NEW w \in Nat \ {0}
  PROVE  /\ a \div w \in Nat /\ a % w \in 0..(w - 1)
         /\ a = w * (a \div w) + (a % w)
  <1> DEFINE q == a \div w
             r == a % w
  <1>1. q \in Nat /\ a = w * q + r /\ r < w /\ r \in Nat
    BY SMT
  <1> HIDE DEF q, r
  <1>2. q \in Nat /\ r \in 0..(w - 1) /\ a = w * q + r
    BY <1>1, SMT
  <1>3. QED
    BY <1>2, Zenon DEF q, r

\* Every entry that cpu_stat_update asks for exists.
LEMMA EntryFacts ==
  ASSUME NEW n \in 1..NrEntries
  PROVE  \/ Entry(n)[1] = "c" /\ Entry(n)[2] \in CKeys
         \/ Entry(n)[1] = "p" /\ Entry(n)[2] \in PKeys
  <1> DEFINE C == MAX_CSTATE_ENTRIES
             P == MAX_PSTATE_ENTRIES
             w == C + P
             c == (n - 1) \div w
             i == (n - 1) % w
  <1>1. C \in Nat /\ P \in Nat /\ w \in Nat \ {0} /\ MAX_CPU \in Nat
    BY CpuAssumption, SMT
  <1>2. MAX_CPU * w \in Nat /\ n - 1 \in Nat /\ n - 1 < MAX_CPU * w
    BY <1>1, SMT DEF NrEntries
  <1>3. c \in Nat /\ i \in 0..(w - 1) /\ n - 1 = w * c + i
    BY <1>1, <1>2, DivMod
  <1>4. c < MAX_CPU
    <2>1. CASE MAX_CPU <= c
      <3>1. PICK e \in Nat : c = MAX_CPU + e
        <4>1. c - MAX_CPU \in Nat /\ c = MAX_CPU + (c - MAX_CPU)
          BY <1>1, <1>3, <2>1, SMT
        <4>2. QED
          BY <4>1
      <3>2. w * c = MAX_CPU * w + w * e /\ w * e \in Nat
        BY <1>1, <3>1, SMT
      <3>3. QED
        BY <1>1, <1>2, <1>3, <3>2, SMT
    <2>2. QED
      BY <1>1, <1>3, <2>1, SMT
  <1>5. Entry(n) = IF i < C THEN <<"c", c * C + i>> ELSE <<"p", c * P + i - C>>
    BY DEF Entry
  <1> HIDE DEF c, i
  <1>6. CASE i < C
    <2>1. c * C + i \in CKeys
      BY <1>1, <1>3, <1>4, <1>6, KeyFacts, SMT DEF CKeys
    <2>2. QED
      BY <1>5, <1>6, <2>1, SMT
  <1>7. CASE ~(i < C)
    <2>1. i - C \in 0..(P - 1)
      BY <1>1, <1>3, <1>7, SMT
    <2>2. c * P + (i - C) \in PKeys
      BY <1>1, <1>3, <1>4, <2>1, KeyFacts, SMT DEF PKeys
    <2>3. c * P + (i - C) = c * P + i - C
      BY <1>1, <1>3
    <2>4. QED
      BY <1>5, <1>7, <2>2, <2>3, SMT
  <1>8. QED
    BY <1>6, <1>7

-----------------------------------------------------------------------------
(* The invariant *)

Table == 0..(MAX_CSTATE_ENTRIES - 1)
Words == 0..(U64 - 1)

\* The handlers' locals hold what the events and the maps gave them.
IdleLocals ==
  [pc : {"off", "state", "clock", "pts", "pstate", "cstate", "stamp"},
   state : 0..EXITED, prev_state : 0..EXITED, cur_ts : 0..mode.until, delta : Words]

FreqLocals ==
  [pc : {"off", "state", "clock", "pts", "pstate"},
   state : Frequencies \cup {0}, prev_state : Frequencies \cup {0},
   cur_ts : 0..mode.until, delta : Words]

HandlerInv == idle \in [Cpus -> IdleLocals] /\ freq \in [Cpus -> FreqLocals]

\* A CPU wakes up from a state of the table: events of falling asleep and of
\* waking up take turns, and each is recorded before the next one comes.
WakeInv ==
  \A c \in Cpus :
    /\ asleep[c] /\ idle[c].pc # "state" => my_map[c].cstate \in Table
    /\ asleep[c] /\ idle[c].pc = "state" => idle[c].state \in Table
    /\ ~asleep[c] /\ idle[c].pc = "state" => my_map[c].cstate \in Table
    /\ idle[c].pc \notin {"off", "state"} /\ idle[c].state = EXITED =>
         idle[c].prev_state \in Table
    /\ idle[c].pc = "cstate" => idle[c].state = EXITED

IInv == TypeOK /\ HandlerInv /\ WakeInv /\ RowsAreSeparate

\* What the proofs use of the constants.
LEMMA Facts ==
  /\ \A a, b \in Nat : Minus(a, b) \in Words
  /\ 0 \in Words /\ EXITED \in Nat /\ EXITED \notin Table /\ 0 \in Table
  /\ Table \subseteq 0..EXITED
  /\ Cpus \subseteq 0..(MAX_CPU - 1)
  /\ NrEntries \in Nat \ {0}
  <1>1. \A a, b \in Nat : Minus(a, b) \in Words
    <2>1. U64 \in Nat \ {0}
      BY CpuAssumption
    <2>2. \A a, b \in Nat : (a - b) % U64 \in 0..(U64 - 1)
      BY <2>1, SMT
    <2>3. QED
      BY <2>2 DEF Minus, Words
  <1>2. 0 \in Words /\ EXITED \in Nat /\ EXITED \notin Table /\ 0 \in Table
    BY CpuAssumption, SMT DEF Words, EXITED, Table
  <1>3. Table \subseteq 0..EXITED /\ Cpus \subseteq 0..(MAX_CPU - 1)
    BY CpuAssumption, SMT DEF EXITED, Table
  <1>4. NrEntries \in Nat \ {0}
    <2>1. MAX_CPU \in Nat \ {0} /\ MAX_CSTATE_ENTRIES + MAX_PSTATE_ENTRIES \in Nat \ {0}
      BY CpuAssumption, SMT
    <2>2. \A a, b \in Nat \ {0} : a * b \in Nat \ {0}
      BY SMT
    <2>3. QED
      BY <2>1, <2>2 DEF NrEntries
  <1>5. QED
    BY <1>1, <1>2, <1>3, <1>4

\* An addition keeps the widths.
LEMMA AddFacts ==
  ASSUME NEW S, NEW durations \in [S -> Words], NEW key, NEW delta \in Words
  PROVE  Add(durations, key, delta) \in [S -> Words]
  <1>1. U64 \in Nat \ {0}
    BY CpuAssumption
  <1>2. \A a, b \in Words : (a + b) % U64 \in Words
    BY <1>1, SMT DEF Words
  <1>3. QED
    BY <1>2 DEF Add

-----------------------------------------------------------------------------
(* The steps *)

\* At the start no handler runs, and all the words are 0.
LEMMA IInvInit == Init => IInv
  <1> SUFFICES ASSUME Init PROVE IInv
    OBVIOUS
  <1>1. mode \in Modes /\ mode.until \in Nat \ {0}
    BY CpuAssumption, SMT DEF Init
  <1>2. TypeOK
    <2>1. my_map \in [Cpus -> [cts : 0..mode.until, cstate : 0..EXITED,
                              pts : 0..mode.until, pstate : Frequencies \cup {0}]]
      BY <1>1, Facts, SMT DEF Init
    <2>2. now \in 1..mode.until /\ asleep \in [Cpus -> BOOLEAN] /\ next \in 1..NrEntries
      BY <1>1, Facts, SMT DEF Init
    <2>3. /\ cstate_duration \in [CKeys -> Words] /\ pstate_duration \in [PKeys -> Words]
          /\ stat_data \in [1..NrEntries -> Words]
          /\ \A c \in Cpus : idle[c].delta \in Words /\ freq[c].delta \in Words
      BY Facts DEF Init, Off
    <2>4. QED
      BY <1>1, <2>1, <2>2, <2>3 DEF TypeOK, Words
  <1>3. HandlerInv
    BY <1>1, Facts, SMT DEF Init, HandlerInv, IdleLocals, FreqLocals, Off
  <1>4. WakeInv
    BY Facts DEF Init, WakeInv, Off
  <1>5. RowsAreSeparate
    <2>1. MAX_CSTATE_ENTRIES \in Nat /\ MAX_PSTATE_ENTRIES \in Nat
      BY CpuAssumption
    <2>2. QED
      BY <2>1, RowKeys DEF Init, RowsAreSeparate, CKeys, PKeys
  <1>6. QED
    BY <1>2, <1>3, <1>4, <1>5 DEF IInv

\* What the handlers find when they run.
LEMMA StateFacts ==
  ASSUME IInv
  PROVE  /\ mode \in Modes /\ mode.until \in Nat \ {0} /\ now \in 1..mode.until
         /\ my_map \in [Cpus -> [cts : 0..mode.until, cstate : 0..EXITED,
                                pts : 0..mode.until, pstate : Frequencies \cup {0}]]
         /\ cstate_duration \in [CKeys -> Words] /\ pstate_duration \in [PKeys -> Words]
         /\ asleep \in [Cpus -> BOOLEAN]
  BY CpuAssumption, SMTT(30) DEF IInv, TypeOK, Words

\* The handlers' locals keep their types.
LEMMA HandlerStep == IInv /\ Next => HandlerInv'
  <1> SUFFICES ASSUME IInv, Next PROVE HandlerInv'
    OBVIOUS
  <1>0. HandlerInv /\ mode' = mode
    BY DEF IInv, Next
  <1>1. CASE Tick \/ Update
    BY <1>0, <1>1 DEF Tick, Update, HandlerInv, IdleLocals, FreqLocals
  <1>2. ASSUME NEW c \in Cpus, Idle(c) PROVE HandlerInv'
    <2>0. ASSUME NEW r \in IdleLocals, idle' = [idle EXCEPT ![c] = r], freq' = freq
          PROVE  HandlerInv'
      BY <1>0, <2>0 DEF HandlerInv, IdleLocals, FreqLocals
    <2> DEFINE l == idle[c]
               m == my_map[c]
    <2>a. /\ l \in IdleLocals /\ Off \in IdleLocals
          /\ m \in [cts : 0..mode.until, cstate : 0..EXITED,
                    pts : 0..mode.until, pstate : Frequencies \cup {0}]
          /\ now \in 0..mode.until /\ mode.until \in Nat
      BY <1>0, Facts, StateFacts, SMT DEF HandlerInv, IdleLocals, Off
    <2>1. CASE IdleEvent(c)
      <3>1. PICK t \in Table : idle' = [idle EXCEPT ![c] = [Off EXCEPT !.pc = "state",
                                           !.state = IF asleep[c] THEN EXITED ELSE t]]
        BY <2>1 DEF IdleEvent, Table
      <3>2. (IF asleep[c] THEN EXITED ELSE t) \in 0..EXITED
        BY Facts, SMT
      <3>3. [Off EXCEPT !.pc = "state", !.state = IF asleep[c] THEN EXITED ELSE t] \in IdleLocals
        BY <2>a, <3>2 DEF IdleLocals
      <3>4. QED
        BY <2>0, <2>1, <3>1, <3>3 DEF IdleEvent
    <2>2. CASE IdleState(c)
      <3>1. [l EXCEPT !.prev_state = m.cstate, !.pc = "clock"] \in IdleLocals
        BY <2>a DEF IdleLocals
      <3>2. QED
        BY <2>0, <2>2, <3>1 DEF IdleState
    <2>3. CASE IdleClock(c)
      <3>1. Minus(now, m.cts) \in Words
        BY <2>a, Facts, SMT
      <3>2. [l EXCEPT !.cur_ts = now, !.delta = Minus(now, m.cts),
                      !.pc = IF l.state = EXITED THEN "cstate" ELSE "pts"] \in IdleLocals
        BY <2>a, <3>1 DEF IdleLocals
      <3>3. QED
        BY <2>0, <2>3, <3>2 DEF IdleClock
    <2>4. CASE IdleInterval(c)
      <3>1. Minus(l.cur_ts, m.pts) \in Words
        BY <2>a, Facts, SMT DEF IdleLocals
      <3>2. [l EXCEPT !.delta = Minus(l.cur_ts, m.pts), !.pc = "pstate"] \in IdleLocals
        BY <2>a, <3>1 DEF IdleLocals
      <3>3. QED
        BY <2>0, <2>4, <3>2 DEF IdleInterval
    <2>b. [l EXCEPT !.pc = "stamp"] \in IdleLocals
      BY <2>a DEF IdleLocals
    <2>5. CASE IdlePstate(c)
      BY <2>0, <2>5, <2>a, <2>b DEF IdlePstate, Leave
    <2>6. CASE IdleCstate(c)
      BY <2>0, <2>6, <2>b DEF IdleCstate
    <2>7. CASE IdleFirst(c)
      BY <2>0, <2>7, <2>a DEF IdleFirst, Leave
    <2>8. CASE IdleNoPts(c)
      BY <2>0, <2>8, <2>a DEF IdleNoPts, Leave
    <2>9. CASE IdleStamp(c)
      BY <2>0, <2>9, <2>a DEF IdleStamp, Leave
    <2>10. QED
      BY <1>2, <2>1, <2>2, <2>3, <2>4, <2>5, <2>6, <2>7, <2>8, <2>9 DEF Idle
  <1>3. ASSUME NEW c \in Cpus, Freq(c) PROVE HandlerInv'
    <2>0. ASSUME NEW r \in FreqLocals, freq' = [freq EXCEPT ![c] = r], idle' = idle
          PROVE  HandlerInv'
      BY <1>0, <2>0 DEF HandlerInv, IdleLocals, FreqLocals
    <2> DEFINE l == freq[c]
               m == my_map[c]
    <2>a. /\ l \in FreqLocals /\ Off \in FreqLocals
          /\ m \in [cts : 0..mode.until, cstate : 0..EXITED,
                    pts : 0..mode.until, pstate : Frequencies \cup {0}]
          /\ now \in 0..mode.until /\ mode.until \in Nat
      BY <1>0, Facts, StateFacts, SMT DEF HandlerInv, FreqLocals, Off
    <2>1. CASE FreqEvent(c)
      <3>1. PICK f \in Frequencies :
              freq' = [freq EXCEPT ![c] = [Off EXCEPT !.pc = "state", !.state = f]]
        BY <2>1 DEF FreqEvent
      <3>2. [Off EXCEPT !.pc = "state", !.state = f] \in FreqLocals
        BY <2>a DEF FreqLocals
      <3>3. QED
        BY <2>0, <2>1, <3>1, <3>2 DEF FreqEvent
    <2>2. CASE FreqState(c)
      <3>1. [l EXCEPT !.prev_state = m.pstate, !.pc = "clock"] \in FreqLocals
        BY <2>a DEF FreqLocals
      <3>2. QED
        BY <2>0, <2>2, <3>1 DEF FreqState
    <2>3. CASE FreqClock(c)
      <3>1. [l EXCEPT !.cur_ts = now, !.pc = "pts"] \in FreqLocals
        BY <2>a DEF FreqLocals
      <3>2. QED
        BY <2>0, <2>3, <3>1 DEF FreqClock
    <2>4. CASE FreqInterval(c)
      <3>1. Minus(l.cur_ts, m.pts) \in Words
        BY <2>a, Facts, SMT DEF FreqLocals
      <3>2. [l EXCEPT !.delta = Minus(l.cur_ts, m.pts), !.pc = "pstate"] \in FreqLocals
        BY <2>a, <3>1 DEF FreqLocals
      <3>3. QED
        BY <2>0, <2>4, <3>2 DEF FreqInterval
    <2>5. CASE FreqFirst(c) \/ FreqBailsOut(c) \/ FreqPstate(c)
      BY <2>0, <2>5, <2>a DEF FreqFirst, FreqBailsOut, FreqPstate, Leave
    <2>6. QED
      BY <1>3, <2>1, <2>2, <2>3, <2>4, <2>5 DEF Freq
  <1>4. QED
    BY <1>1, <1>2, <1>3 DEF Next

\* Falling asleep and waking up take turns.
LEMMA WakeStep == IInv /\ Next => WakeInv'
  <1> SUFFICES ASSUME IInv, Next PROVE WakeInv'
    OBVIOUS
  <1>0. HandlerInv /\ WakeInv /\ mode' = mode
    BY DEF IInv, Next
  <1> USE Facts, StateFacts DEF WakeInv
  <1>1. CASE Tick \/ Update
    BY <1>0, <1>1 DEF Tick, Update, maps
  <1>2. ASSUME NEW c \in Cpus, Idle(c) PROVE WakeInv'
    <2>1. CASE IdleEvent(c)
      <3>1. PICK t \in Table : idle' = [idle EXCEPT ![c] = [Off EXCEPT !.pc = "state",
                                           !.state = IF asleep[c] THEN EXITED ELSE t]]
        BY <2>1 DEF IdleEvent, Table
      <3>2. QED
        BY <1>0, <2>1, <3>1 DEF IdleEvent, HandlerInv, Off, maps
    <2>2. CASE IdleState(c)
      BY <1>0, <2>2, SMT DEF IdleState, HandlerInv, IdleLocals, maps
    <2>3. CASE IdleFirst(c)
      BY <1>0, <2>3, SMT DEF IdleFirst, Leave, Off, HandlerInv, IdleLocals, maps
    <2>4. CASE IdleClock(c)
      BY <1>0, <2>4, SMT DEF IdleClock, HandlerInv, IdleLocals, maps
    <2>5. CASE IdleNoPts(c)
      BY <1>0, <2>5 DEF IdleNoPts, Leave, Off, HandlerInv, IdleLocals, maps
    <2>6. CASE IdleInterval(c)
      BY <1>0, <2>6 DEF IdleInterval, HandlerInv, IdleLocals, maps
    <2>7. CASE IdlePstate(c)
      <3>1. \/ idle' = [idle EXCEPT ![c] = Off]
            \/ idle' = [idle EXCEPT ![c].pc = "stamp"]
        BY <2>7 DEF IdlePstate, Leave
      <3>2. idle[c].pc = "pstate" /\ UNCHANGED <<my_map, asleep>>
        BY <2>7 DEF IdlePstate
      <3>3. CASE idle' = [idle EXCEPT ![c] = Off]
        BY <1>0, <3>2, <3>3 DEF Off, HandlerInv, IdleLocals
      <3>4. CASE idle' = [idle EXCEPT ![c].pc = "stamp"]
        BY <1>0, <3>2, <3>4 DEF HandlerInv, IdleLocals
      <3>5. QED
        BY <3>1, <3>3, <3>4
    <2>8. CASE IdleCstate(c)
      BY <1>0, <2>8 DEF IdleCstate, HandlerInv, IdleLocals, maps
    <2>9. CASE IdleStamp(c)
      BY <1>0, <2>9, SMT DEF IdleStamp, Leave, Off, HandlerInv, IdleLocals, maps
    <2>10. QED
      BY <1>2, <2>1, <2>2, <2>3, <2>4, <2>5, <2>6, <2>7, <2>8, <2>9 DEF Idle
  <1>3. ASSUME NEW c \in Cpus, Freq(c) PROVE WakeInv'
    <2>1. /\ idle' = idle /\ asleep' = asleep
          /\ \A d \in Cpus : my_map'[d].cstate = my_map[d].cstate
      <3>1. idle' = idle /\ asleep' = asleep
        BY <1>3 DEF Freq, FreqEvent, FreqState, FreqFirst, FreqClock, FreqInterval,
                    FreqBailsOut, FreqPstate
      <3>2. CASE FreqState(c)
        BY <3>1, <3>2 DEF FreqState
      <3>3. CASE FreqFirst(c)
        BY <3>1, <3>3 DEF FreqFirst
      <3>4. CASE FreqInterval(c)
        BY <3>1, <3>4 DEF FreqInterval
      <3>5. CASE FreqEvent(c) \/ FreqClock(c) \/ FreqBailsOut(c) \/ FreqPstate(c)
        BY <3>1, <3>5 DEF FreqEvent, FreqClock, FreqBailsOut, FreqPstate, maps
      <3>6. QED
        BY <1>3, <3>1, <3>2, <3>3, <3>4, <3>5 DEF Freq
    <2>2. QED
      BY <1>0, <2>1 DEF WakeInv
  <1>4. QED
    BY <1>1, <1>2, <1>3 DEF Next

\* The clock, the words of the maps and cpustat_user's copies keep their types.
LEMMA TypeStep == IInv /\ Next => TypeOK'
  <1> SUFFICES ASSUME IInv, Next PROVE TypeOK'
    OBVIOUS
  <1>0. TypeOK /\ HandlerInv /\ HandlerInv' /\ mode' = mode
    BY HandlerStep DEF IInv, Next
  <1> DEFINE Quad == [cts : 0..mode.until, cstate : 0..EXITED,
                      pts : 0..mode.until, pstate : Frequencies \cup {0}]
             MapOK == my_map \in [Cpus -> Quad]
             DurationsOK == /\ cstate_duration \in [CKeys -> Words]
                            /\ pstate_duration \in [PKeys -> Words]
             UserOK == stat_data \in [1..NrEntries -> Words] /\ next \in 1..NrEntries
             TimeOK == now \in 1..mode.until /\ asleep \in [Cpus -> BOOLEAN]
  <1>1. SUFFICES MapOK' /\ DurationsOK' /\ UserOK' /\ TimeOK'
    <2>1. mode' \in Modes
      BY <1>0, StateFacts
    <2>2. \A c \in Cpus : {idle'[c].delta, freq'[c].delta} \subseteq 0..(U64 - 1)
      <3> SUFFICES ASSUME NEW c \in Cpus
                   PROVE  {idle'[c].delta, freq'[c].delta} \subseteq 0..(U64 - 1)
        OBVIOUS
      <3>1. idle'[c] \in IdleLocals' /\ freq'[c] \in FreqLocals'
        BY <1>0 DEF HandlerInv
      <3>2. idle'[c].delta \in Words /\ freq'[c].delta \in Words
        BY <3>1 DEF IdleLocals, FreqLocals
      <3>3. QED
        BY <3>2 DEF Words
    <2>3. QED
      BY <1>0, <1>1, <2>1, <2>2 DEF TypeOK, Words
  <1>2. MapOK /\ DurationsOK /\ UserOK /\ TimeOK /\ mode.until \in Nat
    BY <1>0, StateFacts DEF TypeOK, Words
  <1>3. CASE Tick
    BY <1>0, <1>2, <1>3, SMT DEF Tick, maps, user
  <1>4. CASE Update
    <2>1. Lookup(Entry(next)) \in Words
      BY <1>2, EntryFacts DEF Lookup
    <2>2. (next % NrEntries) + 1 \in 1..NrEntries
      <3>1. next % NrEntries \in 0..(NrEntries - 1) /\ NrEntries \in Nat
        BY <1>2, Facts, SMT
      <3> DEFINE r == next % NrEntries
      <3> HIDE DEF r
      <3>2. r + 1 \in 1..NrEntries
        BY <3>1, SMT DEF r
      <3>3. QED
        BY <3>2 DEF r
    <2>3. UserOK'
      BY <1>2, <1>4, <2>1, <2>2 DEF Update
    <2>4. QED
      BY <1>0, <1>2, <1>4, <2>3 DEF Update, maps
  <1>a. ASSUME NEW c \in Cpus, NEW r \in Quad, my_map' = [my_map EXCEPT ![c] = r]
        PROVE  MapOK'
    BY <1>0, <1>2, <1>a
  <1>b. now \in 0..mode.until /\ \A c \in Cpus : my_map[c] \in Quad
    BY <1>2, SMT
  <1>5. ASSUME NEW c \in Cpus, Idle(c) PROVE MapOK' /\ DurationsOK' /\ UserOK' /\ TimeOK'
    <2>a. idle[c] \in IdleLocals
      BY <1>0 DEF HandlerInv
    <2>1. UserOK' /\ TimeOK'
      BY <1>0, <1>2, <1>5 DEF Idle, IdleEvent, IdleState, IdleFirst, IdleClock, IdleNoPts,
           IdleInterval, IdlePstate, IdleCstate, IdleStamp, user
    <2>2. MapOK'
      <3>1. CASE IdleState(c)
        <4>1. [my_map[c] EXCEPT !.cstate = idle[c].state] \in Quad
          BY <1>b, <2>a DEF IdleLocals
        <4>2. QED
          BY <1>a, <3>1, <4>1 DEF IdleState
      <3>2. CASE IdleFirst(c)
        <4>1. [my_map[c] EXCEPT !.cts = now] \in Quad
          BY <1>b
        <4>2. QED
          BY <1>a, <3>2, <4>1 DEF IdleFirst
      <3>3. CASE IdleClock(c)
        <4>1. [my_map[c] EXCEPT !.cts = now] \in Quad
          BY <1>b
        <4>2. QED
          BY <1>a, <3>3, <4>1 DEF IdleClock
      <3>4. CASE IdleStamp(c)
        <4>1. [my_map[c] EXCEPT !.pts = idle[c].cur_ts] \in Quad
          BY <1>b, <2>a DEF IdleLocals
        <4>2. CASE my_map' = my_map
          BY <1>0, <1>2, <4>2
        <4>3. QED
          BY <1>a, <3>4, <4>1, <4>2 DEF IdleStamp
      <3>5. CASE IdleEvent(c) \/ IdleNoPts(c) \/ IdleInterval(c) \/ IdlePstate(c) \/ IdleCstate(c)
        BY <1>0, <1>2, <3>5 DEF IdleEvent, IdleNoPts, IdleInterval, IdlePstate, IdleCstate, maps
      <3>6. QED
        BY <1>5, <3>1, <3>2, <3>3, <3>4, <3>5 DEF Idle
    <2>3. DurationsOK'
      <3>1. CASE IdlePstate(c)
        <4> DEFINE key == PKey(c, FindIdx(my_map[c].pstate))
        <4>1. Add(pstate_duration, key, idle[c].delta) \in [PKeys -> Words]
          BY <1>2, <2>a, AddFacts DEF IdleLocals
        <4>2. QED
          BY <1>2, <3>1, <4>1 DEF IdlePstate
      <3>2. CASE IdleCstate(c)
        BY <1>2, <2>a, <3>2, AddFacts DEF IdleCstate, IdleLocals
      <3>3. CASE ~IdlePstate(c) /\ ~IdleCstate(c)
        BY <1>2, <1>5, <3>3 DEF Idle, IdleEvent, IdleState, IdleFirst, IdleClock, IdleNoPts,
             IdleInterval, IdleStamp, maps
      <3>4. QED
        BY <3>1, <3>2, <3>3
    <2>4. QED
      BY <2>1, <2>2, <2>3
  <1>6. ASSUME NEW c \in Cpus, Freq(c) PROVE MapOK' /\ DurationsOK' /\ UserOK' /\ TimeOK'
    <2>a. freq[c] \in FreqLocals
      BY <1>0 DEF HandlerInv
    <2>1. UserOK' /\ TimeOK'
      BY <1>0, <1>2, <1>6 DEF Freq, FreqEvent, FreqState, FreqFirst, FreqClock, FreqInterval,
           FreqBailsOut, FreqPstate, user
    <2>2. MapOK'
      <3>1. CASE FreqState(c)
        <4>1. [my_map[c] EXCEPT !.pstate = freq[c].state] \in Quad
          BY <1>b, <2>a DEF FreqLocals
        <4>2. QED
          BY <1>a, <3>1, <4>1 DEF FreqState
      <3>2. CASE FreqFirst(c)
        <4>1. [my_map[c] EXCEPT !.pts = now] \in Quad
          BY <1>b
        <4>2. QED
          BY <1>a, <3>2, <4>1 DEF FreqFirst
      <3>3. CASE FreqInterval(c)
        <4>1. [my_map[c] EXCEPT !.pts = freq[c].cur_ts] \in Quad
          BY <1>b, <2>a DEF FreqLocals
        <4>2. QED
          BY <1>a, <3>3, <4>1 DEF FreqInterval
      <3>4. CASE FreqEvent(c) \/ FreqClock(c) \/ FreqBailsOut(c) \/ FreqPstate(c)
        BY <1>0, <1>2, <3>4 DEF FreqEvent, FreqClock, FreqBailsOut, FreqPstate, maps
      <3>5. QED
        BY <1>6, <3>1, <3>2, <3>3, <3>4 DEF Freq
    <2>3. DurationsOK'
      <3>1. CASE FreqPstate(c)
        BY <1>2, <2>a, <3>1, AddFacts DEF FreqPstate, FreqLocals
      <3>2. CASE ~FreqPstate(c)
        BY <1>2, <1>6, <3>2 DEF Freq, FreqEvent, FreqState, FreqFirst, FreqClock, FreqInterval,
             FreqBailsOut, maps
      <3>3. QED
        BY <3>1, <3>2
    <2>4. QED
      BY <2>1, <2>2, <2>3
  <1>7. QED
    BY <1>3, <1>4, <1>5, <1>6 DEF Next

\* The product in the key of an idle state does not overflow.
LEMMA CKeyFacts ==
  ASSUME NEW c \in Cpus, NEW s \in Table
  PROVE  CKey(c, s) = c * MAX_CSTATE_ENTRIES + s
  <1> DEFINE C == MAX_CSTATE_ENTRIES
             key == c * C + s
  <1>1. C \in Nat /\ c \in 0..(MAX_CPU - 1) /\ s \in 0..(C - 1)
    BY CpuAssumption, SMT DEF Table
  <1>2. key \in 0..(MAX_CPU * C - 1)
    BY <1>1, KeyFacts
  <1>3. U32 \in Nat \ {0} /\ MAX_CPU * C <= U32 /\ MAX_CPU * C \in Nat
    BY CpuAssumption, SMT
  <1> HIDE DEF key
  <1>4. key % U32 = key
    BY <1>2, <1>3, SMT
  <1>5. QED
    BY <1>4 DEF CKey, key

\* An addition to an entry of one CPU leaves the rows of the others alone.
LEMMA OtherRows ==
  ASSUME NEW w \in Nat, NEW c \in 0..(MAX_CPU - 1), NEW i \in 0..(w - 1),
         NEW durations \in [0..(MAX_CPU * w - 1) -> Words], NEW delta \in Words,
         NEW d \in 0..(MAX_CPU - 1), d # c, NEW k \in Row(d, w)
  PROVE  Add(durations, c * w + i, delta)[k] = durations[k]
  <1>1. k \in 0..(MAX_CPU * w - 1)
    BY RowKeys
  <1>2. k # c * w + i
    BY KeyFacts, SMT
  <1> DEFINE key == c * w + i
             S == 0..(MAX_CPU * w - 1)
  <1> HIDE DEF key, S
  <1>3. k \in S /\ k # key /\ durations \in [S -> Words]
    BY <1>1, <1>2 DEF key, S
  <1>4. Add(durations, key, delta)[k] = durations[k]
    BY <1>3 DEF Add
  <1>5. QED
    BY <1>4 DEF key

\* Only the entries of CPUs that have events are added to.
LEMMA RowsStep == IInv /\ Next => RowsAreSeparate'
  <1> SUFFICES ASSUME IInv, Next PROVE RowsAreSeparate'
    OBVIOUS
  <1> DEFINE C == MAX_CSTATE_ENTRIES
             P == MAX_PSTATE_ENTRIES
  <1>0. HandlerInv /\ WakeInv /\ RowsAreSeparate
    BY DEF IInv
  <1>a. C \in Nat /\ P \in Nat /\ Cpus \subseteq 0..(MAX_CPU - 1)
    BY CpuAssumption
  <1>b. /\ cstate_duration \in [0..(MAX_CPU * C - 1) -> Words]
        /\ pstate_duration \in [0..(MAX_CPU * P - 1) -> Words]
    BY StateFacts DEF CKeys, PKeys
  <1>p. ASSUME NEW c \in Cpus, NEW n \in Nat, n < P, NEW delta \in Words,
               pstate_duration' = Add(pstate_duration, PKey(c, n), delta),
               cstate_duration' = cstate_duration
        PROVE  RowsAreSeparate'
    <2>1. c \in 0..(MAX_CPU - 1) /\ n \in 0..(P - 1)
      BY <1>a, <1>p, SMT
    <2>2. \A d \in 0..(MAX_CPU - 1) : d # c =>
            \A k \in Row(d, P) : pstate_duration'[k] = pstate_duration[k]
      <3>1. pstate_duration' = Add(pstate_duration, c * P + n, delta)
        BY <1>p DEF PKey
      <3>2. \A d \in 0..(MAX_CPU - 1) : d # c =>
              \A k \in Row(d, P) : Add(pstate_duration, c * P + n, delta)[k]
                                     = pstate_duration[k]
        BY <1>a, <1>b, <2>1, OtherRows
      <3>3. QED
        BY <3>1, <3>2
    <2>3. QED
      BY <1>0, <1>p, <2>2 DEF RowsAreSeparate
  <1>1. CASE UNCHANGED <<cstate_duration, pstate_duration>>
    BY <1>0, <1>1 DEF RowsAreSeparate
  <1>2. ASSUME NEW c \in Cpus, IdlePstate(c) PROVE RowsAreSeparate'
    <2>1. FindIdx(my_map[c].pstate) \in Nat /\ idle[c].delta \in Words
      BY <1>0, FindIdxFacts DEF HandlerInv, IdleLocals
    <2>2. QED
      BY <1>1, <1>2, <1>p, <2>1 DEF IdlePstate
  <1>3. ASSUME NEW c \in Cpus, FreqPstate(c) PROVE RowsAreSeparate'
    <2>1. FindIdx(my_map[c].pstate) \in Nat /\ freq[c].delta \in Words
      BY <1>0, FindIdxFacts DEF HandlerInv, FreqLocals
    <2>2. QED
      BY <1>3, <1>p, <2>1 DEF FreqPstate
  <1>4. ASSUME NEW c \in Cpus, IdleCstate(c) PROVE RowsAreSeparate'
    <2> DEFINE s == idle[c].prev_state
    <2>1. s \in 0..(C - 1) /\ idle[c].delta \in Words
      BY <1>0, <1>4 DEF IdleCstate, HandlerInv, WakeInv, IdleLocals, Table
    <2> HIDE DEF s
    <2>2. c \in 0..(MAX_CPU - 1)
      BY <1>a
    <2>3. CKey(c, s) = c * C + s
      BY <2>1, CKeyFacts DEF Table
    <2>4. \A d \in 0..(MAX_CPU - 1) : d # c =>
            \A k \in Row(d, C) : Add(cstate_duration, c * C + s, idle[c].delta)[k]
                                   = cstate_duration[k]
      BY <1>a, <1>b, <2>1, <2>2, OtherRows
    <2>5. /\ cstate_duration' = Add(cstate_duration, c * C + s, idle[c].delta)
          /\ pstate_duration' = pstate_duration
      BY <1>4, <2>3 DEF IdleCstate, s
    <2>6. QED
      BY <1>0, <2>4, <2>5 DEF RowsAreSeparate
  <1>5. QED
    BY <1>1, <1>2, <1>3, <1>4
    DEF Next, Tick, Update, Idle, IdleEvent, IdleState, IdleFirst, IdleClock, IdleNoPts,
        IdleInterval, IdleStamp, Freq, FreqEvent, FreqState, FreqFirst, FreqClock,
        FreqInterval, FreqBailsOut, maps
\* Every step preserves the invariant.
LEMMA IInvStep == IInv /\ [Next]_vars => IInv'
  <1>1. IInv /\ UNCHANGED vars => IInv'
    BY SMT DEF IInv, vars, TypeOK, HandlerInv, IdleLocals, FreqLocals, WakeInv, RowsAreSeparate
  <1>2. QED
    BY <1>1, TypeStep, HandlerStep, WakeStep, RowsStep DEF IInv

-----------------------------------------------------------------------------
(* Sums *)

\* The element that comes next, and the function that adds up all subsets.
Pick(s) == CHOOSE x \in s : TRUE
Sum(d, h, s) == IF s = {} THEN 0 ELSE d[Pick(s)] + h[s \ {Pick(s)}]
Sums(d, K) == CHOOSE h : h = [s \in SUBSET K |-> Sum(d, h, s)]

Upto(K, n) == {s \in SUBSET K : Cardinality(s) <= n}

\* A non-empty set without its next element.
LEMMA Smaller ==
  ASSUME NEW K, IsFiniteSet(K), NEW s \in SUBSET K, NEW x \in s
  PROVE  /\ s \ {x} \in SUBSET K
         /\ Cardinality(s) \in Nat /\ Cardinality(s \ {x}) \in Nat
         /\ Cardinality(s \ {x}) = Cardinality(s) - 1
  <1>1. IsFiniteSet(s)
    BY FS_Subset
  <1>2. IsFiniteSet(s \ {x}) /\ Cardinality(s \ {x}) = Cardinality(s) - 1
    BY <1>1, FS_RemoveElement
  <1>3. QED
    BY <1>1, <1>2, FS_CardinalityType

\* The next element is one of the set.
LEMMA PickFacts == \A s : s # {} => Pick(s) \in s
  BY DEF Pick

\* Induction on finite sets, for a set G of good ones.
LEMMA Subsets ==
  ASSUME NEW K, IsFiniteSet(K), NEW G,
         \A s \in SUBSET K : (\A x \in s : \A t \in SUBSET (s \ {x}) : t \in G) => s \in G
  PROVE  SUBSET K \subseteq G
  <1> DEFINE Bad == {n \in Nat : \E s \in SUBSET K : s \notin G /\ Cardinality(s) = n}
  <1> SUFFICES ASSUME NEW s \in SUBSET K, s \notin G PROVE FALSE
    OBVIOUS
  <1>1. \A t \in SUBSET K : IsFiniteSet(t) /\ Cardinality(t) \in Nat
    BY FS_Subset, FS_CardinalityType
  <1>2. Bad \subseteq Nat /\ Bad # {}
    BY <1>1
  <1>3. PICK n \in Bad : \A m \in Bad : n <= m
    BY <1>2, LeastNumber
  <1>4. PICK b \in SUBSET K : b \notin G /\ Cardinality(b) = n
    BY <1>3
  <1>5. PICK x \in b : \E t \in SUBSET (b \ {x}) : t \notin G
    <2>1. (\A x \in b : \A t \in SUBSET (b \ {x}) : t \in G) => b \in G
      OBVIOUS
    <2>2. QED
      BY <1>4, <2>1
  <1>6. PICK t \in SUBSET (b \ {x}) : t \notin G
    BY <1>5
  <1>7. /\ IsFiniteSet(b \ {x}) /\ Cardinality(b \ {x}) = n - 1
        /\ t \in SUBSET K /\ Cardinality(t) \in Nat /\ n \in Nat
    <2>1. /\ b \ {x} \in SUBSET K /\ Cardinality(b \ {x}) = n - 1
      BY <1>4, Smaller
    <2>2. t \in SUBSET K
      BY <2>1
    <2>3. QED
      BY <1>1, <1>2, <2>1, <2>2
  <1>8. Cardinality(t) <= Cardinality(b \ {x})
    BY <1>7, FS_Subset
  <1>9. Cardinality(t) \in Bad
    BY <1>6, <1>7
  <1>10. n <= Cardinality(t)
    BY <1>3, <1>9
  <1>11. QED
    BY <1>7, <1>8, <1>10, SMT

\* The sums over all subsets of a finite set exist.
LEMMA SumsExist ==
  ASSUME NEW d, NEW K, IsFiniteSet(K)
  PROVE  \E h : h = [s \in SUBSET K |-> Sum(d, h, s)]
  <1> DEFINE Ok(n) == \E h : h = [s \in Upto(K, n) |-> Sum(d, h, s)]
             Bad == {n \in Nat : ~Ok(n)}
  <1>1. Ok(0)
    <2>1. \A s \in Upto(K, 0) : s = {}
      <3> SUFFICES ASSUME NEW s \in Upto(K, 0), NEW x \in s PROVE FALSE
        OBVIOUS
      <3>1. s \in SUBSET K /\ Cardinality(s) <= 0
        BY DEF Upto
      <3>2. /\ Cardinality(s) \in Nat /\ Cardinality(s \ {x}) \in Nat
            /\ Cardinality(s \ {x}) = Cardinality(s) - 1
        BY <3>1, Smaller
      <3>3. QED
        BY <3>1, <3>2, SMT
    <2> DEFINE h == [s \in Upto(K, 0) |-> 0]
    <2>2. h = [s \in Upto(K, 0) |-> Sum(d, h, s)]
      BY <2>1 DEF Sum
    <2>3. QED
      BY <2>2
  <1>2. ASSUME NEW n \in Nat, Ok(n) PROVE Ok(n + 1)
    <2>1. PICK h : h = [s \in Upto(K, n) |-> Sum(d, h, s)]
      BY <1>2
    <2> DEFINE g == [s \in Upto(K, n + 1) |-> Sum(d, h, s)]
    <2>2. ASSUME NEW s \in Upto(K, n + 1), s # {}
          PROVE  s \ {Pick(s)} \in Upto(K, n) /\ s \ {Pick(s)} \in Upto(K, n + 1)
      <3> DEFINE t == s \ {Pick(s)}
      <3>0. s \in SUBSET K /\ Cardinality(s) <= n + 1 /\ Pick(s) \in s
        BY <2>2, PickFacts DEF Upto
      <3>1. /\ t \in SUBSET K
            /\ Cardinality(s) \in Nat /\ Cardinality(t) \in Nat
            /\ Cardinality(t) = Cardinality(s) - 1
        BY <3>0, Smaller
      <3> HIDE DEF t
      <3>2. Cardinality(t) <= n /\ Cardinality(t) <= n + 1
        BY <3>0, <3>1, SMT
      <3>3. t \in Upto(K, n) /\ t \in Upto(K, n + 1)
        BY <3>1, <3>2 DEF Upto
      <3>4. QED
        BY <3>3 DEF t
    <2>3. \A t \in Upto(K, n) : h[t] = Sum(d, h, t)
      BY <2>1
    <2>4. \A t \in Upto(K, n + 1) : g[t] = Sum(d, h, t)
      OBVIOUS
    <2> HIDE DEF g
    <2>5. ASSUME NEW s \in Upto(K, n + 1) PROVE Sum(d, h, s) = Sum(d, g, s)
      <3>1. CASE s = {}
        BY <3>1 DEF Sum
      <3>2. CASE s # {}
        <4>1. g[s \ {Pick(s)}] = h[s \ {Pick(s)}]
          BY <2>2, <2>3, <2>4, <3>2
        <4>2. QED
          BY <3>2, <4>1 DEF Sum
      <3>3. QED
        BY <3>1, <3>2
    <2>6. g = [s \in Upto(K, n + 1) |-> Sum(d, g, s)]
      BY <2>5 DEF g
    <2>7. QED
      BY <2>6
  <1>3. \A n \in Nat : Ok(n)
    <2> HIDE DEF Ok
    <2> SUFFICES ASSUME Bad # {} PROVE FALSE
      OBVIOUS
    <2>1. PICK n \in Bad : \A m \in Bad : n <= m
      BY LeastNumber
    <2>2. n \in Nat /\ ~Ok(n) /\ n # 0
      BY <1>1, <2>1
    <2>3. n - 1 \in Nat /\ n - 1 + 1 = n /\ ~(n <= n - 1)
      BY <2>2, SMT
    <2>4. Ok(n - 1)
      BY <2>1, <2>3
    <2>5. QED
      BY <1>2, <2>2, <2>3, <2>4
  <1>4. Upto(K, Cardinality(K)) = SUBSET K
    BY FS_Subset DEF Upto
  <1>5. Ok(Cardinality(K))
    BY <1>3, FS_CardinalityType
  <1>6. QED
    BY <1>4, <1>5

\* The sums of all subsets satisfy the equation that defines them.
LEMMA SumsFacts ==
  ASSUME NEW d, NEW K, IsFiniteSet(K), NEW s \in SUBSET K
  PROVE  Sums(d, K)[s] = Sum(d, Sums(d, K), s)
  <1>1. Sums(d, K) = [r \in SUBSET K |-> Sum(d, Sums(d, K), r)]
    BY SumsExist DEF Sums
  <1>2. QED
    BY <1>1

\* They do not depend on the set whose subsets are added up.
LEMMA SumsAgree ==
  ASSUME NEW d, NEW K, IsFiniteSet(K), NEW T \in SUBSET K
  PROVE  \A s \in SUBSET T : Sums(d, T)[s] = Sums(d, K)[s]
  <1> DEFINE G == {s \in SUBSET T : Sums(d, T)[s] = Sums(d, K)[s]}
  <1>1. IsFiniteSet(T)
    BY FS_Subset
  <1>2. ASSUME NEW s \in SUBSET T, \A x \in s : \A t \in SUBSET (s \ {x}) : t \in G
        PROVE  s \in G
    <2>1. Sums(d, T)[s] = Sum(d, Sums(d, T), s) /\ Sums(d, K)[s] = Sum(d, Sums(d, K), s)
      BY <1>1, SumsFacts
    <2>2. CASE s = {}
      BY <2>1, <2>2 DEF Sum
    <2>3. CASE s # {}
      <3>1. s \ {Pick(s)} \in G
        BY <1>2, <2>3, PickFacts
      <3>2. QED
        BY <2>1, <2>3, <3>1 DEF Sum
    <2>4. QED
      BY <2>2, <2>3
  <1>3. SUBSET T \subseteq G
    <2> HIDE DEF G
    <2>1. QED
      BY <1>1, <1>2, Subsets
  <1>4. QED
    BY <1>3

\* Total adds up one element after the other.
LEMMA TotalFacts ==
  ASSUME NEW d, NEW K, IsFiniteSet(K)
  PROVE  /\ K = {} => Total(d, K) = 0
         /\ K # {} => Total(d, K) = d[Pick(K)] + Total(d, K \ {Pick(K)})
  <1>1. \A T : Total(d, T) = Sums(d, T)[T]
    BY DEF Total, MapThenSumSet, MapThenFoldSet, Sums, Sum, Pick
  <1>2. Total(d, K) = Sum(d, Sums(d, K), K)
    BY <1>1, SumsFacts
  <1>3. CASE K = {}
    BY <1>2, <1>3 DEF Sum
  <1>4. CASE K # {}
    <2> DEFINE T == K \ {Pick(K)}
    <2>1. T \in SUBSET K /\ T \in SUBSET T
      OBVIOUS
    <2>2. Sum(d, Sums(d, K), K) = d[Pick(K)] + Sums(d, K)[T]
      BY <1>4 DEF Sum
    <2> HIDE DEF T
    <2>3. \A s \in SUBSET T : Sums(d, T)[s] = Sums(d, K)[s]
      BY <2>1, SumsAgree, SMT
    <2>4. QED
      BY <1>1, <1>2, <1>4, <2>1, <2>2, <2>3 DEF T
  <1>5. QED
    BY <1>3, <1>4

\* A sum of numbers is one.
LEMMA TotalType ==
  ASSUME NEW d, NEW K, IsFiniteSet(K), \A x \in K : d[x] \in Nat
  PROVE  \A s \in SUBSET K : Total(d, s) \in Nat
  <1> DEFINE G == {s \in SUBSET K : Total(d, s) \in Nat}
  <1>1. ASSUME NEW s \in SUBSET K, \A x \in s : \A t \in SUBSET (s \ {x}) : t \in G
        PROVE  s \in G
    <2>1. /\ s = {} => Total(d, s) = 0
          /\ s # {} => Total(d, s) = d[Pick(s)] + Total(d, s \ {Pick(s)})
      BY FS_Subset, TotalFacts
    <2>2. CASE s = {}
      <3>1. 0 \in Nat
        BY SMT
      <3>2. QED
        BY <2>1, <2>2, <3>1
    <2>3. CASE s # {}
      <3>1. d[Pick(s)] \in Nat /\ Total(d, s \ {Pick(s)}) \in Nat
        BY <1>1, <2>3, PickFacts
      <3>2. Total(d, s) \in Nat
        BY <2>1, <2>3, <3>1, SMT
      <3>3. QED
        BY <3>2
    <2>4. QED
      BY <2>2, <2>3
  <1>2. SUBSET K \subseteq G
    <2> HIDE DEF G
    <2>1. QED
      BY <1>1, Subsets
  <1>3. QED
    BY <1>2

\* Any element may come first.
LEMMA TotalWithout ==
  ASSUME NEW d, NEW K, IsFiniteSet(K), \A x \in K : d[x] \in Nat
  PROVE  \A s \in SUBSET K : \A x \in s : Total(d, s) = d[x] + Total(d, s \ {x})
  <1> DEFINE Good(s) == \A x \in s : Total(d, s) = d[x] + Total(d, s \ {x})
             G == {s \in SUBSET K : Good(s)}
  <1>1. ASSUME NEW s \in SUBSET K, \A x \in s : \A t \in SUBSET (s \ {x}) : t \in G
        PROVE  s \in G
    <2> SUFFICES ASSUME NEW x \in s PROVE Total(d, s) = d[x] + Total(d, s \ {x})
      OBVIOUS
    <2> DEFINE y == Pick(s)
    <2>1. y \in s /\ Total(d, s) = d[y] + Total(d, s \ {y})
      BY FS_Subset, TotalFacts, PickFacts
    <2>2. CASE x = y
      BY <2>1, <2>2
    <2>3. CASE x # y
      <3> HIDE DEF y
      <3>1. s \ {x} \in G /\ s \ {y} \in G
        BY <1>1, <2>1
      <3>2. x \in s \ {y} /\ y \in s \ {x} /\ (s \ {x}) \ {y} = (s \ {y}) \ {x}
        BY <2>1, <2>3
      <3>3. /\ Total(d, s \ {y}) = d[x] + Total(d, (s \ {y}) \ {x})
            /\ Total(d, s \ {x}) = d[y] + Total(d, (s \ {y}) \ {x})
        BY <3>1, <3>2
      <3>4. d[x] \in Nat /\ d[y] \in Nat /\ Total(d, (s \ {y}) \ {x}) \in Nat
        BY <2>1, TotalType
      <3>5. QED
        BY <2>1, <3>3, <3>4, SMT
    <2>4. QED
      BY <2>2, <2>3
  <1>2. SUBSET K \subseteq G
    <2> HIDE DEF G
    <2>1. QED
      BY <1>1, Subsets
  <1>3. QED
    BY <1>2

\* Where one entry has grown by a at most, so has the sum.
Grown(e, d, K, k, a) ==
  \A x \in K : /\ d[x] \in Nat /\ e[x] \in Nat
               /\ e[x] <= d[x] \/ (x = k /\ e[x] <= d[x] + a)

LEMMA TotalBound ==
  ASSUME NEW d, NEW e, NEW K, IsFiniteSet(K), NEW k, NEW a \in Nat, Grown(e, d, K, k, a)
  PROVE  \A s \in SUBSET K : \/ Total(e, s) <= Total(d, s)
                             \/ k \in s /\ Total(e, s) <= Total(d, s) + a
  <1> DEFINE Good(s) == \/ Total(e, s) <= Total(d, s)
                        \/ k \in s /\ Total(e, s) <= Total(d, s) + a
             G == {s \in SUBSET K : Good(s)}
  <1>1. ASSUME NEW s \in SUBSET K, \A x \in s : \A t \in SUBSET (s \ {x}) : t \in G
        PROVE  s \in G
    <2>1. /\ s = {} => Total(d, s) = 0 /\ Total(e, s) = 0
          /\ s # {} => /\ Total(d, s) = d[Pick(s)] + Total(d, s \ {Pick(s)})
                       /\ Total(e, s) = e[Pick(s)] + Total(e, s \ {Pick(s)})
      BY FS_Subset, TotalFacts
    <2>2. CASE s = {}
      <3>1. 0 <= 0
        BY SMT
      <3>2. QED
        BY <2>1, <2>2, <3>1
    <2>3. CASE s # {}
      <3> DEFINE y == Pick(s)
                 t == s \ {y}
      <3>0. y \in s /\ t \in SUBSET (s \ {y}) /\ t \in SUBSET K
        BY <2>3, PickFacts
      <3>1. y \in s /\ t \in G
        BY <1>1, <3>0
      <3>a. d[y] \in Nat /\ e[y] \in Nat /\ (e[y] <= d[y] \/ (y = k /\ e[y] <= d[y] + a))
        BY <3>0 DEF Grown
      <3>b. Total(d, t) \in Nat /\ Total(e, t) \in Nat
        <4>1. \A x \in K : d[x] \in Nat /\ e[x] \in Nat
          BY DEF Grown
        <4>2. QED
          BY <3>0, <4>1, TotalType
      <3>2. /\ d[y] \in Nat /\ e[y] \in Nat /\ (e[y] <= d[y] \/ (y = k /\ e[y] <= d[y] + a))
            /\ Total(d, t) \in Nat /\ Total(e, t) \in Nat
            /\ \/ Total(e, t) <= Total(d, t)
               \/ k \in t /\ Total(e, t) <= Total(d, t) + a
            /\ Total(d, s) = d[y] + Total(d, t) /\ Total(e, s) = e[y] + Total(e, t)
        BY <2>1, <2>3, <3>1, <3>a, <3>b
      <3>3. (k \in s <=> k = y \/ k \in t) /\ (k \in t => k # y)
        BY <3>1
      <3> HIDE DEF y, t
      <3>4. Good(s)
        BY <3>2, <3>3, SMT
      <3>5. QED
        BY <3>4
    <2>4. QED
      BY <2>2, <2>3
  <1>2. SUBSET K \subseteq G
    <2> HIDE DEF G
    <2>1. QED
      BY <1>1, Subsets
  <1>3. QED
    BY <1>2

\* Nothing adds up to nothing.
LEMMA TotalZero ==
  ASSUME NEW d, NEW K, IsFiniteSet(K), \A x \in K : d[x] = 0
  PROVE  Total(d, K) = 0
  <1> DEFINE G == {s \in SUBSET K : Total(d, s) = 0}
  <1>1. ASSUME NEW s \in SUBSET K, \A x \in s : \A t \in SUBSET (s \ {x}) : t \in G
        PROVE  s \in G
    <2>1. /\ s = {} => Total(d, s) = 0
          /\ s # {} => Total(d, s) = d[Pick(s)] + Total(d, s \ {Pick(s)})
      BY FS_Subset, TotalFacts
    <2>2. CASE s = {}
      BY <2>1, <2>2
    <2>3. CASE s # {}
      <3>1. d[Pick(s)] = 0 /\ Total(d, s \ {Pick(s)}) = 0
        BY <1>1, <2>3, PickFacts
      <3>2. Total(d, s) = 0
        BY <2>1, <2>3, <3>1, SMT
      <3>3. QED
        BY <3>2
    <2>4. QED
      BY <2>2, <2>3
  <1>2. SUBSET K \subseteq G
    <2> HIDE DEF G
    <2>1. QED
      BY <1>1, Subsets
  <1>3. QED
    BY <1>2

\* The sum of two parts is that of the whole.
LEMMA TotalParts ==
  ASSUME NEW d, NEW K, IsFiniteSet(K), \A x \in K : d[x] \in Nat,
         NEW r \in SUBSET K
  PROVE  \A s \in SUBSET K : s \cap r = {} => Total(d, s \cup r) = Total(d, s) + Total(d, r)
  <1> DEFINE Good(s) == s \cap r = {} => Total(d, s \cup r) = Total(d, s) + Total(d, r)
             G == {s \in SUBSET K : Good(s)}
  <1>a. \A s \in SUBSET K : Total(d, s) \in Nat
    BY TotalType
  <1>b. \A s \in SUBSET K : \A x \in s : Total(d, s) = d[x] + Total(d, s \ {x})
    BY TotalWithout
  <1>1. ASSUME NEW s \in SUBSET K, \A x \in s : \A t \in SUBSET (s \ {x}) : t \in G
        PROVE  s \in G
    <2> SUFFICES ASSUME s \cap r = {} PROVE Total(d, s \cup r) = Total(d, s) + Total(d, r)
      OBVIOUS
    <2>2. CASE s = {}
      <3>1. s \cup r = r /\ Total(d, s) = 0
        BY <2>2, FS_Subset, TotalFacts
      <3>2. Total(d, r) \in Nat
        BY <1>a
      <3>3. \A x \in Nat : x = 0 + x
        BY SMT
      <3>4. QED
        BY <3>1, <3>2, <3>3
    <2>3. CASE s # {}
      <3>1. PICK y \in s : TRUE
        BY <2>3
      <3> DEFINE t == s \ {y}
      <3>2. /\ t \in SUBSET K /\ t \cap r = {} /\ s \cup r \in SUBSET K
            /\ y \in s \cup r /\ (s \cup r) \ {y} = t \cup r
        OBVIOUS
      <3>3. t \in G
        BY <1>1
      <3>4. Total(d, t \cup r) = Total(d, t) + Total(d, r)
        BY <3>2, <3>3
      <3>5. /\ Total(d, s) = d[y] + Total(d, t)
            /\ Total(d, s \cup r) = d[y] + Total(d, t \cup r)
        BY <1>b, <3>2
      <3>6. d[y] \in Nat /\ Total(d, t) \in Nat /\ Total(d, r) \in Nat
        BY <1>a, <3>2
      <3> HIDE DEF t
      <3>7. QED
        BY <3>4, <3>5, <3>6, SMT
    <2>4. QED
      BY <2>2, <2>3
  <1>2. SUBSET K \subseteq G
    <2> HIDE DEF G
    <2>1. QED
      BY <1>1, Subsets
  <1>3. QED
    BY <1>2

\* Where f assigns each entry another one that is no smaller, the sum over the
\* others is no smaller.
Images(f, s) == {f[x] : x \in s}
Below(e, d, K, f, L) ==
  /\ \A x \in K : /\ f[x] \in L /\ e[x] \in Nat /\ e[x] <= d[f[x]]
                  /\ \A y \in K : f[x] = f[y] => x = y
  /\ \A z \in L : d[z] \in Nat

LEMMA TotalBelow ==
  ASSUME NEW e, NEW d, NEW K, IsFiniteSet(K), NEW f, NEW L, IsFiniteSet(L),
         Below(e, d, K, f, L)
  PROVE  \A s \in SUBSET K : Total(e, s) <= Total(d, Images(f, s))
  <1> DEFINE Image(s) == Images(f, s)
             G == {s \in SUBSET K : Total(e, s) <= Total(d, Image(s))}
  <1>a. /\ \A x \in K : f[x] \in L /\ e[x] \in Nat /\ e[x] <= d[f[x]]
        /\ \A x, y \in K : f[x] = f[y] => x = y
        /\ \A z \in L : d[z] \in Nat
    BY DEF Below
  <1>f. (\A x \in K : e[x] \in Nat) /\ (\A z \in L : d[z] \in Nat)
    BY <1>a
  <1>b. \A s \in SUBSET K : Total(e, s) \in Nat
    BY <1>f, TotalType
  <1>c. \A s \in SUBSET L : Total(d, s) \in Nat
    BY <1>f, TotalType
  <1>d. \A s \in SUBSET K : \A x \in s : Total(e, s) = e[x] + Total(e, s \ {x})
    BY <1>f, TotalWithout
  <1>e. \A s \in SUBSET L : \A x \in s : Total(d, s) = d[x] + Total(d, s \ {x})
    BY <1>f, TotalWithout
  <1>1. ASSUME NEW s \in SUBSET K, \A x \in s : \A t \in SUBSET (s \ {x}) : t \in G
        PROVE  s \in G
    <2>2. CASE s = {}
      <3>1. Image(s) = {} /\ IsFiniteSet(s)
        BY <2>2, FS_Subset DEF Images
      <3>2. Total(e, s) = 0 /\ Total(d, Image(s)) = 0
        BY <2>2, <3>1, TotalFacts
      <3>3. 0 <= 0
        BY SMT
      <3>4. QED
        BY <3>2, <3>3
    <2>3. CASE s # {}
      <3>1. PICK y \in s : TRUE
        BY <2>3
      <3> DEFINE t == s \ {y}
      <3>2. t \in SUBSET K /\ y \in K /\ t \in G
        BY <1>1
      <3>3. /\ Image(s) \in SUBSET L /\ Image(t) \in SUBSET L /\ f[y] \in Image(s)
        BY <1>a DEF Images
      <3>4. Image(s) \ {f[y]} = Image(t)
        <4>1. \A x \in t : f[x] # f[y]
          BY <1>a
        <4>2. QED
          BY <4>1 DEF Images
      <3>5. /\ Total(e, s) = e[y] + Total(e, t)
            /\ Total(e, t) <= Total(d, Image(t))
            /\ Total(e, t) \in Nat /\ Total(d, Image(t)) \in Nat
            /\ e[y] \in Nat /\ d[f[y]] \in Nat /\ e[y] <= d[f[y]]
        BY <1>a, <1>b, <1>c, <1>d, <3>2, <3>3
      <3>6. Total(d, Image(s)) = d[f[y]] + Total(d, Image(t))
        <4>1. Total(d, Image(s)) = d[f[y]] + Total(d, Image(s) \ {f[y]})
          <5> HIDE DEF Image
          <5>1. QED
            BY <1>e, <3>3
        <4>2. QED
          BY <3>4, <4>1
      <3> HIDE DEF t, Image
      <3>7. Total(e, s) <= Total(d, Image(s))
        BY <3>5, <3>6, SMT
      <3>8. QED
        BY <3>7
    <2>4. QED
      BY <2>2, <2>3
  <1>2. SUBSET K \subseteq G
    <2> HIDE DEF G
    <2>1. QED
      BY <1>1, Subsets
  <1>3. QED
    BY <1>2

-----------------------------------------------------------------------------
(* Time *)

\* The idle times account for no more than the time up to the last idle event.
Pending(c) == IF idle[c].pc = "cstate" THEN idle[c].delta ELSE 0

IdleInv ==
  \A c \in Cpus :
    /\ my_map[c].cts <= now
    /\ idle[c].pc \in {"pts", "pstate", "cstate", "stamp"} =>
         my_map[c].cts # 0 /\ idle[c].cur_ts = my_map[c].cts
    /\ IdleTime(c) + Pending(c) <= IF my_map[c].cts = 0 THEN 0 ELSE my_map[c].cts - 1

\* After the first event, the word cstate says whether the CPU is awake.
TurnInv ==
  \A c \in Cpus :
    /\ idle[c].pc # "off" => (asleep[c] <=> idle[c].state # EXITED)
    /\ idle[c].pc \notin {"off", "state"} => my_map[c].cstate = idle[c].state
    /\ idle[c].pc \in {"off", "state"} /\ my_map[c].cts = 0 => my_map[c].cstate # EXITED
    /\ idle[c].pc = "off" /\ my_map[c].cts # 0 /\ ~asleep[c] => my_map[c].cstate = EXITED
    /\ idle[c].pc = "state" /\ my_map[c].cts # 0 /\ asleep[c] => my_map[c].cstate = EXITED

\* So it does when an event comes in, and only a CPU that falls asleep leaves an
\* operating point.
AsleepInv ==
  \A c \in Cpus :
    /\ idle[c].pc = "off" /\ asleep[c] => my_map[c].cstate # EXITED
    /\ idle[c].pc = "state" /\ ~asleep[c] => my_map[c].cstate # EXITED
    /\ idle[c].pc \in {"pts", "pstate"} => idle[c].state # EXITED

\* One handler at a time: what has been added to the entries of a CPU, or is
\* about to be, is from before the last stamp: pts while the CPU is busy (cts
\* until there is a pts), cts while it is idle.
Busy(c) ==
  \/ idle[c].pc \in {"off", "state"} /\ my_map[c].cstate = EXITED
  \/ idle[c].pc = "clock" /\ idle[c].state # EXITED /\ my_map[c].cts # 0
  \/ idle[c].pc = "pts"

Stamp(c) == IF Busy(c) /\ my_map[c].pts # 0 THEN my_map[c].pts ELSE my_map[c].cts

Owing(c) ==
  IF idle[c].pc \in {"cstate", "pstate"} THEN idle[c].delta
  ELSE IF freq[c].pc = "pstate" /\ my_map[c].cstate = EXITED THEN freq[c].delta ELSE 0

SerialInv ==
  \A c \in Cpus :
    /\ idle[c].pc = "off" \/ freq[c].pc = "off"
    /\ my_map[c].pts <= now
    /\ idle[c].pc = "pts" => my_map[c].pts <= idle[c].cur_ts
    /\ freq[c].pc = "pts" => /\ my_map[c].pts # 0 /\ my_map[c].pts <= freq[c].cur_ts
                             /\ freq[c].cur_ts <= now
    /\ IdleTime(c) + BusyTime(c) + Owing(c) <= IF Stamp(c) = 0 THEN 0 ELSE Stamp(c) - 1

\* What cpustat_user has copied is never more than what the entry holds.
CopyInv == \A n \in 1..NrEntries : stat_data[n] <= Lookup(Entry(n))

TimeInv == /\ IdleInv /\ TurnInv /\ AsleepInv
           /\ ~mode.overlap => SerialInv /\ CopyInv

-----------------------------------------------------------------------------
\* A difference of two moments in order does not wrap around.
LEMMA MinusFacts ==
  ASSUME NEW a \in Nat, NEW b \in Nat, b <= a, a < U64
  PROVE  Minus(a, b) = a - b
  <1>1. U64 \in Nat \ {0}
    BY CpuAssumption
  <1> DEFINE x == a - b
  <1>2. x \in Nat /\ x < U64
    BY <1>1, SMT
  <1> HIDE DEF x
  <1>3. x % U64 = x
    BY <1>1, <1>2, SMT
  <1>4. QED
    BY <1>3 DEF Minus, x

\* An addition to one entry adds to the sum of its row at most the interval.
LEMMA AddTotal ==
  ASSUME NEW w \in Nat, NEW c \in 0..(MAX_CPU - 1), NEW key, NEW delta \in Words,
         NEW durations \in [0..(MAX_CPU * w - 1) -> Words]
  PROVE  /\ Total(durations, Row(c, w)) \in Nat
         /\ Total(Add(durations, key, delta), Row(c, w)) \in Nat
         /\ Total(Add(durations, key, delta), Row(c, w))
              <= Total(durations, Row(c, w)) + delta
         /\ key \notin Row(c, w) =>
              Total(Add(durations, key, delta), Row(c, w)) <= Total(durations, Row(c, w))
  <1> DEFINE S == 0..(MAX_CPU * w - 1)
             K == Row(c, w)
             e == Add(durations, key, delta)
  <1>1. c \in Nat /\ IsFiniteSet(K)
    <2>1. c * w \in Int /\ c * w + w - 1 \in Int /\ c \in Nat
      BY CpuAssumption, SMT
    <2>2. QED
      BY <2>1, FS_Interval DEF Row
  <1>2. K \subseteq S
    BY RowKeys
  <1>3. durations \in [S -> Words] /\ e \in [S -> Words]
    BY AddFacts
  <1>4. Words \subseteq Nat /\ delta \in Nat
    BY CpuAssumption, SMT DEF Words
  <1> HIDE DEF S, K
  <1>5. \A x \in K : durations[x] \in Nat /\ e[x] \in Nat
    <2> HIDE DEF e
    <2>1. QED
      BY <1>2, <1>3, <1>4
  <1>6. ASSUME NEW x \in K
        PROVE  e[x] <= durations[x] \/ (x = key /\ e[x] <= durations[x] + delta)
    <2>0. durations[x] \in Nat /\ x \in S /\ DOMAIN durations = S
      BY <1>2, <1>3, <1>5
    <2>1. CASE x = key
      <3>1. e[x] = (durations[x] + delta) % U64
        BY <1>3, <2>0, <2>1 DEF Add
      <3>2. U64 \in Nat \ {0}
        BY CpuAssumption
      <3> DEFINE y == durations[x] + delta
      <3>3. y \in Nat
        BY <1>4, <2>0, SMT
      <3> HIDE DEF y
      <3>4. y % U64 <= y
        BY <3>2, <3>3, SMT
      <3>5. QED
        BY <2>1, <3>1, <3>4 DEF y
    <2>2. CASE x # key
      <3>1. e[x] = durations[x]
        BY <1>3, <2>0, <2>2 DEF Add
      <3>2. QED
        BY <2>0, <2>2, <3>1, SMT
    <2>3. QED
      BY <2>1, <2>2
  <1> HIDE DEF e
  <1>7. /\ Total(durations, K) \in Nat /\ Total(e, K) \in Nat
        /\ Total(e, K) <= Total(durations, K) + delta
        /\ key \notin K => Total(e, K) <= Total(durations, K)
    <2>1. K \in SUBSET K
      OBVIOUS
    <2>2. Total(durations, K) \in Nat
      BY <1>1, <1>5, <2>1, TotalType
    <2>3. Total(e, K) \in Nat
      BY <1>1, <1>5, <2>1, TotalType
    <2>a. Grown(e, durations, K, key, delta)
      BY <1>5, <1>6 DEF Grown
    <2>b. \A s \in SUBSET K : \/ Total(e, s) <= Total(durations, s)
                              \/ key \in s /\ Total(e, s) <= Total(durations, s) + delta
      BY <1>1, <1>4, <2>a, TotalBound
    <2>4. \/ Total(e, K) <= Total(durations, K)
          \/ key \in K /\ Total(e, K) <= Total(durations, K) + delta
      BY <2>1, <2>b
    <2>5. QED
      <3>1. \A x, y, z \in Nat : x <= y => x <= y + z
        BY SMT
      <3>2. QED
        BY <1>4, <2>2, <2>3, <2>4, <3>1
  <1>8. QED
    BY <1>7 DEF e, K

\* What a step may add to the times of a CPU.
LEMMA TimesAfter ==
  ASSUME IInv, Next, NEW d \in Cpus
  PROVE  /\ IdleTime(d) \in Nat /\ BusyTime(d) \in Nat
         /\ IdleTime(d)' \in Nat /\ BusyTime(d)' \in Nat
         /\ \/ IdleTime(d)' <= IdleTime(d)
            \/ IdleCstate(d) /\ IdleTime(d)' <= IdleTime(d) + idle[d].delta
         /\ \/ BusyTime(d)' <= BusyTime(d)
            \/ IdlePstate(d) /\ BusyTime(d)' <= BusyTime(d) + idle[d].delta
            \/ FreqPstate(d) /\ BusyTime(d)' <= BusyTime(d) + freq[d].delta
  <1> DEFINE C == MAX_CSTATE_ENTRIES
             P == MAX_PSTATE_ENTRIES
  <1>a. /\ C \in Nat /\ P \in Nat /\ d \in 0..(MAX_CPU - 1)
        /\ Cpus \subseteq 0..(MAX_CPU - 1)
    BY CpuAssumption, SMT
  <1>b. /\ cstate_duration \in [0..(MAX_CPU * C - 1) -> Words]
        /\ pstate_duration \in [0..(MAX_CPU * P - 1) -> Words]
        /\ HandlerInv /\ WakeInv
    BY StateFacts DEF CKeys, PKeys, IInv
  <1>c. 0 \in Words
    BY Facts
  <1>d. IdleTime(d) \in Nat /\ BusyTime(d) \in Nat
    <2>1. Total(cstate_duration, Row(d, C)) \in Nat
      BY <1>a, <1>b, <1>c, AddTotal
    <2>2. Total(pstate_duration, Row(d, P)) \in Nat
      BY <1>a, <1>b, <1>c, AddTotal
    <2>3. QED
      BY <2>1, <2>2 DEF IdleTime, BusyTime
  <1>e. \A x \in Nat : x <= x
    BY SMT
  <1>s. cstate_duration' = cstate_duration => IdleTime(d)' = IdleTime(d)
    BY DEF IdleTime
  <1>t. pstate_duration' = pstate_duration => BusyTime(d)' = BusyTime(d)
    BY DEF BusyTime
  <1> DEFINE IdleOK == \/ IdleTime(d)' <= IdleTime(d)
                       \/ IdleCstate(d) /\ IdleTime(d)' <= IdleTime(d) + idle[d].delta
             BusyOK == \/ BusyTime(d)' <= BusyTime(d)
                       \/ IdlePstate(d) /\ BusyTime(d)' <= BusyTime(d) + idle[d].delta
                       \/ FreqPstate(d) /\ BusyTime(d)' <= BusyTime(d) + freq[d].delta
  <1>1. CASE UNCHANGED <<cstate_duration, pstate_duration>>
    BY <1>1, <1>d, <1>e, <1>s, <1>t
  <1>p. ASSUME NEW c \in Cpus, NEW n \in Nat, n < P, NEW delta \in Words,
               pstate_duration' = Add(pstate_duration, PKey(c, n), delta)
        PROVE  /\ BusyTime(d)' \in Nat
               /\ BusyTime(d)' <= BusyTime(d) + delta
               /\ c # d => BusyTime(d)' <= BusyTime(d)
    <2>1. c \in 0..(MAX_CPU - 1) /\ n \in 0..(P - 1)
      BY <1>a, <1>p, SMT
    <2>2. c # d => c * P + n \notin Row(d, P)
      BY <1>a, <2>1, KeyFacts
    <2>3. /\ Total(Add(pstate_duration, PKey(c, n), delta), Row(d, P)) \in Nat
          /\ Total(Add(pstate_duration, PKey(c, n), delta), Row(d, P))
               <= Total(pstate_duration, Row(d, P)) + delta
          /\ PKey(c, n) \notin Row(d, P) =>
               Total(Add(pstate_duration, PKey(c, n), delta), Row(d, P))
                 <= Total(pstate_duration, Row(d, P))
      BY <1>a, <1>b, AddTotal
    <2>4. QED
      BY <1>p, <2>2, <2>3 DEF BusyTime, PKey
  <1>2. ASSUME NEW c \in Cpus, IdlePstate(c)
        PROVE  IdleTime(d)' \in Nat /\ BusyTime(d)' \in Nat /\ IdleOK /\ BusyOK
    <2>1. FindIdx(my_map[c].pstate) \in Nat /\ idle[c].delta \in Words
      BY <1>b, FindIdxFacts DEF HandlerInv, IdleLocals
    <2>2. cstate_duration' = cstate_duration
      BY <1>2 DEF IdlePstate
    <2>3. CASE pstate_duration' = pstate_duration
      BY <1>1, <2>2, <2>3
    <2>4. CASE /\ FindIdx(my_map[c].pstate) < P
               /\ pstate_duration' = Add(pstate_duration, PKey(c, FindIdx(my_map[c].pstate)),
                                         idle[c].delta)
      <3>1. /\ BusyTime(d)' \in Nat /\ BusyTime(d)' <= BusyTime(d) + idle[c].delta
            /\ c # d => BusyTime(d)' <= BusyTime(d)
        BY <1>p, <2>1, <2>4
      <3>2. QED
        BY <1>2, <1>d, <1>e, <1>s, <2>2, <3>1
    <2>5. QED
      BY <1>2, <2>3, <2>4 DEF IdlePstate
  <1>3. ASSUME NEW c \in Cpus, FreqPstate(c)
        PROVE  IdleTime(d)' \in Nat /\ BusyTime(d)' \in Nat /\ IdleOK /\ BusyOK
    <2>1. FindIdx(my_map[c].pstate) \in Nat /\ freq[c].delta \in Words
      BY <1>b, FindIdxFacts DEF HandlerInv, FreqLocals
    <2>2. /\ cstate_duration' = cstate_duration /\ FindIdx(my_map[c].pstate) < P
          /\ pstate_duration' = Add(pstate_duration, PKey(c, FindIdx(my_map[c].pstate)),
                                    freq[c].delta)
      BY <1>3 DEF FreqPstate
    <2>3. /\ BusyTime(d)' \in Nat /\ BusyTime(d)' <= BusyTime(d) + freq[c].delta
          /\ c # d => BusyTime(d)' <= BusyTime(d)
      BY <1>p, <2>1, <2>2
    <2>4. QED
      BY <1>3, <1>d, <1>e, <1>s, <2>2, <2>3
  <1>4. ASSUME NEW c \in Cpus, IdleCstate(c)
        PROVE  IdleTime(d)' \in Nat /\ BusyTime(d)' \in Nat /\ IdleOK /\ BusyOK
    <2> DEFINE s == idle[c].prev_state
               key == CKey(c, s)
    <2>1. s \in Table /\ idle[c].delta \in Words
      BY <1>4, <1>b DEF IdleCstate, HandlerInv, WakeInv, IdleLocals
    <2>2. key = c * C + s /\ s \in 0..(C - 1) /\ c \in 0..(MAX_CPU - 1)
      BY <1>a, <2>1, CKeyFacts DEF Table
    <2> HIDE DEF s
    <2>3. c # d => key \notin Row(d, C)
      BY <1>a, <2>2, KeyFacts
    <2>4. /\ cstate_duration' = Add(cstate_duration, key, idle[c].delta)
          /\ pstate_duration' = pstate_duration
      BY <1>4 DEF IdleCstate, s
    <2> HIDE DEF key
    <2>5. /\ Total(Add(cstate_duration, key, idle[c].delta), Row(d, C)) \in Nat
          /\ Total(Add(cstate_duration, key, idle[c].delta), Row(d, C))
               <= Total(cstate_duration, Row(d, C)) + idle[c].delta
          /\ key \notin Row(d, C) =>
               Total(Add(cstate_duration, key, idle[c].delta), Row(d, C))
                 <= Total(cstate_duration, Row(d, C))
      BY <1>a, <1>b, <2>1, AddTotal
    <2>6. /\ IdleTime(d)' \in Nat /\ IdleTime(d)' <= IdleTime(d) + idle[c].delta
          /\ c # d => IdleTime(d)' <= IdleTime(d)
      BY <2>3, <2>4, <2>5 DEF IdleTime
    <2>7. QED
      BY <1>4, <1>d, <1>e, <1>t, <2>4, <2>6
  <1>5. \/ UNCHANGED <<cstate_duration, pstate_duration>>
        \/ \E c \in Cpus : IdlePstate(c) \/ FreqPstate(c) \/ IdleCstate(c)
    BY DEF Next, Tick, Update, Idle, IdleEvent, IdleState, IdleFirst, IdleClock, IdleNoPts,
           IdleInterval, IdleStamp, Freq, FreqEvent, FreqState, FreqFirst, FreqClock,
           FreqInterval, FreqBailsOut, maps
  <1>6. QED
    BY <1>1, <1>2, <1>3, <1>4, <1>5, <1>d

\* The words of a CPU and the locals of its handlers are numbers.
LEMMA Numbers ==
  ASSUME IInv, NEW c \in Cpus
  PROVE  /\ now \in Nat \ {0} /\ now < U64
         /\ my_map[c].cts \in Nat /\ my_map[c].pts \in Nat /\ my_map[c].cstate \in Nat
         /\ idle[c].state \in Nat /\ idle[c].cur_ts \in Nat /\ idle[c].delta \in Nat
         /\ freq[c].cur_ts \in Nat /\ freq[c].delta \in Nat
  <1>1. my_map[c] \in [cts : 0..mode.until, cstate : 0..EXITED,
                       pts : 0..mode.until, pstate : Frequencies \cup {0}]
    BY StateFacts
  <1>2. idle[c] \in IdleLocals /\ freq[c] \in FreqLocals
    BY DEF IInv, HandlerInv
  <1>3. U64 \in Nat /\ mode.until \in 1..(U64 - 1) /\ now \in 1..mode.until
    BY StateFacts, CpuAssumption
  <1>4. 0..mode.until \subseteq Nat /\ 0..EXITED \subseteq Nat /\ Words \subseteq Nat
    BY <1>3, Facts, SMT DEF Words
  <1>5. now \in Nat \ {0} /\ now < U64
    BY <1>3, SMT
  <1>6. /\ my_map[c].cts \in 0..mode.until /\ my_map[c].pts \in 0..mode.until
        /\ my_map[c].cstate \in 0..EXITED
    BY <1>1
  <1>7. /\ idle[c].state \in 0..EXITED /\ idle[c].cur_ts \in 0..mode.until
        /\ idle[c].delta \in Words
    BY <1>2 DEF IdleLocals
  <1>8. freq[c].cur_ts \in 0..mode.until /\ freq[c].delta \in Words
    BY <1>2 DEF FreqLocals
  <1>9. QED
    BY <1>4, <1>5, <1>6, <1>7, <1>8

\* What a step leaves to a CPU it is not about.
Same(c) == /\ my_map'[c] = my_map[c] /\ idle'[c] = idle[c] /\ freq'[c] = freq[c]
           /\ asleep'[c] = asleep[c]

\* A step is one of the handlers of a CPU, or leaves that CPU alone.
LEMMA Actors ==
  ASSUME IInv, Next, NEW d \in Cpus
  PROVE  /\ now' = now \/ now' = now + 1
         /\ Same(d) \/ (Idle(d) /\ now' = now) \/ (Freq(d) /\ now' = now)
  <1> USE DEF Same
  <1>0. /\ idle \in [Cpus -> IdleLocals] /\ freq \in [Cpus -> FreqLocals]
        /\ asleep \in [Cpus -> BOOLEAN] /\ DOMAIN my_map = Cpus
    BY StateFacts DEF IInv, HandlerInv
  <1>1. CASE Tick \/ Update
    BY <1>1 DEF Tick, Update, maps
  <1>2. ASSUME NEW c \in Cpus, Idle(c) PROVE now' = now /\ (c # d => Same(d))
    <2>1. now' = now /\ freq' = freq
      BY <1>2 DEF Idle, IdleEvent, IdleState, IdleFirst, IdleClock, IdleNoPts,
           IdleInterval, IdlePstate, IdleCstate, IdleStamp
    <2>2. c # d => idle'[d] = idle[d] /\ asleep'[d] = asleep[d]
      BY <1>0, <1>2 DEF Idle, IdleEvent, IdleState, IdleFirst, IdleClock, IdleNoPts,
           IdleInterval, IdlePstate, IdleCstate, IdleStamp, Leave
    <2>3. c # d => my_map'[d] = my_map[d]
      BY <1>0, <1>2 DEF Idle, IdleEvent, IdleState, IdleFirst, IdleClock, IdleNoPts,
           IdleInterval, IdlePstate, IdleCstate, IdleStamp, maps
    <2>4. QED
      BY <2>1, <2>2, <2>3
  <1>3. ASSUME NEW c \in Cpus, Freq(c) PROVE now' = now /\ (c # d => Same(d))
    <2>1. now' = now /\ idle' = idle /\ asleep' = asleep
      BY <1>3 DEF Freq, FreqEvent, FreqState, FreqFirst, FreqClock, FreqInterval,
           FreqBailsOut, FreqPstate
    <2>2. c # d => freq'[d] = freq[d]
      BY <1>0, <1>3 DEF Freq, FreqEvent, FreqState, FreqFirst, FreqClock, FreqInterval,
           FreqBailsOut, FreqPstate, Leave
    <2>3. c # d => my_map'[d] = my_map[d]
      BY <1>0, <1>3 DEF Freq, FreqEvent, FreqState, FreqFirst, FreqClock, FreqInterval,
           FreqBailsOut, FreqPstate, maps
    <2>4. QED
      BY <2>1, <2>2, <2>3
  <1>4. QED
    BY <1>1, <1>2, <1>3 DEF Next

\* The steps of the handler of cpu_idle, on the words and locals of its CPU.
LEMMA IdleAfter ==
  ASSUME IInv, NEW c \in Cpus, Idle(c)
  PROVE  /\ freq'[c] = freq[c] /\ now' = now
         /\ ~IdleEvent(c) => asleep'[c] = asleep[c]
         /\ IdleEvent(c) =>
              /\ idle[c].pc = "off" /\ (mode.overlap \/ freq[c].pc = "off")
              /\ asleep'[c] = ~asleep[c]
              /\ idle'[c].pc = "state" /\ (idle'[c].state = EXITED <=> asleep[c])
              /\ my_map'[c] = my_map[c]
         /\ IdleState(c) =>
              /\ idle[c].pc = "state" /\ idle'[c].pc = "clock" /\ idle'[c].state = idle[c].state
              /\ my_map'[c].cstate = idle[c].state
              /\ my_map'[c].cts = my_map[c].cts /\ my_map'[c].pts = my_map[c].pts
         /\ IdleFirst(c) =>
              /\ idle[c].pc = "clock" /\ my_map[c].cts = 0 /\ idle'[c].pc = "off"
              /\ my_map'[c].cts = now
              /\ my_map'[c].pts = my_map[c].pts /\ my_map'[c].cstate = my_map[c].cstate
         /\ IdleClock(c) =>
              /\ idle[c].pc = "clock" /\ my_map[c].cts # 0
              /\ idle'[c].pc = IF idle[c].state = EXITED THEN "cstate" ELSE "pts"
              /\ idle'[c].cur_ts = now /\ idle'[c].delta = Minus(now, my_map[c].cts)
              /\ idle'[c].state = idle[c].state /\ my_map'[c].cts = now
              /\ my_map'[c].pts = my_map[c].pts /\ my_map'[c].cstate = my_map[c].cstate
         /\ IdleNoPts(c) =>
              /\ idle[c].pc = "pts" /\ my_map[c].pts = 0
              /\ idle'[c].pc = "off" /\ my_map'[c] = my_map[c]
         /\ IdleInterval(c) =>
              /\ idle[c].pc = "pts" /\ my_map[c].pts # 0 /\ idle'[c].pc = "pstate"
              /\ idle'[c].delta = Minus(idle[c].cur_ts, my_map[c].pts)
              /\ idle'[c].cur_ts = idle[c].cur_ts /\ idle'[c].state = idle[c].state
              /\ my_map'[c] = my_map[c]
         /\ IdlePstate(c) =>
              /\ idle[c].pc = "pstate" /\ my_map'[c] = my_map[c]
              /\ \/ idle'[c].pc = "off"
                 \/ /\ idle'[c].pc = "stamp" /\ idle'[c].cur_ts = idle[c].cur_ts
                    /\ idle'[c].state = idle[c].state
         /\ IdleCstate(c) =>
              /\ idle[c].pc = "cstate" /\ my_map'[c] = my_map[c] /\ idle'[c].pc = "stamp"
              /\ idle'[c].cur_ts = idle[c].cur_ts /\ idle'[c].state = idle[c].state
         /\ IdleStamp(c) =>
              /\ idle[c].pc = "stamp" /\ idle'[c].pc = "off"
              /\ my_map'[c].pts = IF my_map[c].pts = 0 THEN 0 ELSE idle[c].cur_ts
              /\ my_map'[c].cts = my_map[c].cts /\ my_map'[c].cstate = my_map[c].cstate
  <1>0. /\ idle \in [Cpus -> IdleLocals] /\ asleep \in [Cpus -> BOOLEAN]
        /\ my_map \in [Cpus -> [cts : 0..mode.until, cstate : 0..EXITED,
                                pts : 0..mode.until, pstate : Frequencies \cup {0}]]
    BY StateFacts DEF IInv, HandlerInv
  <1> USE DEF IdleLocals
  <1>1. /\ freq'[c] = freq[c] /\ now' = now
        /\ ~IdleEvent(c) => asleep'[c] = asleep[c]
    BY DEF Idle, IdleEvent, IdleState, IdleFirst, IdleClock, IdleNoPts,
           IdleInterval, IdlePstate, IdleCstate, IdleStamp
  <1>2. ASSUME IdleEvent(c)
        PROVE  /\ idle[c].pc = "off" /\ (mode.overlap \/ freq[c].pc = "off")
               /\ asleep'[c] = ~asleep[c]
               /\ idle'[c].pc = "state" /\ (idle'[c].state = EXITED <=> asleep[c])
               /\ my_map'[c] = my_map[c]
    <2>1. PICK t \in Table : idle' = [idle EXCEPT ![c] = [Off EXCEPT !.pc = "state",
                                         !.state = IF asleep[c] THEN EXITED ELSE t]]
      BY <1>2 DEF IdleEvent, Table
    <2>2. idle'[c].pc = "state" /\ idle'[c].state = IF asleep[c] THEN EXITED ELSE t
      BY <1>0, <2>1 DEF Off
    <2>3. idle'[c].state = EXITED <=> asleep[c]
      BY <2>2, Facts
    <2>4. /\ idle[c].pc = "off" /\ (mode.overlap \/ freq[c].pc = "off")
          /\ asleep'[c] = ~asleep[c] /\ my_map'[c] = my_map[c]
      BY <1>0, <1>2 DEF IdleEvent, maps
    <2>5. QED
      BY <2>2, <2>3, <2>4
  <1>3. ASSUME IdleState(c)
        PROVE  /\ idle[c].pc = "state" /\ idle'[c].pc = "clock" /\ idle'[c].state = idle[c].state
               /\ my_map'[c].cstate = idle[c].state
               /\ my_map'[c].cts = my_map[c].cts /\ my_map'[c].pts = my_map[c].pts
    BY <1>0, <1>3, SMT DEF IdleState
  <1>4. ASSUME IdleFirst(c)
        PROVE  /\ idle[c].pc = "clock" /\ my_map[c].cts = 0 /\ idle'[c].pc = "off"
               /\ my_map'[c].cts = now
               /\ my_map'[c].pts = my_map[c].pts /\ my_map'[c].cstate = my_map[c].cstate
    BY <1>0, <1>4, SMT DEF IdleFirst, Leave, Off
  <1>5. ASSUME IdleClock(c)
        PROVE  /\ idle[c].pc = "clock" /\ my_map[c].cts # 0
               /\ idle'[c].pc = IF idle[c].state = EXITED THEN "cstate" ELSE "pts"
               /\ idle'[c].cur_ts = now /\ idle'[c].delta = Minus(now, my_map[c].cts)
               /\ idle'[c].state = idle[c].state /\ my_map'[c].cts = now
               /\ my_map'[c].pts = my_map[c].pts /\ my_map'[c].cstate = my_map[c].cstate
    BY <1>0, <1>5, SMT DEF IdleClock
  <1>6. ASSUME IdleNoPts(c)
        PROVE  /\ idle[c].pc = "pts" /\ my_map[c].pts = 0
               /\ idle'[c].pc = "off" /\ my_map'[c] = my_map[c]
    BY <1>0, <1>6, SMT DEF IdleNoPts, maps, Leave, Off
  <1>7. ASSUME IdleInterval(c)
        PROVE  /\ idle[c].pc = "pts" /\ my_map[c].pts # 0 /\ idle'[c].pc = "pstate"
               /\ idle'[c].delta = Minus(idle[c].cur_ts, my_map[c].pts)
               /\ idle'[c].cur_ts = idle[c].cur_ts /\ idle'[c].state = idle[c].state
               /\ my_map'[c] = my_map[c]
    BY <1>0, <1>7, SMT DEF IdleInterval, maps
  <1>8. ASSUME IdlePstate(c)
        PROVE  /\ idle[c].pc = "pstate" /\ my_map'[c] = my_map[c]
               /\ \/ idle'[c].pc = "off"
                  \/ /\ idle'[c].pc = "stamp" /\ idle'[c].cur_ts = idle[c].cur_ts
                     /\ idle'[c].state = idle[c].state
    BY <1>0, <1>8, SMT DEF IdlePstate, maps, Leave, Off
  <1>9. ASSUME IdleCstate(c)
        PROVE  /\ idle[c].pc = "cstate" /\ my_map'[c] = my_map[c] /\ idle'[c].pc = "stamp"
               /\ idle'[c].cur_ts = idle[c].cur_ts /\ idle'[c].state = idle[c].state
    BY <1>0, <1>9, SMT DEF IdleCstate, maps
  <1>10. ASSUME IdleStamp(c)
        PROVE  /\ idle[c].pc = "stamp" /\ idle'[c].pc = "off"
               /\ my_map'[c].pts = IF my_map[c].pts = 0 THEN 0 ELSE idle[c].cur_ts
               /\ my_map'[c].cts = my_map[c].cts /\ my_map'[c].cstate = my_map[c].cstate
    BY <1>0, <1>10, SMT DEF IdleStamp, Leave, Off
  <1>11. QED
    BY <1>1, <1>2, <1>3, <1>4, <1>5, <1>6, <1>7, <1>8, <1>9, <1>10

\* The steps of the handler of cpu_frequency.
LEMMA FreqAfter ==
  ASSUME IInv, NEW c \in Cpus, Freq(c)
  PROVE  /\ idle'[c] = idle[c] /\ asleep'[c] = asleep[c] /\ now' = now
         /\ FreqEvent(c) =>
              /\ freq[c].pc = "off" /\ (mode.overlap \/ idle[c].pc = "off")
              /\ freq'[c].pc = "state" /\ my_map'[c] = my_map[c]
         /\ FreqState(c) =>
              /\ freq[c].pc = "state" /\ freq'[c].pc = "clock"
              /\ my_map'[c].cts = my_map[c].cts /\ my_map'[c].pts = my_map[c].pts
              /\ my_map'[c].cstate = my_map[c].cstate
         /\ FreqFirst(c) =>
              /\ freq[c].pc = "clock" /\ my_map[c].pts = 0 /\ freq'[c].pc = "off"
              /\ my_map'[c].pts = now
              /\ my_map'[c].cts = my_map[c].cts /\ my_map'[c].cstate = my_map[c].cstate
         /\ FreqClock(c) =>
              /\ freq[c].pc = "clock" /\ my_map[c].pts # 0 /\ freq'[c].pc = "pts"
              /\ freq'[c].cur_ts = now /\ my_map'[c] = my_map[c]
         /\ FreqInterval(c) =>
              /\ freq[c].pc = "pts" /\ freq'[c].pc = "pstate"
              /\ freq'[c].delta = Minus(freq[c].cur_ts, my_map[c].pts)
              /\ my_map'[c].pts = freq[c].cur_ts
              /\ my_map'[c].cts = my_map[c].cts /\ my_map'[c].cstate = my_map[c].cstate
         /\ FreqBailsOut(c) => freq[c].pc = "pstate" /\ freq'[c].pc = "off" /\ my_map'[c] = my_map[c]
         /\ FreqPstate(c) =>
              /\ freq[c].pc = "pstate" /\ freq'[c].pc = "off" /\ my_map'[c] = my_map[c]
              /\ my_map[c].cstate = EXITED
  <1>0. /\ freq \in [Cpus -> FreqLocals] /\ asleep \in [Cpus -> BOOLEAN]
        /\ my_map \in [Cpus -> [cts : 0..mode.until, cstate : 0..EXITED,
                                pts : 0..mode.until, pstate : Frequencies \cup {0}]]
    BY StateFacts DEF IInv, HandlerInv
  <1> USE DEF FreqLocals
  <1>1. /\ idle'[c] = idle[c] /\ asleep'[c] = asleep[c] /\ now' = now
    BY DEF Freq, FreqEvent, FreqState, FreqFirst, FreqClock, FreqInterval,
           FreqBailsOut, FreqPstate
  <1>2. ASSUME FreqEvent(c)
        PROVE  /\ freq[c].pc = "off" /\ (mode.overlap \/ idle[c].pc = "off")
               /\ freq'[c].pc = "state" /\ my_map'[c] = my_map[c]
    BY <1>0, <1>2, SMT DEF FreqEvent, maps, Off
  <1>3. ASSUME FreqState(c)
        PROVE  /\ freq[c].pc = "state" /\ freq'[c].pc = "clock"
               /\ my_map'[c].cts = my_map[c].cts /\ my_map'[c].pts = my_map[c].pts
               /\ my_map'[c].cstate = my_map[c].cstate
    BY <1>0, <1>3, SMT DEF FreqState
  <1>4. ASSUME FreqFirst(c)
        PROVE  /\ freq[c].pc = "clock" /\ my_map[c].pts = 0 /\ freq'[c].pc = "off"
               /\ my_map'[c].pts = now
               /\ my_map'[c].cts = my_map[c].cts /\ my_map'[c].cstate = my_map[c].cstate
    BY <1>0, <1>4, SMT DEF FreqFirst, Leave, Off
  <1>5. ASSUME FreqClock(c)
        PROVE  /\ freq[c].pc = "clock" /\ my_map[c].pts # 0 /\ freq'[c].pc = "pts"
               /\ freq'[c].cur_ts = now /\ my_map'[c] = my_map[c]
    BY <1>0, <1>5, SMT DEF FreqClock, maps
  <1>6. ASSUME FreqInterval(c)
        PROVE  /\ freq[c].pc = "pts" /\ freq'[c].pc = "pstate"
               /\ freq'[c].delta = Minus(freq[c].cur_ts, my_map[c].pts)
               /\ my_map'[c].pts = freq[c].cur_ts
               /\ my_map'[c].cts = my_map[c].cts /\ my_map'[c].cstate = my_map[c].cstate
    BY <1>0, <1>6, SMTT(30) DEF FreqInterval
  <1>7. ASSUME FreqBailsOut(c)
        PROVE  freq[c].pc = "pstate" /\ freq'[c].pc = "off" /\ my_map'[c] = my_map[c]
    BY <1>0, <1>7, SMTT(30) DEF FreqBailsOut, maps, Leave, Off
  <1>8. ASSUME FreqPstate(c)
        PROVE  /\ freq[c].pc = "pstate" /\ freq'[c].pc = "off" /\ my_map'[c] = my_map[c]
               /\ my_map[c].cstate = EXITED
    BY <1>0, <1>8, SMT DEF FreqPstate, maps, Leave, Off
  <1>9. QED
    BY <1>1, <1>2, <1>3, <1>4, <1>5, <1>6, <1>7, <1>8

-----------------------------------------------------------------------------
(* Steps and time *)

\* The idle times, under any overlap.
LEMMA IdleTimeStep ==
  ASSUME IInv, IdleInv, Next
  PROVE  IdleInv'
  <1> SUFFICES ASSUME NEW c \in Cpus
               PROVE  /\ my_map'[c].cts <= now'
                      /\ idle'[c].pc \in {"pts", "pstate", "cstate", "stamp"} =>
                           my_map'[c].cts # 0 /\ idle'[c].cur_ts = my_map'[c].cts
                      /\ IdleTime(c)' + Pending(c)'
                           <= IF my_map'[c].cts = 0 THEN 0 ELSE my_map'[c].cts - 1
    BY DEF IdleInv
  <1> DEFINE T == IdleTime(c)
             U == IdleTime(c)'
             Goal == /\ my_map'[c].cts <= now'
                     /\ idle'[c].pc \in {"pts", "pstate", "cstate", "stamp"} =>
                          my_map'[c].cts # 0 /\ idle'[c].cur_ts = my_map'[c].cts
                     /\ U + Pending(c)' <= IF my_map'[c].cts = 0 THEN 0 ELSE my_map'[c].cts - 1
  <1> SUFFICES Goal
    OBVIOUS
  <1>1. /\ my_map[c].cts <= now
        /\ idle[c].pc \in {"pts", "pstate", "cstate", "stamp"} =>
             my_map[c].cts # 0 /\ idle[c].cur_ts = my_map[c].cts
        /\ T + Pending(c) <= IF my_map[c].cts = 0 THEN 0 ELSE my_map[c].cts - 1
    BY DEF IdleInv
  <1>2. /\ now \in Nat \ {0} /\ now < U64 /\ my_map[c].cts \in Nat
        /\ idle[c].delta \in Nat
    BY Numbers
  <1>3. /\ T \in Nat /\ U \in Nat
        /\ U <= T \/ (IdleCstate(c) /\ U <= T + idle[c].delta)
    BY TimesAfter
  <1>4. now' = now \/ now' = now + 1
    BY Actors
  <1> HIDE DEF T, U
  <1>5. CASE idle[c].pc # "cstate" /\ my_map'[c].cts = my_map[c].cts /\ idle'[c].pc # "cstate"
             /\ (idle'[c].pc \in {"pts", "pstate", "stamp"} =>
                   /\ idle[c].pc \in {"pts", "pstate", "stamp"}
                   /\ idle'[c].cur_ts = idle[c].cur_ts)
    <2>1. U <= T /\ Pending(c) = 0 /\ Pending(c)' = 0
      BY <1>3, <1>5 DEF IdleCstate, Pending
    <2>2. my_map'[c].cts <= now'
      BY <1>1, <1>2, <1>4, <1>5, SMTT(30)
    <2>3. U + Pending(c)' <= IF my_map'[c].cts = 0 THEN 0 ELSE my_map'[c].cts - 1
      BY <1>1, <1>2, <1>3, <1>5, <2>1, SMTT(30)
    <2>4. QED
      BY <1>1, <1>5, <2>2, <2>3
  <1>6. ASSUME idle'[c] = idle[c], my_map'[c].cts = my_map[c].cts PROVE Goal
    <2>1. ~IdleCstate(c)
      <3>1. IdleCstate(c) => Idle(c)
        BY DEF Idle
      <3>2. QED
        BY <1>6, <3>1, IdleAfter
    <2>2. Pending(c)' = Pending(c)
      BY <1>6 DEF Pending
    <2>3. Pending(c) \in Nat
      BY <1>2, SMTT(30) DEF Pending
    <2>4. U + Pending(c)' <= IF my_map[c].cts = 0 THEN 0 ELSE my_map[c].cts - 1
      BY <1>1, <1>2, <1>3, <2>1, <2>2, <2>3, SMTT(30)
    <2>5. my_map[c].cts <= now'
      BY <1>1, <1>2, <1>4, SMT
    <2>6. QED
      BY <1>1, <1>6, <2>4, <2>5
  <1>7. CASE Idle(c) /\ now' = now
    <2>1. CASE IdleFirst(c)
      <3>1. /\ idle[c].pc = "clock" /\ my_map[c].cts = 0 /\ idle'[c].pc = "off"
            /\ my_map'[c].cts = now
        BY <1>7, <2>1, IdleAfter
      <3>2. U <= T /\ Pending(c) = 0 /\ Pending(c)' = 0
        BY <1>3, <3>1 DEF IdleCstate, Pending
      <3>3. U + Pending(c)' <= IF my_map'[c].cts = 0 THEN 0 ELSE my_map'[c].cts - 1
        BY <1>1, <1>2, <1>3, <3>1, <3>2, SMTT(30)
      <3>4. my_map'[c].cts <= now'
        BY <1>2, <1>7, <3>1, SMT
      <3>5. QED
        BY <3>1, <3>3, <3>4
    <2>2. CASE IdleClock(c)
      <3>1. /\ idle[c].pc = "clock" /\ my_map[c].cts # 0
            /\ idle'[c].cur_ts = now /\ idle'[c].delta = Minus(now, my_map[c].cts)
            /\ my_map'[c].cts = now
        BY <1>7, <2>2, IdleAfter
      <3>2. idle'[c].delta = now - my_map[c].cts
        BY <1>1, <1>2, <3>1, MinusFacts
      <3>3. U <= T /\ Pending(c) = 0 /\ (Pending(c)' = 0 \/ Pending(c)' = now - my_map[c].cts)
        BY <1>3, <3>1, <3>2 DEF IdleCstate, Pending
      <3>4. U + Pending(c)' <= IF my_map'[c].cts = 0 THEN 0 ELSE my_map'[c].cts - 1
        BY <1>1, <1>2, <1>3, <3>1, <3>3, SMTT(30)
      <3>5. my_map'[c].cts <= now' /\ my_map'[c].cts # 0
        BY <1>2, <1>7, <3>1, SMT
      <3>6. QED
        BY <3>1, <3>4, <3>5
    <2>3. CASE IdleCstate(c)
      <3>1. /\ idle[c].pc = "cstate" /\ my_map'[c] = my_map[c] /\ idle'[c].pc = "stamp"
            /\ idle'[c].cur_ts = idle[c].cur_ts
        BY <1>7, <2>3, IdleAfter
      <3>2. Pending(c) = idle[c].delta /\ Pending(c)' = 0
        BY <3>1 DEF Pending
      <3>3. U + Pending(c)' <= IF my_map'[c].cts = 0 THEN 0 ELSE my_map'[c].cts - 1
        BY <1>1, <1>2, <1>3, <3>1, <3>2, SMTT(30)
      <3>4. QED
        BY <1>1, <1>7, <3>1, <3>3
    <2>4. CASE IdleEvent(c) \/ IdleState(c) \/ IdleNoPts(c) \/ IdleInterval(c)
      BY <1>5, <1>7, <2>4, IdleAfter
    <2>5. CASE IdlePstate(c) \/ IdleStamp(c)
      BY <1>5, <1>7, <2>5, IdleAfter
    <2>6. QED
      BY <1>7, <2>1, <2>2, <2>3, <2>4, <2>5 DEF Idle
  <1>8. CASE Freq(c) \/ Same(c)
    <2>1. CASE Same(c)
      BY <1>6, <2>1 DEF Same
    <2>2. CASE Freq(c)
      <3>1. idle'[c] = idle[c] /\ my_map'[c].cts = my_map[c].cts
        BY <2>2, FreqAfter DEF Freq
      <3>2. QED
        BY <1>6, <3>1
    <2>3. QED
      BY <1>8, <2>1, <2>2
  <1>9. QED
    BY <1>7, <1>8, Actors

\* The word cstate follows the events.
LEMMA TurnStep ==
  ASSUME IInv, IdleInv, TurnInv, Next
  PROVE  TurnInv'
  <1> SUFFICES ASSUME NEW c \in Cpus
               PROVE  /\ idle'[c].pc # "off" => (asleep'[c] <=> idle'[c].state # EXITED)
                      /\ idle'[c].pc \notin {"off", "state"} =>
                           my_map'[c].cstate = idle'[c].state
                      /\ idle'[c].pc \in {"off", "state"} /\ my_map'[c].cts = 0 =>
                           my_map'[c].cstate # EXITED
                      /\ idle'[c].pc = "off" /\ my_map'[c].cts # 0 /\ ~asleep'[c] =>
                           my_map'[c].cstate = EXITED
                      /\ idle'[c].pc = "state" /\ my_map'[c].cts # 0 /\ asleep'[c] =>
                           my_map'[c].cstate = EXITED
    BY DEF TurnInv
  <1>1. /\ idle[c].pc # "off" => (asleep[c] <=> idle[c].state # EXITED)
        /\ idle[c].pc \notin {"off", "state"} => my_map[c].cstate = idle[c].state
        /\ idle[c].pc \in {"off", "state"} /\ my_map[c].cts = 0 => my_map[c].cstate # EXITED
        /\ idle[c].pc = "off" /\ my_map[c].cts # 0 /\ ~asleep[c] => my_map[c].cstate = EXITED
        /\ idle[c].pc = "state" /\ my_map[c].cts # 0 /\ asleep[c] => my_map[c].cstate = EXITED
    BY DEF TurnInv
  <1>2. /\ idle[c].pc \in {"pts", "pstate", "cstate", "stamp"} => my_map[c].cts # 0
        /\ now # 0
    BY Numbers DEF IdleInv
  <1>3. CASE Idle(c)
    <2>a. idle[c].pc # "off" => asleep'[c] = asleep[c]
      BY <1>3, IdleAfter DEF IdleEvent
    <2>1. CASE IdleEvent(c)
      BY <1>1, <1>3, <2>1, IdleAfter
    <2>2. CASE IdleState(c)
      <3>1. /\ idle[c].pc = "state" /\ idle'[c].pc = "clock" /\ idle'[c].state = idle[c].state
            /\ my_map'[c].cstate = idle[c].state
            /\ my_map'[c].cts = my_map[c].cts /\ my_map'[c].pts = my_map[c].pts
        BY <1>3, <2>2, IdleAfter
      <3>2. QED
        BY <1>1, <1>2, <2>a, <3>1
    <2>3. CASE IdleFirst(c)
      <3>1. /\ idle[c].pc = "clock" /\ my_map[c].cts = 0 /\ idle'[c].pc = "off"
            /\ my_map'[c].cts = now
            /\ my_map'[c].pts = my_map[c].pts /\ my_map'[c].cstate = my_map[c].cstate
        BY <1>3, <2>3, IdleAfter
      <3>2. QED
        BY <1>1, <1>2, <2>a, <3>1
    <2>4. CASE IdleClock(c)
      <3>1. /\ idle[c].pc = "clock" /\ my_map[c].cts # 0
            /\ idle'[c].pc = IF idle[c].state = EXITED THEN "cstate" ELSE "pts"
            /\ idle'[c].cur_ts = now /\ idle'[c].delta = Minus(now, my_map[c].cts)
            /\ idle'[c].state = idle[c].state /\ my_map'[c].cts = now
            /\ my_map'[c].pts = my_map[c].pts /\ my_map'[c].cstate = my_map[c].cstate
        BY <1>3, <2>4, IdleAfter
      <3>2. QED
        BY <1>1, <1>2, <2>a, <3>1
    <2>5. CASE IdleNoPts(c)
      BY <1>1, <1>2, <1>3, <2>5, <2>a, IdleAfter
    <2>6. CASE IdleInterval(c)
      BY <1>1, <1>2, <1>3, <2>6, <2>a, IdleAfter
    <2>7. CASE IdlePstate(c)
      BY <1>1, <1>2, <1>3, <2>7, <2>a, IdleAfter
    <2>8. CASE IdleCstate(c)
      BY <1>1, <1>2, <1>3, <2>8, <2>a, IdleAfter
    <2>9. CASE IdleStamp(c)
      BY <1>1, <1>2, <1>3, <2>9, <2>a, IdleAfter
    <2>10. QED
      BY <1>3, <2>1, <2>2, <2>3, <2>4, <2>5, <2>6, <2>7, <2>8, <2>9 DEF Idle
  <1>4. CASE Freq(c) \/ Same(c)
    <2>1. /\ idle'[c] = idle[c] /\ asleep'[c] = asleep[c]
          /\ my_map'[c].cts = my_map[c].cts /\ my_map'[c].cstate = my_map[c].cstate
      <3>1. CASE Same(c)
        BY <3>1 DEF Same
      <3>2. CASE Freq(c)
        BY <3>2, FreqAfter DEF Freq
      <3>3. QED
        BY <1>4, <3>1, <3>2
    <2>2. QED
      BY <1>1, <2>1
  <1>5. QED
    BY <1>3, <1>4, Actors

\* The same for what an event finds.
LEMMA AsleepStep ==
  ASSUME IInv, TurnInv, AsleepInv, Next
  PROVE  AsleepInv'
  <1> SUFFICES ASSUME NEW c \in Cpus
               PROVE  /\ idle'[c].pc = "off" /\ asleep'[c] => my_map'[c].cstate # EXITED
                      /\ idle'[c].pc = "state" /\ ~asleep'[c] => my_map'[c].cstate # EXITED
                      /\ idle'[c].pc \in {"pts", "pstate"} => idle'[c].state # EXITED
    BY DEF AsleepInv
  <1>1. /\ idle[c].pc # "off" => (asleep[c] <=> idle[c].state # EXITED)
        /\ idle[c].pc \notin {"off", "state"} => my_map[c].cstate = idle[c].state
        /\ idle[c].pc = "off" /\ asleep[c] => my_map[c].cstate # EXITED
        /\ idle[c].pc = "state" /\ ~asleep[c] => my_map[c].cstate # EXITED
        /\ idle[c].pc \in {"pts", "pstate"} => idle[c].state # EXITED
    BY DEF TurnInv, AsleepInv
  <1>3. CASE Idle(c)
    <2>a. idle[c].pc # "off" => asleep'[c] = asleep[c]
      BY <1>3, IdleAfter DEF IdleEvent
    <2>1. CASE IdleEvent(c)
      BY <1>1, <1>3, <2>1, IdleAfter
    <2>2. CASE IdleState(c)
      BY <1>1, <1>3, <2>2, <2>a, IdleAfter
    <2>3. CASE IdleFirst(c)
      BY <1>1, <1>3, <2>3, <2>a, IdleAfter
    <2>4. CASE IdleClock(c)
      <3>1. /\ idle'[c].pc = IF idle[c].state = EXITED THEN "cstate" ELSE "pts"
            /\ idle'[c].state = idle[c].state
        BY <1>3, <2>4, IdleAfter
      <3>2. QED
        BY <3>1
    <2>5. CASE IdleNoPts(c)
      BY <1>1, <1>3, <2>5, <2>a, IdleAfter
    <2>6. CASE IdleInterval(c)
      BY <1>1, <1>3, <2>6, <2>a, IdleAfter
    <2>7. CASE IdlePstate(c)
      BY <1>1, <1>3, <2>7, <2>a, IdleAfter
    <2>8. CASE IdleCstate(c)
      BY <1>1, <1>3, <2>8, <2>a, IdleAfter
    <2>9. CASE IdleStamp(c)
      BY <1>1, <1>3, <2>9, <2>a, IdleAfter
    <2>10. QED
      BY <1>3, <2>1, <2>2, <2>3, <2>4, <2>5, <2>6, <2>7, <2>8, <2>9 DEF Idle
  <1>4. CASE Freq(c) \/ Same(c)
    <2>1. /\ idle'[c] = idle[c] /\ asleep'[c] = asleep[c]
          /\ my_map'[c].cstate = my_map[c].cstate
      <3>1. CASE Same(c)
        BY <3>1 DEF Same
      <3>2. CASE Freq(c)
        BY <3>2, FreqAfter DEF Freq
      <3>3. QED
        BY <1>4, <3>1, <3>2
    <2>2. QED
      BY <1>1, <2>1
  <1>5. QED
    BY <1>3, <1>4, Actors

\* One handler at a time: time is added once.
LEMMA SerialStep ==
  ASSUME IInv, IdleInv, TurnInv, AsleepInv, SerialInv, Next, ~mode.overlap
  PROVE  SerialInv'
  <1> SUFFICES ASSUME NEW c \in Cpus
               PROVE  /\ idle'[c].pc = "off" \/ freq'[c].pc = "off"
                      /\ my_map'[c].pts <= now'
                      /\ idle'[c].pc = "pts" => my_map'[c].pts <= idle'[c].cur_ts
                      /\ freq'[c].pc = "pts" =>
                           /\ my_map'[c].pts # 0 /\ my_map'[c].pts <= freq'[c].cur_ts
                           /\ freq'[c].cur_ts <= now'
                      /\ IdleTime(c)' + BusyTime(c)' + Owing(c)'
                           <= IF Stamp(c)' = 0 THEN 0 ELSE Stamp(c)' - 1
    BY DEF SerialInv
  <1> DEFINE T == IdleTime(c) + BusyTime(c)
             U == IdleTime(c)' + BusyTime(c)'
             Order == /\ idle'[c].pc = "off" \/ freq'[c].pc = "off"
                      /\ my_map'[c].pts <= now'
                      /\ idle'[c].pc = "pts" => my_map'[c].pts <= idle'[c].cur_ts
                      /\ freq'[c].pc = "pts" =>
                           /\ my_map'[c].pts # 0 /\ my_map'[c].pts <= freq'[c].cur_ts
                           /\ freq'[c].cur_ts <= now'
             Bound == U + Owing(c)' <= IF Stamp(c)' = 0 THEN 0 ELSE Stamp(c)' - 1
  <1> SUFFICES Order /\ Bound
    OBVIOUS
  <1>1. /\ idle[c].pc = "off" \/ freq[c].pc = "off"
        /\ my_map[c].pts <= now
        /\ idle[c].pc = "pts" => my_map[c].pts <= idle[c].cur_ts
        /\ freq[c].pc = "pts" => /\ my_map[c].pts # 0 /\ my_map[c].pts <= freq[c].cur_ts
                                 /\ freq[c].cur_ts <= now
        /\ T + Owing(c) <= IF Stamp(c) = 0 THEN 0 ELSE Stamp(c) - 1
    BY DEF SerialInv
  <1>2. /\ now \in Nat \ {0} /\ now < U64
        /\ my_map[c].cts \in Nat /\ my_map[c].pts \in Nat
        /\ idle[c].cur_ts \in Nat /\ idle[c].delta \in Nat
        /\ freq[c].cur_ts \in Nat /\ freq[c].delta \in Nat
    BY Numbers
  <1>3. /\ my_map[c].cts <= now
        /\ idle[c].pc \in {"pts", "pstate", "cstate", "stamp"} =>
             my_map[c].cts # 0 /\ idle[c].cur_ts = my_map[c].cts
    BY DEF IdleInv
  <1>4. /\ idle[c].pc # "off" => (asleep[c] <=> idle[c].state # EXITED)
        /\ idle[c].pc \notin {"off", "state"} => my_map[c].cstate = idle[c].state
        /\ idle[c].pc \in {"off", "state"} /\ my_map[c].cts = 0 => my_map[c].cstate # EXITED
        /\ idle[c].pc = "state" /\ my_map[c].cts # 0 /\ asleep[c] => my_map[c].cstate = EXITED
        /\ idle[c].pc = "state" /\ ~asleep[c] => my_map[c].cstate # EXITED
        /\ idle[c].pc \in {"pts", "pstate"} => idle[c].state # EXITED
    BY DEF TurnInv, AsleepInv
  <1>5. /\ T \in Nat /\ U \in Nat
        /\ \/ U <= T
           \/ (IdleCstate(c) \/ IdlePstate(c)) /\ U <= T + idle[c].delta
           \/ FreqPstate(c) /\ U <= T + freq[c].delta
    <2> DEFINE A == IdleTime(c)
               B == BusyTime(c)
               D == IdleTime(c)'
               E == BusyTime(c)'
    <2>1. /\ A \in Nat /\ B \in Nat /\ D \in Nat /\ E \in Nat
          /\ D <= A \/ (IdleCstate(c) /\ D <= A + idle[c].delta)
          /\ \/ E <= B
             \/ IdlePstate(c) /\ E <= B + idle[c].delta
             \/ FreqPstate(c) /\ E <= B + freq[c].delta
      BY TimesAfter
    <2>2. ~(IdleCstate(c) /\ (IdlePstate(c) \/ FreqPstate(c)))
      BY <1>1 DEF IdleCstate, IdlePstate, FreqPstate
    <2> HIDE DEF A, B, D, E
    <2>3. /\ A + B \in Nat /\ D + E \in Nat
          /\ D <= A /\ E <= B => D + E <= A + B
          /\ D <= A /\ E <= B + idle[c].delta => D + E <= A + B + idle[c].delta
          /\ D <= A + idle[c].delta /\ E <= B => D + E <= A + B + idle[c].delta
          /\ D <= A /\ E <= B + freq[c].delta => D + E <= A + B + freq[c].delta
      BY <1>2, <2>1, SMT
    <2>4. QED
      BY <2>1, <2>2, <2>3 DEF A, B, D, E
  <1>6. now' = now \/ now' = now + 1
    BY Actors
  <1> HIDE DEF T, U
  <1>a. Owing(c) \in Nat /\ Stamp(c) \in Nat
    BY <1>2, SMT DEF Owing, Stamp
  <1>b. ASSUME U <= T \/ U <= T + Owing(c), Owing(c)' = 0,
               Stamp(c)' \in Nat, Stamp(c) <= Stamp(c)'
        PROVE  Bound
    BY <1>1, <1>5, <1>a, <1>b, SMT
  <1>c. ASSUME U <= T, Owing(c) = 0, Stamp(c) # 0, Owing(c)' = Stamp(c)' - Stamp(c),
               Stamp(c)' \in Nat, Stamp(c) <= Stamp(c)'
        PROVE  Bound
    BY <1>1, <1>5, <1>a, <1>c, SMT
  <1>d. ASSUME U <= T, Owing(c)' = Owing(c), Stamp(c)' = Stamp(c)
        PROVE  Bound
    BY <1>1, <1>5, <1>a, <1>d, SMT
  <1>e. Stamp(c) <= Stamp(c) /\ now <= now
    BY <1>2, <1>a, SMT
  <1>7. CASE Same(c)
    <2>1. my_map'[c] = my_map[c] /\ idle'[c] = idle[c] /\ freq'[c] = freq[c]
      BY <1>7 DEF Same
    <2>2. ~IdleCstate(c) /\ ~IdlePstate(c) /\ ~FreqPstate(c)
      <3>1. (IdleCstate(c) \/ IdlePstate(c) => Idle(c)) /\ (FreqPstate(c) => Freq(c))
        BY DEF Idle, Freq
      <3>2. QED
        BY <2>1, <3>1, IdleAfter, FreqAfter
    <2>3. Owing(c)' = Owing(c) /\ Stamp(c)' = Stamp(c)
      BY <2>1 DEF Owing, Stamp, Busy
    <2>4. Bound
      BY <1>5, <1>d, <2>2, <2>3
    <2>5. /\ my_map[c].pts <= now'
          /\ freq[c].pc = "pts" => freq[c].cur_ts <= now'
      BY <1>1, <1>2, <1>6, SMT
    <2>6. QED
      BY <1>1, <2>1, <2>4, <2>5
  <1>8. CASE Idle(c) /\ now' = now
    <2>1. CASE IdleEvent(c)
      <3>1. /\ idle[c].pc = "off" /\ (mode.overlap \/ freq[c].pc = "off")
            /\ asleep'[c] = ~asleep[c]
            /\ idle'[c].pc = "state" /\ (idle'[c].state = EXITED <=> asleep[c])
            /\ my_map'[c] = my_map[c]
        BY <1>8, <2>1, IdleAfter
      <3>2. freq'[c] = freq[c] /\ now' = now
        BY <1>8, IdleAfter
      <3>3. U <= T
        BY <1>1, <1>5, <3>1 DEF IdleCstate, IdlePstate, FreqPstate
      <3>4. Owing(c)' = 0 /\ Stamp(c)' = Stamp(c)
        BY <1>1, <1>3, <1>4, <3>1, <3>2 DEF Owing, Stamp, Busy
      <3>5. Order
        BY <1>1, <1>e, <3>1, <3>2
      <3>6. QED
        BY <1>a, <1>b, <1>e, <3>3, <3>4, <3>5
    <2>2. CASE IdleState(c)
      <3>1. /\ idle[c].pc = "state" /\ idle'[c].pc = "clock" /\ idle'[c].state = idle[c].state
            /\ my_map'[c].cstate = idle[c].state
            /\ my_map'[c].cts = my_map[c].cts /\ my_map'[c].pts = my_map[c].pts
        BY <1>8, <2>2, IdleAfter
      <3>2. freq'[c] = freq[c] /\ now' = now
        BY <1>8, IdleAfter
      <3>3. U <= T
        BY <1>1, <1>5, <3>1 DEF IdleCstate, IdlePstate, FreqPstate
      <3>4. Owing(c)' = 0 /\ Stamp(c)' = Stamp(c)
        BY <1>1, <1>3, <1>4, <3>1, <3>2 DEF Owing, Stamp, Busy
      <3>5. Order
        BY <1>1, <1>e, <3>1, <3>2
      <3>6. QED
        BY <1>a, <1>b, <1>e, <3>3, <3>4, <3>5
    <2>3. CASE IdleFirst(c)
      <3>1. /\ idle[c].pc = "clock" /\ my_map[c].cts = 0 /\ idle'[c].pc = "off"
            /\ my_map'[c].cts = now
            /\ my_map'[c].pts = my_map[c].pts /\ my_map'[c].cstate = my_map[c].cstate
        BY <1>8, <2>3, IdleAfter
      <3>2. freq'[c] = freq[c] /\ now' = now
        BY <1>8, IdleAfter
      <3>3. U <= T
        BY <1>1, <1>5, <3>1 DEF IdleCstate, IdlePstate, FreqPstate
      <3>4. Owing(c)' = 0 /\ Stamp(c) = 0 /\ Stamp(c)' \in {now, my_map[c].pts}
        BY <1>1, <3>1, <3>2 DEF Owing, Stamp, Busy
      <3>5. Order
        BY <1>1, <1>e, <3>1, <3>2
      <3>6. Stamp(c)' \in Nat /\ Stamp(c) <= Stamp(c)'
        BY <1>2, <3>4, SMT
      <3>7. QED
        BY <1>b, <3>3, <3>4, <3>5, <3>6
    <2>4. CASE IdleClock(c)
      <3>1. /\ idle[c].pc = "clock" /\ my_map[c].cts # 0
            /\ idle'[c].pc = IF idle[c].state = EXITED THEN "cstate" ELSE "pts"
            /\ idle'[c].cur_ts = now /\ idle'[c].delta = Minus(now, my_map[c].cts)
            /\ idle'[c].state = idle[c].state /\ my_map'[c].cts = now
            /\ my_map'[c].pts = my_map[c].pts /\ my_map'[c].cstate = my_map[c].cstate
        BY <1>8, <2>4, IdleAfter
      <3>2. freq'[c] = freq[c] /\ now' = now
        BY <1>8, IdleAfter
      <3>3. U <= T
        BY <1>1, <1>5, <3>1 DEF IdleCstate, IdlePstate, FreqPstate
      <3>a. my_map[c].cts <= now /\ now < U64
        BY <1>2, <1>3
      <3>4. idle'[c].delta = now - my_map[c].cts
        BY <1>2, <3>1, <3>a, MinusFacts
      <3>5. Order
        BY <1>1, <1>e, <3>1, <3>2
      <3>6. CASE idle[c].state = EXITED
        <4>1. /\ Owing(c) = 0 /\ Owing(c)' = now - my_map[c].cts
              /\ Stamp(c) = my_map[c].cts /\ Stamp(c)' = now
          BY <1>1, <3>1, <3>2, <3>4, <3>6 DEF Owing, Stamp, Busy
        <4>2. QED
          BY <1>2, <1>c, <3>1, <3>3, <3>5, <3>a, <4>1
      <3>7. CASE idle[c].state # EXITED
        <4>1. /\ Owing(c)' = 0
              /\ Stamp(c)' = Stamp(c) \/ (Stamp(c) = my_map[c].cts /\ Stamp(c)' = now)
          BY <1>1, <3>1, <3>2, <3>7 DEF Owing, Stamp, Busy
        <4>2. Stamp(c)' \in Nat /\ Stamp(c) <= Stamp(c)'
          BY <1>2, <1>a, <1>e, <3>a, <4>1
        <4>3. QED
          BY <1>b, <3>3, <3>5, <4>1, <4>2
      <3>8. QED
        BY <3>6, <3>7
    <2>5. CASE IdleNoPts(c)
      <3>1. /\ idle[c].pc = "pts" /\ my_map[c].pts = 0
            /\ idle'[c].pc = "off" /\ my_map'[c] = my_map[c]
        BY <1>8, <2>5, IdleAfter
      <3>2. freq'[c] = freq[c] /\ now' = now
        BY <1>8, IdleAfter
      <3>3. U <= T
        BY <1>1, <1>5, <3>1 DEF IdleCstate, IdlePstate, FreqPstate
      <3>4. Owing(c)' = 0 /\ Stamp(c)' = Stamp(c)
        BY <1>1, <1>3, <1>4, <3>1, <3>2 DEF Owing, Stamp, Busy
      <3>5. Order
        BY <1>1, <1>e, <3>1, <3>2
      <3>6. QED
        BY <1>a, <1>b, <1>e, <3>3, <3>4, <3>5
    <2>6. CASE IdleInterval(c)
      <3>1. /\ idle[c].pc = "pts" /\ my_map[c].pts # 0 /\ idle'[c].pc = "pstate"
            /\ idle'[c].delta = Minus(idle[c].cur_ts, my_map[c].pts)
            /\ idle'[c].cur_ts = idle[c].cur_ts /\ idle'[c].state = idle[c].state
            /\ my_map'[c] = my_map[c]
        BY <1>8, <2>6, IdleAfter
      <3>2. freq'[c] = freq[c] /\ now' = now
        BY <1>8, IdleAfter
      <3>3. U <= T
        BY <1>1, <1>5, <3>1 DEF IdleCstate, IdlePstate, FreqPstate
      <3>a. my_map[c].pts <= idle[c].cur_ts /\ idle[c].cur_ts < U64
        <4>1. my_map[c].pts <= idle[c].cur_ts /\ idle[c].cur_ts <= now
          BY <1>1, <1>3, <3>1
        <4>2. U64 \in Nat
          BY CpuAssumption
        <4>3. QED
          BY <1>2, <4>1, <4>2, SMT
      <3>4. idle'[c].delta = idle[c].cur_ts - my_map[c].pts
        BY <1>2, <3>1, <3>a, MinusFacts
      <3>5. Order
        BY <1>1, <1>e, <3>1, <3>2
      <3>6. /\ Owing(c) = 0 /\ Owing(c)' = idle[c].cur_ts - my_map[c].pts
            /\ Stamp(c) = my_map[c].pts /\ Stamp(c)' = idle[c].cur_ts
        BY <1>1, <1>3, <3>1, <3>2, <3>4 DEF Owing, Stamp, Busy
      <3>7. QED
        BY <1>2, <1>c, <3>1, <3>3, <3>5, <3>6, <3>a
    <2>7. CASE IdlePstate(c)
      <3>1. /\ idle[c].pc = "pstate" /\ my_map'[c] = my_map[c]
            /\ \/ idle'[c].pc = "off"
               \/ /\ idle'[c].pc = "stamp" /\ idle'[c].cur_ts = idle[c].cur_ts
                  /\ idle'[c].state = idle[c].state
        BY <1>8, <2>7, IdleAfter
      <3>2. freq'[c] = freq[c] /\ now' = now
        BY <1>8, IdleAfter
      <3>3. U <= T + idle[c].delta
        BY <1>1, <1>2, <1>5, <3>1, SMTT(30) DEF IdleCstate, IdlePstate, FreqPstate
      <3>4. Owing(c) = idle[c].delta /\ Owing(c)' = 0 /\ Stamp(c)' = Stamp(c)
        BY <1>1, <1>3, <1>4, <3>1, <3>2 DEF Owing, Stamp, Busy
      <3>5. Order
        BY <1>1, <1>e, <3>1, <3>2
      <3>6. QED
        BY <1>a, <1>b, <1>e, <3>3, <3>4, <3>5
    <2>8. CASE IdleCstate(c)
      <3>1. /\ idle[c].pc = "cstate" /\ my_map'[c] = my_map[c] /\ idle'[c].pc = "stamp"
            /\ idle'[c].cur_ts = idle[c].cur_ts /\ idle'[c].state = idle[c].state
        BY <1>8, <2>8, IdleAfter
      <3>2. freq'[c] = freq[c] /\ now' = now
        BY <1>8, IdleAfter
      <3>3. U <= T + idle[c].delta
        BY <1>1, <1>2, <1>5, <3>1, SMTT(30) DEF IdleCstate, IdlePstate, FreqPstate
      <3>4. Owing(c) = idle[c].delta /\ Owing(c)' = 0 /\ Stamp(c)' = Stamp(c)
        BY <1>1, <1>3, <1>4, <3>1, <3>2 DEF Owing, Stamp, Busy
      <3>5. Order
        BY <1>1, <1>e, <3>1, <3>2
      <3>6. QED
        BY <1>a, <1>b, <1>e, <3>3, <3>4, <3>5
    <2>9. CASE IdleStamp(c)
      <3>1. /\ idle[c].pc = "stamp" /\ idle'[c].pc = "off"
            /\ my_map'[c].pts = IF my_map[c].pts = 0 THEN 0 ELSE idle[c].cur_ts
            /\ my_map'[c].cts = my_map[c].cts /\ my_map'[c].cstate = my_map[c].cstate
        BY <1>8, <2>9, IdleAfter
      <3>2. freq'[c] = freq[c] /\ now' = now
        BY <1>8, IdleAfter
      <3>3. U <= T
        BY <1>1, <1>5, <3>1 DEF IdleCstate, IdlePstate, FreqPstate
      <3>4. Owing(c)' = 0 /\ Stamp(c)' = Stamp(c)
        BY <1>1, <1>3, <1>4, <3>1, <3>2 DEF Owing, Stamp, Busy
      <3>5. Order
        BY <1>1, <1>3, <1>e, <3>1, <3>2
      <3>6. QED
        BY <1>a, <1>b, <1>e, <3>3, <3>4, <3>5
    <2>10. QED
      BY <1>8, <2>1, <2>2, <2>3, <2>4, <2>5, <2>6, <2>7, <2>8, <2>9 DEF Idle
  <1>9. CASE Freq(c) /\ now' = now
    <2>1. CASE FreqEvent(c)
      <3>1. /\ freq[c].pc = "off" /\ (mode.overlap \/ idle[c].pc = "off")
            /\ freq'[c].pc = "state" /\ my_map'[c] = my_map[c]
        BY <1>9, <2>1, FreqAfter
      <3>2. idle'[c] = idle[c] /\ now' = now
        BY <1>9, FreqAfter
      <3>3. U <= T
        BY <1>1, <1>5, <3>1 DEF IdleCstate, IdlePstate, FreqPstate
      <3>4. Owing(c)' = 0 /\ Stamp(c)' = Stamp(c)
        BY <1>1, <1>3, <1>4, <3>1, <3>2 DEF Owing, Stamp, Busy
      <3>5. Order
        BY <1>1, <1>e, <3>1, <3>2
      <3>6. QED
        BY <1>a, <1>b, <1>e, <3>3, <3>4, <3>5
    <2>2. CASE FreqState(c)
      <3>1. /\ freq[c].pc = "state" /\ freq'[c].pc = "clock"
            /\ my_map'[c].cts = my_map[c].cts /\ my_map'[c].pts = my_map[c].pts
            /\ my_map'[c].cstate = my_map[c].cstate
        BY <1>9, <2>2, FreqAfter
      <3>2. idle'[c] = idle[c] /\ now' = now
        BY <1>9, FreqAfter
      <3>3. U <= T
        BY <1>1, <1>5, <3>1 DEF IdleCstate, IdlePstate, FreqPstate
      <3>4. Owing(c)' = 0 /\ Stamp(c)' = Stamp(c)
        BY <1>1, <1>3, <1>4, <3>1, <3>2 DEF Owing, Stamp, Busy
      <3>5. Order
        BY <1>1, <1>e, <3>1, <3>2
      <3>6. QED
        BY <1>a, <1>b, <1>e, <3>3, <3>4, <3>5
    <2>3. CASE FreqFirst(c)
      <3>1. /\ freq[c].pc = "clock" /\ my_map[c].pts = 0 /\ freq'[c].pc = "off"
            /\ my_map'[c].pts = now
            /\ my_map'[c].cts = my_map[c].cts /\ my_map'[c].cstate = my_map[c].cstate
        BY <1>9, <2>3, FreqAfter
      <3>2. idle'[c] = idle[c] /\ now' = now
        BY <1>9, FreqAfter
      <3>3. U <= T
        BY <1>1, <1>5, <3>1 DEF IdleCstate, IdlePstate, FreqPstate
      <3>4. /\ Owing(c)' = 0
            /\ Stamp(c)' = Stamp(c) \/ (Stamp(c) = my_map[c].cts /\ Stamp(c)' = now)
        BY <1>1, <3>1, <3>2 DEF Owing, Stamp, Busy
      <3>5. Order
        BY <1>1, <1>e, <3>1, <3>2
      <3>6. Stamp(c)' \in Nat /\ Stamp(c) <= Stamp(c)'
        BY <1>2, <1>3, <1>a, <1>e, <3>4
      <3>7. QED
        BY <1>b, <3>3, <3>4, <3>5, <3>6
    <2>4. CASE FreqClock(c)
      <3>1. /\ freq[c].pc = "clock" /\ my_map[c].pts # 0 /\ freq'[c].pc = "pts"
            /\ freq'[c].cur_ts = now /\ my_map'[c] = my_map[c]
        BY <1>9, <2>4, FreqAfter
      <3>2. idle'[c] = idle[c] /\ now' = now
        BY <1>9, FreqAfter
      <3>3. U <= T
        BY <1>1, <1>5, <3>1 DEF IdleCstate, IdlePstate, FreqPstate
      <3>4. Owing(c)' = 0 /\ Stamp(c)' = Stamp(c)
        BY <1>1, <1>3, <1>4, <3>1, <3>2 DEF Owing, Stamp, Busy
      <3>5. Order
        BY <1>1, <1>e, <3>1, <3>2
      <3>6. QED
        BY <1>a, <1>b, <1>e, <3>3, <3>4, <3>5
    <2>5. CASE FreqInterval(c)
      <3>1. /\ freq[c].pc = "pts" /\ freq'[c].pc = "pstate"
            /\ freq'[c].delta = Minus(freq[c].cur_ts, my_map[c].pts)
            /\ my_map'[c].pts = freq[c].cur_ts
            /\ my_map'[c].cts = my_map[c].cts /\ my_map'[c].cstate = my_map[c].cstate
        BY <1>9, <2>5, FreqAfter
      <3>2. idle'[c] = idle[c] /\ now' = now
        BY <1>9, FreqAfter
      <3>3. U <= T
        BY <1>1, <1>5, <3>1 DEF IdleCstate, IdlePstate, FreqPstate
      <3>a. my_map[c].pts <= freq[c].cur_ts /\ freq[c].cur_ts < U64
        <4>1. my_map[c].pts <= freq[c].cur_ts /\ freq[c].cur_ts <= now
          BY <1>1, <1>3, <3>1
        <4>2. U64 \in Nat
          BY CpuAssumption
        <4>3. QED
          BY <1>2, <4>1, <4>2, SMT
      <3>4. freq'[c].delta = freq[c].cur_ts - my_map[c].pts
        BY <1>2, <3>1, <3>a, MinusFacts
      <3>b. freq[c].cur_ts # 0
        BY <1>1, <1>2, <3>1, <3>a, SMT
      <3>5. Order
        BY <1>1, <1>e, <3>1, <3>2
      <3>6. CASE my_map[c].cstate = EXITED
        <4>1. /\ Owing(c) = 0 /\ Owing(c)' = freq[c].cur_ts - my_map[c].pts
              /\ Stamp(c) = my_map[c].pts /\ Stamp(c)' = freq[c].cur_ts
          BY <1>1, <3>1, <3>2, <3>4, <3>6, <3>b DEF Owing, Stamp, Busy
        <4>2. QED
          BY <1>1, <1>2, <1>c, <3>1, <3>3, <3>5, <3>a, <4>1
      <3>7. CASE my_map[c].cstate # EXITED
        <4>1. Owing(c)' = 0 /\ Stamp(c)' = Stamp(c)
          BY <1>1, <3>1, <3>2, <3>7 DEF Owing, Stamp, Busy
        <4>2. QED
          BY <1>a, <1>b, <1>e, <3>3, <3>5, <4>1
      <3>8. QED
        BY <3>6, <3>7
    <2>6. CASE FreqBailsOut(c)
      <3>1. freq[c].pc = "pstate" /\ freq'[c].pc = "off" /\ my_map'[c] = my_map[c]
        BY <1>9, <2>6, FreqAfter
      <3>2. idle'[c] = idle[c] /\ now' = now
        BY <1>9, FreqAfter
      <3>a. U = T
        BY <2>6 DEF FreqBailsOut, maps, IdleTime, BusyTime, T, U
      <3>3. U <= T
        BY <1>5, <3>a, SMTT(30)
      <3>4. Owing(c)' = 0 /\ Stamp(c)' = Stamp(c)
        BY <1>1, <1>3, <1>4, <3>1, <3>2 DEF Owing, Stamp, Busy
      <3>5. Order
        BY <1>1, <1>e, <3>1, <3>2
      <3>6. QED
        BY <1>a, <1>b, <1>e, <3>3, <3>4, <3>5
    <2>7. CASE FreqPstate(c)
      <3>1. /\ freq[c].pc = "pstate" /\ freq'[c].pc = "off" /\ my_map'[c] = my_map[c]
            /\ my_map[c].cstate = EXITED
        BY <1>9, <2>7, FreqAfter
      <3>2. idle'[c] = idle[c] /\ now' = now
        BY <1>9, FreqAfter
      <3>3. U <= T + freq[c].delta
        BY <1>1, <1>2, <1>5, <3>1, SMTT(30) DEF IdleCstate, IdlePstate, FreqPstate
      <3>4. Owing(c) = freq[c].delta /\ Owing(c)' = 0 /\ Stamp(c)' = Stamp(c)
        BY <1>1, <1>3, <1>4, <3>1, <3>2 DEF Owing, Stamp, Busy
      <3>5. Order
        BY <1>1, <1>e, <3>1, <3>2
      <3>6. QED
        BY <1>a, <1>b, <1>e, <3>3, <3>4, <3>5
    <2>8. QED
      BY <1>9, <2>1, <2>2, <2>3, <2>4, <2>5, <2>6, <2>7 DEF Freq
  <1>10. QED
    BY <1>7, <1>8, <1>9, Actors

\* What both handlers have added, or are about to add, fits the time that has passed.
LEMMA SerialBound ==
  ASSUME IInv, IdleInv, SerialInv, NEW c \in Cpus,
         IdleTime(c) \in Nat, BusyTime(c) \in Nat
  PROVE  /\ Owing(c) \in Nat
         /\ IdleTime(c) + BusyTime(c) + Owing(c) <= now - 1
  <1> DEFINE A == IdleTime(c)
             B == BusyTime(c)
  <1>1. /\ my_map[c].pts <= now /\ my_map[c].cts <= now
        /\ A + B + Owing(c) <= IF Stamp(c) = 0 THEN 0 ELSE Stamp(c) - 1
        /\ A \in Nat /\ B \in Nat
    BY DEF SerialInv, IdleInv
  <1>2. /\ now \in Nat \ {0} /\ my_map[c].cts \in Nat /\ my_map[c].pts \in Nat
        /\ idle[c].delta \in Nat /\ freq[c].delta \in Nat
    BY Numbers
  <1>3. Owing(c) \in Nat
    BY <1>2 DEF Owing
  <1>4. Stamp(c) \in Nat /\ Stamp(c) <= now
    BY <1>1, <1>2 DEF Stamp
  <1> HIDE DEF A, B
  <1>5. A + B + Owing(c) <= now - 1
    BY <1>1, <1>2, <1>3, <1>4, SMT
  <1>6. QED
    BY <1>3, <1>5 DEF A, B

\* An addition that fits does not wrap around.
LEMMA AddGrows ==
  ASSUME NEW w \in Nat, NEW c \in 0..(MAX_CPU - 1), NEW key \in Row(c, w),
         NEW delta \in Words, NEW durations \in [0..(MAX_CPU * w - 1) -> Words],
         Total(durations, Row(c, w)) + delta < U64
  PROVE  \A k \in 0..(MAX_CPU * w - 1) : durations[k] <= Add(durations, key, delta)[k]
  <1> DEFINE S == 0..(MAX_CPU * w - 1)
             K == Row(c, w)
             e == Add(durations, key, delta)
  <1>1. IsFiniteSet(K)
    <2>1. c * w \in Int /\ c * w + w - 1 \in Int /\ c \in Nat
      BY CpuAssumption, SMT
    <2>2. QED
      BY <2>1, FS_Interval DEF Row
  <1>2. K \subseteq S
    BY RowKeys
  <1>3. Words \subseteq Nat /\ delta \in Nat /\ U64 \in Nat \ {0}
    BY CpuAssumption, SMT DEF Words
  <1>4. DOMAIN durations = S /\ durations \in [S -> Words]
    OBVIOUS
  <1>5. e = [durations EXCEPT ![key] = (@ + delta) % U64]
    BY <1>2, <1>4 DEF Add
  <1> DEFINE T == Total(durations, K)
             R == Total(durations, K \ {key})
  <1>6. T = durations[key] + R /\ R \in Nat /\ durations[key] \in Nat
    <2>1. \A x \in K : durations[x] \in Nat
      <3> HIDE DEF K, S
      <3>1. QED
        BY <1>2, <1>3, <1>4
    <2>2. K \in SUBSET K /\ K \ {key} \in SUBSET K /\ key \in K
      OBVIOUS
    <2> HIDE DEF K
    <2>3. R \in Nat
      BY <1>1, <2>1, <2>2, TotalType
    <2>a. \A t \in SUBSET K : \A x \in t :
            Total(durations, t) = durations[x] + Total(durations, t \ {x})
      BY <1>1, <2>1, TotalWithout
    <2>4. T = durations[key] + R
      BY <2>2, <2>a
    <2>5. QED
      BY <2>1, <2>2, <2>3, <2>4
  <1>7. T + delta < U64
    OBVIOUS
  <1> HIDE DEF T, R, K, S
  <1>8. durations[key] + delta \in Nat /\ durations[key] + delta < U64
    BY <1>3, <1>6, <1>7, SMTT(30)
  <1>9. (durations[key] + delta) % U64 = durations[key] + delta
    <2> DEFINE y == durations[key] + delta
    <2>1. y \in Nat /\ y < U64
      BY <1>8
    <2> HIDE DEF y
    <2>2. y % U64 = y
      BY <1>3, <2>1, SMT
    <2>3. QED
      BY <2>2 DEF y
  <1>10. durations[key] <= durations[key] + delta /\ \A x \in Nat : x <= x
    BY <1>3, <1>6, SMT
  <1>11. ASSUME NEW k \in S PROVE durations[k] <= e[k]
    <2>1. durations[k] \in Nat
      BY <1>3, <1>4
    <2>2. k = key => e[k] = (durations[key] + delta) % U64
      BY <1>4, <1>5
    <2>3. k # key => e[k] = durations[k]
      BY <1>4, <1>5
    <2>4. QED
      BY <1>9, <1>10, <2>1, <2>2, <2>3
  <1>12. QED
    BY <1>11 DEF e, S

\* So a duration never gets smaller.
LEMMA DurationsGrow ==
  ASSUME IInv, IdleInv, SerialInv, Next
  PROVE  /\ \A k \in CKeys : cstate_duration[k] <= cstate_duration'[k]
         /\ \A k \in PKeys : pstate_duration[k] <= pstate_duration'[k]
  <1> DEFINE C == MAX_CSTATE_ENTRIES
             P == MAX_PSTATE_ENTRIES
             COK == \A k \in CKeys : cstate_duration[k] <= cstate_duration'[k]
             POK == \A k \in PKeys : pstate_duration[k] <= pstate_duration'[k]
  <1>a. C \in Nat /\ P \in Nat /\ Cpus \subseteq 0..(MAX_CPU - 1) /\ Words \subseteq Nat
    BY CpuAssumption, SMT DEF Words
  <1>b. /\ cstate_duration \in [0..(MAX_CPU * C - 1) -> Words]
        /\ pstate_duration \in [0..(MAX_CPU * P - 1) -> Words]
        /\ HandlerInv /\ WakeInv
    BY StateFacts DEF CKeys, PKeys, IInv
  <1>e. \A x \in Nat : x <= x
    BY SMT
  <1>s. cstate_duration' = cstate_duration => COK
    BY <1>a, <1>b, <1>e DEF CKeys
  <1>t. pstate_duration' = pstate_duration => POK
    BY <1>a, <1>b, <1>e DEF PKeys
  <1> HIDE DEF COK, POK
  <1>n. ASSUME NEW c \in Cpus
        PROVE  /\ IdleTime(c) \in Nat /\ BusyTime(c) \in Nat /\ Owing(c) \in Nat
               /\ IdleTime(c) + Owing(c) < U64 /\ BusyTime(c) + Owing(c) < U64
    <2> DEFINE A == IdleTime(c)
               B == BusyTime(c)
               O == Owing(c)
    <2>1. A \in Nat /\ B \in Nat
      BY TimesAfter
    <2>2. O \in Nat /\ A + B + O <= now - 1
      BY <2>1, SerialBound
    <2>3. now \in Nat /\ now < U64 /\ U64 \in Nat
      BY Numbers, CpuAssumption
    <2> HIDE DEF A, B, O
    <2>4. A + O < U64 /\ B + O < U64
      BY <2>1, <2>2, <2>3, SMT
    <2>5. QED
      BY <2>1, <2>2, <2>4 DEF A, B, O
  <1>p. ASSUME NEW c \in Cpus, NEW n \in Nat, n < P, NEW delta \in Words,
               BusyTime(c) + delta < U64,
               pstate_duration' = Add(pstate_duration, PKey(c, n), delta)
        PROVE  POK
    <2>1. c \in 0..(MAX_CPU - 1) /\ n \in 0..(P - 1)
      BY <1>a, <1>p, SMT
    <2>2. PKey(c, n) \in Row(c, P)
      BY <1>a, <2>1, CpuAssumption, SMT DEF PKey, Row
    <2>3. Total(pstate_duration, Row(c, P)) + delta < U64
      BY <1>p DEF BusyTime
    <2>4. \A k \in 0..(MAX_CPU * P - 1) :
            pstate_duration[k] <= Add(pstate_duration, PKey(c, n), delta)[k]
      BY <1>a, <1>b, <2>1, <2>2, <2>3, AddGrows
    <2>5. QED
      BY <1>p, <2>4 DEF POK, PKeys
  <1>2. ASSUME NEW c \in Cpus, IdlePstate(c) PROVE COK /\ POK
    <2>1. FindIdx(my_map[c].pstate) \in Nat /\ idle[c].delta \in Words
      BY <1>b, FindIdxFacts DEF HandlerInv, IdleLocals
    <2>2. cstate_duration' = cstate_duration
      BY <1>2 DEF IdlePstate
    <2>3. BusyTime(c) + idle[c].delta < U64
      <3>1. Owing(c) = idle[c].delta
        BY <1>2 DEF IdlePstate, Owing
      <3>2. QED
        BY <1>n, <3>1
    <2>4. CASE /\ FindIdx(my_map[c].pstate) < P
               /\ pstate_duration' = Add(pstate_duration, PKey(c, FindIdx(my_map[c].pstate)),
                                         idle[c].delta)
      BY <1>p, <1>s, <2>1, <2>2, <2>3, <2>4
    <2>5. QED
      BY <1>2, <1>s, <1>t, <2>2, <2>4 DEF IdlePstate
  <1>3. ASSUME NEW c \in Cpus, FreqPstate(c) PROVE COK /\ POK
    <2>1. FindIdx(my_map[c].pstate) \in Nat /\ freq[c].delta \in Words
      BY <1>b, FindIdxFacts DEF HandlerInv, FreqLocals
    <2>2. /\ cstate_duration' = cstate_duration /\ FindIdx(my_map[c].pstate) < P
          /\ pstate_duration' = Add(pstate_duration, PKey(c, FindIdx(my_map[c].pstate)),
                                    freq[c].delta)
      BY <1>3 DEF FreqPstate
    <2>3. BusyTime(c) + freq[c].delta < U64
      <3>1. idle[c].pc = "off" /\ freq[c].pc = "pstate" /\ my_map[c].cstate = EXITED
        BY <1>3 DEF FreqPstate, SerialInv
      <3>2. Owing(c) = freq[c].delta
        BY <3>1 DEF Owing
      <3>3. QED
        BY <1>n, <3>2
    <2>4. QED
      BY <1>p, <1>s, <2>1, <2>2, <2>3
  <1>4. ASSUME NEW c \in Cpus, IdleCstate(c) PROVE COK /\ POK
    <2> DEFINE t == idle[c].prev_state
               key == CKey(c, t)
    <2>1. t \in Table /\ idle[c].delta \in Words
      BY <1>4, <1>b DEF IdleCstate, HandlerInv, WakeInv, IdleLocals
    <2>2. key = c * C + t /\ t \in 0..(C - 1) /\ c \in 0..(MAX_CPU - 1)
      BY <1>a, <2>1, CKeyFacts DEF Table
    <2>3. /\ cstate_duration' = Add(cstate_duration, key, idle[c].delta)
          /\ pstate_duration' = pstate_duration
      BY <1>4 DEF IdleCstate
    <2> HIDE DEF key, t
    <2>4. key \in Row(c, C)
      BY <1>a, <2>2, CpuAssumption, SMT DEF Row
    <2>5. Total(cstate_duration, Row(c, C)) + idle[c].delta < U64
      <3>1. Owing(c) = idle[c].delta
        BY <1>4 DEF IdleCstate, Owing
      <3>2. QED
        BY <1>n, <3>1 DEF IdleTime
    <2>6. \A k \in 0..(MAX_CPU * C - 1) :
            cstate_duration[k] <= Add(cstate_duration, key, idle[c].delta)[k]
      BY <1>a, <1>b, <2>1, <2>2, <2>4, <2>5, AddGrows
    <2>7. QED
      BY <1>t, <2>3, <2>6 DEF COK, CKeys
  <1>5. \/ UNCHANGED <<cstate_duration, pstate_duration>>
        \/ \E c \in Cpus : IdlePstate(c) \/ FreqPstate(c) \/ IdleCstate(c)
    BY DEF Next, Tick, Update, Idle, IdleEvent, IdleState, IdleFirst, IdleClock, IdleNoPts,
           IdleInterval, IdleStamp, Freq, FreqEvent, FreqState, FreqFirst, FreqClock,
           FreqInterval, FreqBailsOut, maps
  <1>6. COK /\ POK
    BY <1>2, <1>3, <1>4, <1>5, <1>s, <1>t
  <1>7. QED
    BY <1>6 DEF COK, POK

\* What has been copied stays below the entry, which only grows.
LEMMA CopyStep ==
  ASSUME IInv, IdleInv, SerialInv, CopyInv, Next
  PROVE  CopyInv'
  <1>1. /\ stat_data \in [1..NrEntries -> Words] /\ Words \subseteq Nat
        /\ cstate_duration \in [CKeys -> Words] /\ pstate_duration \in [PKeys -> Words]
    BY CpuAssumption, SMT DEF IInv, TypeOK, Words
  <1>2. /\ cstate_duration' \in [CKeys -> Words] /\ pstate_duration' \in [PKeys -> Words]
    <2>1. TypeOK'
      BY IInvStep DEF IInv
    <2>2. QED
      BY <2>1 DEF TypeOK, Words
  <1>3. ASSUME NEW n \in 1..NrEntries
        PROVE  /\ Lookup(Entry(n)) \in Nat /\ Lookup(Entry(n))' \in Nat
               /\ Lookup(Entry(n)) <= Lookup(Entry(n))'
    <2>0. "c" # "p"
      OBVIOUS
    <2>1. CASE Entry(n)[1] = "c" /\ Entry(n)[2] \in CKeys
      <3>1. /\ Lookup(Entry(n)) = cstate_duration[Entry(n)[2]]
            /\ Lookup(Entry(n))' = cstate_duration'[Entry(n)[2]]
        BY <2>1 DEF Lookup
      <3>2. QED
        BY <1>1, <1>2, <2>1, <3>1, DurationsGrow
    <2>2. CASE Entry(n)[1] = "p" /\ Entry(n)[2] \in PKeys
      <3>1. /\ Lookup(Entry(n)) = pstate_duration[Entry(n)[2]]
            /\ Lookup(Entry(n))' = pstate_duration'[Entry(n)[2]]
        BY <2>0, <2>2 DEF Lookup
      <3>2. QED
        BY <1>1, <1>2, <2>2, <3>1, DurationsGrow
    <2>3. QED
      BY <2>1, <2>2, EntryFacts
  <1>4. ASSUME NEW n \in 1..NrEntries PROVE stat_data'[n] <= Lookup(Entry(n))'
    <2>1. stat_data[n] \in Nat /\ stat_data[n] <= Lookup(Entry(n))
      BY <1>1 DEF CopyInv
    <2>2. stat_data'[n] = stat_data[n] \/ stat_data'[n] = Lookup(Entry(n))
      <3>1. CASE Update
        BY <1>1, <3>1 DEF Update
      <3>2. CASE ~Update
        <4>1. stat_data' = stat_data
          BY <3>2 DEF Next, Tick, Idle, IdleEvent, IdleState, IdleFirst, IdleClock, IdleNoPts,
                 IdleInterval, IdlePstate, IdleCstate, IdleStamp, Freq, FreqEvent, FreqState,
                 FreqFirst, FreqClock, FreqInterval, FreqBailsOut, FreqPstate, user
        <4>2. QED
          BY <4>1
      <3>3. QED
        BY <3>1, <3>2
    <2>3. \A x, y, z \in Nat : x <= y /\ y <= z => x <= z
      BY SMT
    <2>4. QED
      BY <1>3, <2>1, <2>2, <2>3
  <1>5. QED
    BY <1>4 DEF CopyInv

\* At the start there is no time to account for.
LEMMA RowTotals ==
  ASSUME NEW w \in Nat, NEW c \in 0..(MAX_CPU - 1)
  PROVE  /\ IsFiniteSet(Row(c, w)) /\ Row(c, w) \subseteq 0..(MAX_CPU * w - 1)
         /\ \A d : (\A k \in Row(c, w) : d[k] = 0) => Total(d, Row(c, w)) = 0
  <1>1. IsFiniteSet(Row(c, w))
    <2>1. c * w \in Int /\ c * w + w - 1 \in Int /\ c \in Nat
      BY CpuAssumption, SMT
    <2>2. QED
      BY <2>1, FS_Interval DEF Row
  <1>2. Row(c, w) \subseteq 0..(MAX_CPU * w - 1)
    BY RowKeys
  <1> DEFINE K == Row(c, w)
  <1> HIDE DEF K
  <1>3. ASSUME NEW d, \A k \in K : d[k] = 0 PROVE Total(d, K) = 0
    <2>1. IsFiniteSet(K)
      BY <1>1 DEF K
    <2>2. QED
      BY <1>3, <2>1, TotalZero
  <1>4. QED
    BY <1>1, <1>2, <1>3 DEF K

\* So the invariant of time holds.
LEMMA TimeInit == Init => IInv /\ TimeInv
  <1> SUFFICES ASSUME Init PROVE TimeInv
    BY IInvInit
  <1>1. MAX_CSTATE_ENTRIES \in Nat /\ MAX_PSTATE_ENTRIES \in Nat
    BY CpuAssumption
  <1>2. EXITED # 0 /\ Cpus \subseteq 0..(MAX_CPU - 1)
    BY Facts
  <1>3. \A c \in Cpus :
          /\ my_map[c].cts = 0 /\ my_map[c].pts = 0 /\ my_map[c].cstate = 0
          /\ idle[c].pc = "off" /\ freq[c].pc = "off" /\ now = 1
    BY DEF Init, Off
  <1>4. ASSUME NEW c \in Cpus PROVE IdleTime(c) = 0 /\ BusyTime(c) = 0
    <2>1. \A k \in Row(c, MAX_CSTATE_ENTRIES) : cstate_duration[k] = 0
      BY <1>1, <1>2, RowTotals DEF Init, CKeys
    <2>2. \A k \in Row(c, MAX_PSTATE_ENTRIES) : pstate_duration[k] = 0
      BY <1>1, <1>2, RowTotals DEF Init, PKeys
    <2>3. QED
      BY <1>1, <1>2, <2>1, <2>2, RowTotals DEF IdleTime, BusyTime
  <1>5. /\ 0 + 0 <= 0 /\ 0 + 0 + 0 <= 0 /\ 0 <= 1 /\ 0 <= 0
    BY SMT
  <1>6. IdleInv
    BY <1>3, <1>4, <1>5 DEF IdleInv, Pending
  <1>7. TurnInv /\ AsleepInv
    <2>1. \A c \in Cpus : /\ my_map[c].cstate # EXITED
                          /\ idle[c].pc = "off" /\ my_map[c].cts = 0
      BY <1>2, <1>3
    <2>2. "off" \notin {"pts", "pstate"} /\ "off" # "state" /\ "off" \in {"off", "state"}
      OBVIOUS
    <2>3. QED
      BY <2>1, <2>2 DEF TurnInv, AsleepInv
  <1>8. SerialInv
    <2>1. ASSUME NEW c \in Cpus PROVE Owing(c) = 0 /\ Stamp(c) = 0
      BY <1>2, <1>3 DEF Owing, Stamp, Busy
    <2>2. QED
      BY <1>3, <1>4, <1>5, <2>1 DEF SerialInv
  <1>9. CopyInv
    <2> SUFFICES ASSUME NEW n \in 1..NrEntries PROVE stat_data[n] <= Lookup(Entry(n))
      BY DEF CopyInv
    <2>1. stat_data[n] = 0
      BY DEF Init
    <2>2. \/ Entry(n)[1] = "c" /\ Entry(n)[2] \in CKeys
          \/ Entry(n)[1] = "p" /\ Entry(n)[2] \in PKeys
      BY EntryFacts
    <2>3. "c" # "p"
      OBVIOUS
    <2>4. Lookup(Entry(n)) = 0
      BY <2>2, <2>3 DEF Lookup, Init
    <2>5. QED
      BY <1>5, <2>1, <2>4
  <1>10. QED
    BY <1>6, <1>7, <1>8, <1>9 DEF TimeInv

-----------------------------------------------------------------------------
(* What is printed *)

\* The quotient and the remainder of an index in a row.
LEMMA DivModOf ==
  ASSUME NEW c \in Nat, NEW w \in Nat \ {0}, NEW i \in 0..(w - 1)
  PROVE  (c * w + i) \div w = c /\ (c * w + i) % w = i
  <1> DEFINE a == c * w + i
             q == a \div w
             r == a % w
  <1>1. a \in Nat /\ i \in Nat
    BY SMT
  <1>2. q \in Nat /\ r \in 0..(w - 1) /\ a = w * q + r
    BY <1>1, DivMod
  <1>3. c * w \in Nat /\ q * w \in Nat /\ w * q = q * w /\ a = c * w + i
    BY <1>2, SMT
  <1> HIDE DEF a, q, r
  <1>4. ~(c < q)
    <2> SUFFICES ASSUME c < q PROVE FALSE
      OBVIOUS
    <2>1. c * w + i < q * w
      BY <1>2, RowFacts
    <2>2. QED
      BY <1>2, <1>3, <2>1, SMTT(30)
  <1>5. ~(q < c)
    <2> SUFFICES ASSUME q < c PROVE FALSE
      OBVIOUS
    <2>1. q * w + r < c * w
      BY <1>2, RowFacts
    <2>2. QED
      BY <1>1, <1>2, <1>3, <2>1, SMTT(30)
  <1>6. q = c
    BY <1>2, <1>4, <1>5, SMTT(30)
  <1>7. r = i
    BY <1>1, <1>2, <1>3, <1>6, SMTT(30)
  <1>8. QED
    BY <1>6, <1>7 DEF a, q, r

\* The entries of a CPU are read one after the other: its idle states, then its
\* operating points.
LEMMA EntryOf ==
  ASSUME NEW c \in 0..(MAX_CPU - 1),
         NEW i \in 0..(MAX_CSTATE_ENTRIES + MAX_PSTATE_ENTRIES - 1), NEW n,
         n = c * (MAX_CSTATE_ENTRIES + MAX_PSTATE_ENTRIES) + i + 1
  PROVE  /\ n \in 1..NrEntries
         /\ i < MAX_CSTATE_ENTRIES =>
              Lookup(Entry(n)) = cstate_duration[c * MAX_CSTATE_ENTRIES + i]
         /\ ~(i < MAX_CSTATE_ENTRIES) =>
              Lookup(Entry(n)) = pstate_duration[c * MAX_PSTATE_ENTRIES + i - MAX_CSTATE_ENTRIES]
  <1> DEFINE w == MAX_CSTATE_ENTRIES + MAX_PSTATE_ENTRIES
  <1>0. w \in Nat \ {0} /\ c \in Nat /\ w \in Nat
    BY CpuAssumption, SMTT(30)
  <1>1. w \in Nat \ {0} /\ c \in Nat /\ w \in Nat /\ i \in 0..(w - 1) /\ n = c * w + i + 1
    <2>1. i \in 0..(w - 1)
      BY CpuAssumption, SMT
    <2>2. n = c * w + i + 1
      OBVIOUS
    <2>3. QED
      BY <1>0, <2>1, <2>2
  <1>3. NrEntries = MAX_CPU * w
    BY DEF NrEntries
  <1> HIDE DEF w
  <1>2. c * w + i \in 0..(MAX_CPU * w - 1) /\ MAX_CPU \in Nat
    BY <1>1, KeyFacts, CpuAssumption
  <1>4. n - 1 = c * w + i /\ n \in 1..(MAX_CPU * w)
    <2> DEFINE a == c * w
               b == MAX_CPU * w
    <2>1. a \in Nat /\ b \in Nat /\ a + i \in 0..(b - 1) /\ n = a + i + 1 /\ i \in Int
      BY <1>1, <1>2, SMT
    <2> HIDE DEF a, b
    <2>2. n - 1 = a + i /\ n \in 1..b
      BY <2>1, SMT
    <2>3. QED
      BY <2>2 DEF a, b
  <1>5. (n - 1) \div w = c /\ (n - 1) % w = i
    <2>1. (c * w + i) \div w = c /\ (c * w + i) % w = i
      BY <1>1, DivModOf
    <2>2. QED
      BY <1>4, <2>1
  <1>6. Entry(n) = IF i < MAX_CSTATE_ENTRIES
                   THEN <<"c", c * MAX_CSTATE_ENTRIES + i>>
                   ELSE <<"p", c * MAX_PSTATE_ENTRIES + i - MAX_CSTATE_ENTRIES>>
    BY <1>5 DEF Entry, w
  <1>7. /\ i < MAX_CSTATE_ENTRIES => /\ Entry(n)[1] = "c"
                                     /\ Entry(n)[2] = c * MAX_CSTATE_ENTRIES + i
        /\ ~(i < MAX_CSTATE_ENTRIES) =>
             /\ Entry(n)[1] # "c"
             /\ Entry(n)[2] = c * MAX_PSTATE_ENTRIES + i - MAX_CSTATE_ENTRIES
    <2>2. "p" # "c"
      OBVIOUS
    <2>3. CASE i < MAX_CSTATE_ENTRIES
      <3>1. Entry(n) = <<"c", c * MAX_CSTATE_ENTRIES + i>>
        BY <1>6, <2>3
      <3>2. QED
        BY <2>3, <3>1, SMT
    <2>4. CASE ~(i < MAX_CSTATE_ENTRIES)
      <3>1. Entry(n) = <<"p", c * MAX_PSTATE_ENTRIES + i - MAX_CSTATE_ENTRIES>>
        BY <1>6, <2>4
      <3>2. QED
        BY <2>2, <2>4, <3>1, SMT
    <2>5. QED
      BY <2>3, <2>4
  <1>8. QED
    BY <1>3, <1>4, <1>7 DEF Lookup

\* The keys of one row of a map, and two rows of which one is below the other.
Interval(a, m) == a..(a + m - 1)
Beside(e, d, a, b, m) ==
  \A j \in 0..(m - 1) : /\ e[a + j] \in Nat /\ d[b + j] \in Nat
                        /\ e[a + j] <= d[b + j]

\* Two intervals of the same length are added up in parallel.
LEMMA IntervalBelow ==
  ASSUME NEW e, NEW d, NEW a \in Int, NEW b \in Int, NEW m \in Nat, Beside(e, d, a, b, m)
  PROVE  Total(e, Interval(a, m)) <= Total(d, Interval(b, m))
  <1> DEFINE K == Interval(a, m)
             L == Interval(b, m)
             f == [x \in K |-> b + (x - a)]
  <1>1. IsFiniteSet(K) /\ IsFiniteSet(L)
    <2>1. a + m - 1 \in Int /\ b + m - 1 \in Int
      BY SMT
    <2>2. QED
      BY <2>1, FS_Interval DEF Interval
  <1>2. ASSUME NEW x \in K
        PROVE  /\ x \in Int /\ x - a \in 0..(m - 1) /\ x = a + (x - a)
               /\ b + (x - a) \in L
    BY SMT DEF Interval
  <1>3. ASSUME NEW z \in L
        PROVE  /\ z \in Int /\ z - b \in 0..(m - 1) /\ z = b + (z - b)
               /\ a + (z - b) \in K /\ b + ((a + (z - b)) - a) = z
    BY SMT DEF Interval
  <1>4. \A x \in K : f[x] = b + (x - a)
    OBVIOUS
  <1> HIDE DEF K, L, f
  <1>5. Below(e, d, K, f, L)
    <2>1. ASSUME NEW x \in K PROVE f[x] \in L /\ e[x] \in Nat /\ e[x] <= d[f[x]]
      <3>1. e[a + (x - a)] \in Nat /\ e[a + (x - a)] <= d[b + (x - a)]
        BY <1>2 DEF Beside
      <3>2. QED
        BY <1>2, <1>4, <3>1
    <2>2. ASSUME NEW x \in K, NEW y \in K, f[x] = f[y] PROVE x = y
      <3>1. /\ b + (x - a) = b + (y - a) /\ x \in Int /\ y \in Int
        BY <1>2, <1>4, <2>2
      <3>2. QED
        BY <3>1, SMT
    <2>3. ASSUME NEW z \in L PROVE d[z] \in Nat
      <3>1. d[b + (z - b)] \in Nat
        BY <1>3 DEF Beside
      <3>2. QED
        BY <1>3, <3>1
    <2>4. QED
      BY <2>1, <2>2, <2>3 DEF Below
  <1>6. Images(f, K) = L
    <2>1. \A x \in K : f[x] \in L
      BY <1>2, <1>4
    <2>2. ASSUME NEW z \in L PROVE \E x \in K : z = f[x]
      <3>1. a + (z - b) \in K /\ f[a + (z - b)] = z
        BY <1>3, <1>4
      <3>2. QED
        BY <3>1
    <2>3. QED
      BY <2>1, <2>2 DEF Images
  <1>7. \A s \in SUBSET K : Total(e, s) <= Total(d, Images(f, s))
    BY <1>1, <1>5, TotalBelow
  <1>8. Total(e, K) <= Total(d, L)
    <2>1. K \in SUBSET K
      OBVIOUS
    <2>2. Total(e, K) <= Total(d, Images(f, K))
      BY <1>7, <2>1
    <2>3. QED
      BY <1>6, <2>2
  <1>9. QED
    BY <1>8 DEF K, L

\* The times of a CPU are numbers.
LEMMA IdleTimeType ==
  ASSUME IInv, NEW c \in Cpus
  PROVE  IdleTime(c) \in Nat /\ BusyTime(c) \in Nat
  <1>1. /\ 0 \in Words /\ c \in 0..(MAX_CPU - 1)
        /\ MAX_CSTATE_ENTRIES \in Nat /\ MAX_PSTATE_ENTRIES \in Nat
    BY Facts, CpuAssumption
  <1>2. cstate_duration \in [CKeys -> Words] /\ pstate_duration \in [PKeys -> Words]
    BY StateFacts
  <1>3. Total(cstate_duration, Row(c, MAX_CSTATE_ENTRIES)) \in Nat
    BY <1>1, <1>2, AddTotal DEF CKeys
  <1>4. Total(pstate_duration, Row(c, MAX_PSTATE_ENTRIES)) \in Nat
    BY <1>1, <1>2, AddTotal DEF PKeys
  <1>5. QED
    BY <1>3, <1>4 DEF IdleTime, BusyTime

\* What is printed for a CPU is no more than its entries hold.
LEMMA PrintedBound ==
  ASSUME IInv, CopyInv, NEW c \in 0..(MAX_CPU - 1)
  PROVE  /\ Total(stat_data, {n + 1 : n \in Row(c, MAX_CSTATE_ENTRIES + MAX_PSTATE_ENTRIES)})
              <= IdleTime(c) + BusyTime(c)
         /\ IdleTime(c) \in Nat /\ BusyTime(c) \in Nat
         /\ Total(stat_data, {n + 1 : n \in Row(c, MAX_CSTATE_ENTRIES + MAX_PSTATE_ENTRIES)})
              \in Nat
  <1> DEFINE C == MAX_CSTATE_ENTRIES
             P == MAX_PSTATE_ENTRIES
             a == c * (C + P)
             K == {n + 1 : n \in Row(c, C + P)}
             I == Interval(a + 1, C)
             J == Interval(a + 1 + C, P)
  <1>1. /\ C \in Nat /\ P \in Nat /\ c \in Nat /\ a \in Nat /\ c * C \in Nat /\ c * P \in Nat
        /\ C \in Nat \ {0} /\ P \in Nat \ {0}
    BY CpuAssumption, SMTT(30)
  <1>2. /\ stat_data \in [1..NrEntries -> Words] /\ Words \subseteq Nat
        /\ cstate_duration \in [CKeys -> Words] /\ pstate_duration \in [PKeys -> Words]
    BY CpuAssumption, SMTT(30) DEF IInv, TypeOK, Words
  <1>3. Beside(stat_data, cstate_duration, a + 1, c * C, C)
    <2> SUFFICES ASSUME NEW j \in 0..(C - 1)
                 PROVE  /\ stat_data[(a + 1) + j] \in Nat /\ cstate_duration[c * C + j] \in Nat
                        /\ stat_data[(a + 1) + j] <= cstate_duration[c * C + j]
      BY DEF Beside
    <2>1. j \in 0..(C + P - 1) /\ (a + 1) + j = a + j + 1 /\ j < C
      BY <1>1, SMT
    <2>2. /\ (a + 1) + j \in 1..NrEntries
          /\ Lookup(Entry((a + 1) + j)) = cstate_duration[c * C + j]
      BY <2>1, EntryOf
    <2>3. c * C + j \in CKeys
      BY <1>1, KeyFacts DEF CKeys
    <2>4. QED
      BY <1>2, <2>2, <2>3 DEF CopyInv
  <1>4. Beside(stat_data, pstate_duration, a + 1 + C, c * P, P)
    <2> SUFFICES ASSUME NEW j \in 0..(P - 1)
                 PROVE  /\ stat_data[(a + 1 + C) + j] \in Nat
                        /\ pstate_duration[c * P + j] \in Nat
                        /\ stat_data[(a + 1 + C) + j] <= pstate_duration[c * P + j]
      BY DEF Beside
    <2>1. /\ C + j \in 0..(C + P - 1) /\ (a + 1 + C) + j = a + (C + j) + 1
          /\ ~(C + j < C) /\ c * P + (C + j) - C = c * P + j
      BY <1>1, SMT
    <2>2. /\ (a + 1 + C) + j \in 1..NrEntries
          /\ Lookup(Entry((a + 1 + C) + j)) = pstate_duration[c * P + j]
      <3> DEFINE i == C + j
                 n == (a + 1 + C) + j
      <3>1. i \in 0..(C + P - 1) /\ n = a + i + 1 /\ ~(i < C)
        BY <2>1
      <3> HIDE DEF i, n
      <3>2. n \in 1..NrEntries /\ Lookup(Entry(n)) = pstate_duration[c * P + i - C]
        BY <3>1, EntryOf
      <3>3. QED
        BY <2>1, <3>2 DEF i, n
    <2>3. c * P + j \in PKeys
      BY <1>1, KeyFacts DEF PKeys
    <2>4. QED
      BY <1>2, <2>2, <2>3 DEF CopyInv
  <1>5. Interval(c * C, C) = Row(c, C) /\ Interval(c * P, P) = Row(c, P)
    BY DEF Interval, Row
  <1> HIDE DEF a
  <1>6. Total(stat_data, I) <= IdleTime(c) /\ Total(stat_data, J) <= BusyTime(c)
    <2>1. a + 1 \in Int /\ a + 1 + C \in Int /\ c * C \in Int /\ c * P \in Int
      BY <1>1, SMT
    <2>2. Total(stat_data, I) <= Total(cstate_duration, Interval(c * C, C))
      BY <1>1, <1>3, <2>1, IntervalBelow
    <2>3. Total(stat_data, J) <= Total(pstate_duration, Interval(c * P, P))
      BY <1>1, <1>4, <2>1, IntervalBelow
    <2>4. QED
      BY <1>5, <2>2, <2>3 DEF IdleTime, BusyTime
  <1>7. K = I \cup J /\ I \cap J = {}
    <2>1. K = (a + 1)..(a + C + P)
      <3>1. Row(c, C + P) = a..(a + C + P - 1)
        BY <1>1, SMT DEF Row, a
      <3>2. \A x : x \in K <=> \E n \in a..(a + C + P - 1) : x = n + 1
        BY <3>1
      <3>3. \A x : (\E n \in a..(a + C + P - 1) : x = n + 1) <=> x \in (a + 1)..(a + C + P)
        <4>1. \A x \in (a + 1)..(a + C + P) : x - 1 \in a..(a + C + P - 1) /\ x = (x - 1) + 1
          BY <1>1, SMT
        <4>2. \A n \in a..(a + C + P - 1) : n + 1 \in (a + 1)..(a + C + P)
          BY <1>1, SMT
        <4>3. QED
          BY <4>1, <4>2
      <3> HIDE DEF K
      <3>4. QED
        BY <3>2, <3>3
    <2> HIDE DEF K
    <2>2. QED
      BY <1>1, <2>1, SMT DEF Interval
  <1>8. /\ IsFiniteSet(K) /\ I \in SUBSET K /\ J \in SUBSET K /\ K \in SUBSET K
        /\ \A x \in K : stat_data[x] \in Nat
    <2>1. IsFiniteSet(I) /\ IsFiniteSet(J)
      <3>1. /\ a + 1 \in Int /\ (a + 1) + C - 1 \in Int
            /\ a + 1 + C \in Int /\ (a + 1 + C) + P - 1 \in Int
        BY <1>1, SMT
      <3>2. QED
        BY <3>1, FS_Interval DEF Interval
    <2>2. \A x \in I : x - (a + 1) \in 0..(C - 1) /\ (a + 1) + (x - (a + 1)) = x
      BY <1>1, SMT DEF Interval
    <2>3. \A x \in J : x - (a + 1 + C) \in 0..(P - 1) /\ (a + 1 + C) + (x - (a + 1 + C)) = x
      BY <1>1, SMT DEF Interval
    <2> HIDE DEF K, I, J
    <2>4. \A x \in I : stat_data[x] \in Nat
      BY <1>3, <2>2 DEF Beside
    <2>5. \A x \in J : stat_data[x] \in Nat
      BY <1>4, <2>3 DEF Beside
    <2>6. QED
      BY <1>7, <2>1, <2>4, <2>5, FS_Union
  <1>9. IdleTime(c) \in Nat /\ BusyTime(c) \in Nat
    <2>1. 0 \in Words
      BY Facts
    <2>2. Total(cstate_duration, Row(c, C)) \in Nat
      BY <1>1, <1>2, <2>1, AddTotal DEF CKeys
    <2>3. Total(pstate_duration, Row(c, P)) \in Nat
      BY <1>1, <1>2, <2>1, AddTotal DEF PKeys
    <2>4. QED
      BY <2>2, <2>3 DEF IdleTime, BusyTime
  <1> HIDE DEF I, J, K
  <1>10. \A t \in SUBSET K : Total(stat_data, t) \in Nat
    BY <1>8, TotalType
  <1>11. Total(stat_data, K) = Total(stat_data, I) + Total(stat_data, J)
    BY <1>7, <1>8, TotalParts
  <1>12. /\ Total(stat_data, K) \in Nat /\ Total(stat_data, I) \in Nat
         /\ Total(stat_data, J) \in Nat
    BY <1>8, <1>10
  <1>13. Total(stat_data, K) <= IdleTime(c) + BusyTime(c)
    BY <1>6, <1>9, <1>11, <1>12, SMTT(30)
  <1>14. QED
    BY <1>9, <1>12, <1>13 DEF K

-----------------------------------------------------------------------------
(* The theorems *)

\* Every step preserves the invariant of time.
LEMMA TimeStep ==
  ASSUME IInv, TimeInv, Next
  PROVE  TimeInv'
  <1>1. mode' = mode
    BY DEF Next
  <1>2. IdleInv' /\ TurnInv' /\ AsleepInv'
    BY IdleTimeStep, TurnStep, AsleepStep DEF TimeInv
  <1>3. CASE mode.overlap
    BY <1>1, <1>2, <1>3 DEF TimeInv
  <1>4. CASE ~mode.overlap
    BY <1>1, <1>2, <1>4, SerialStep, CopyStep DEF TimeInv
  <1>5. QED
    BY <1>3, <1>4

\* Nor does a step that leaves everything alone break it.
LEMMA TimeInvStep == IInv /\ TimeInv /\ [Next]_vars => IInv' /\ TimeInv'
  <1>1. ASSUME TimeInv, UNCHANGED vars PROVE TimeInv'
    <2>1. /\ my_map' = my_map /\ idle' = idle /\ freq' = freq /\ asleep' = asleep
          /\ now' = now /\ mode' = mode /\ stat_data' = stat_data
          /\ cstate_duration' = cstate_duration /\ pstate_duration' = pstate_duration
      BY <1>1 DEF vars
    <2>2. IdleInv' <=> IdleInv
      BY <2>1 DEF IdleInv, Pending, IdleTime
    <2>3. (TurnInv' <=> TurnInv) /\ (AsleepInv' <=> AsleepInv)
      BY <2>1 DEF TurnInv, AsleepInv
    <2>4. \A c : Stamp(c)' = Stamp(c) /\ Owing(c)' = Owing(c)
      BY <2>1 DEF Stamp, Busy, Owing
    <2>5. \A c : IdleTime(c)' = IdleTime(c) /\ BusyTime(c)' = BusyTime(c)
      BY <2>1 DEF IdleTime, BusyTime
    <2>6. SerialInv' <=> SerialInv
      BY <2>1, <2>4, <2>5 DEF SerialInv
    <2>7. CopyInv' <=> CopyInv
      BY <2>1 DEF CopyInv, Lookup
    <2>8. QED
      BY <1>1, <2>1, <2>2, <2>3, <2>6, <2>7 DEF TimeInv
  <1>2. QED
    BY <1>1, IInvStep, TimeStep

\* The invariants hold in every state.
LEMMA Invariance == Spec => [](IInv /\ TimeInv)
  BY TimeInit, TimeInvStep, PTL DEF Spec

\* The times the handlers record for the idle states of a CPU add up to no more
\* than the time that has passed, even where the two handlers overlap.
THEOREM IdleTimesAreElapsed == Spec => []IdleTimeWithinElapsed
  <1>1. IInv /\ TimeInv => IdleTimeWithinElapsed
    <2> SUFFICES ASSUME IInv, TimeInv, NEW c \in Cpus PROVE IdleTime(c) <= now - 1
      BY DEF IdleTimeWithinElapsed
    <2>1. /\ my_map[c].cts <= now
          /\ IdleTime(c) + Pending(c) <= IF my_map[c].cts = 0 THEN 0 ELSE my_map[c].cts - 1
      BY DEF TimeInv, IdleInv
    <2>2. now \in Nat \ {0} /\ my_map[c].cts \in Nat /\ idle[c].delta \in Nat
      BY Numbers
    <2>3. Pending(c) \in Nat
      BY <2>2, SMT DEF Pending
    <2>4. IdleTime(c) \in Nat
      BY IdleTimeType
    <2>5. QED
      BY <2>1, <2>2, <2>3, <2>4, SMTT(30)
  <1>2. QED
    BY <1>1, Invariance, PTL

\* No moment is counted twice while one handler runs at a time: the idle and
\* the busy times of a CPU together are no more than the time that has passed.
THEOREM TimesAreCountedOnce == Spec => []NoTimeCountedTwice
  <1>1. IInv /\ TimeInv => NoTimeCountedTwice
    <2> SUFFICES ASSUME IInv, TimeInv, ~mode.overlap, NEW c \in Cpus
                 PROVE  IdleTime(c) + BusyTime(c) <= now - 1
      BY DEF NoTimeCountedTwice
    <2>1. IdleTime(c) \in Nat /\ BusyTime(c) \in Nat
      BY IdleTimeType
    <2>2. Owing(c) \in Nat /\ IdleTime(c) + BusyTime(c) + Owing(c) <= now - 1
      BY <2>1, SerialBound DEF TimeInv
    <2>3. now \in Nat
      BY Numbers
    <2>4. QED
      BY <2>1, <2>2, <2>3, SMT
  <1>2. QED
    BY <1>1, Invariance, PTL

\* Nor is what cpustat_user prints for a CPU, though it is read entry by entry
\* while the handlers go on.
THEOREM PrintedTimesAreElapsed == Spec => []PrintedWithinElapsed
  <1>1. IInv /\ TimeInv => PrintedWithinElapsed
    <2> SUFFICES ASSUME IInv, TimeInv, ~mode.overlap, NEW c \in 0..(MAX_CPU - 1)
                 PROVE  Total(stat_data, {n + 1 : n \in Row(c, MAX_CSTATE_ENTRIES
                                                               + MAX_PSTATE_ENTRIES)})
                          <= now - 1
      BY DEF PrintedWithinElapsed
    <2> DEFINE T == Total(stat_data, {n + 1 : n \in Row(c, MAX_CSTATE_ENTRIES
                                                           + MAX_PSTATE_ENTRIES)})
    <2>1. /\ T <= IdleTime(c) + BusyTime(c) /\ T \in Nat
          /\ IdleTime(c) \in Nat /\ BusyTime(c) \in Nat
      BY PrintedBound DEF TimeInv
    <2>2. now \in Nat \ {0}
      <3>1. mode.until \in Nat /\ now \in 1..mode.until
        BY StateFacts
      <3>2. QED
        BY <3>1, SMT
    <2> HIDE DEF T
    <2>3. CASE c \in Cpus
      <3>1. Owing(c) \in Nat /\ IdleTime(c) + BusyTime(c) + Owing(c) <= now - 1
        BY <2>1, <2>3, SerialBound DEF TimeInv
      <3>2. QED
        BY <2>1, <2>2, <3>1, SMT DEF T
    <2>4. CASE c \notin Cpus
      <3>1. MAX_CSTATE_ENTRIES \in Nat /\ MAX_PSTATE_ENTRIES \in Nat
        BY CpuAssumption
      <3>2. /\ \A k \in Row(c, MAX_CSTATE_ENTRIES) : cstate_duration[k] = 0
            /\ \A k \in Row(c, MAX_PSTATE_ENTRIES) : pstate_duration[k] = 0
        BY <2>4 DEF IInv, RowsAreSeparate
      <3>3. IdleTime(c) = 0 /\ BusyTime(c) = 0
        BY <3>1, <3>2, RowTotals DEF IdleTime, BusyTime
      <3>4. QED
        BY <2>1, <2>2, <3>3, SMT DEF T
    <2>5. QED
      BY <2>3, <2>4
  <1>2. QED
    BY <1>1, Invariance, PTL

\* The words of my_map and of the two duration maps, the intervals bpf_prog1 and
\* bpf_prog2 compute and the copies of cpu_stat_update keep the ranges of their
\* C types, and no lookup of cpu_stat_update misses its map.
THEOREM TypeCorrect == Spec => []TypeOK
  BY Invariance, PTL DEF IInv

\* The keys bpf_prog1 and bpf_prog2 compute stay in the row of the CPU the event
\* is about, whatever states and frequencies the events report and however the
\* handlers overlap: no other CPU's totals ever change.
THEOREM RowsCorrect == Spec => []RowsAreSeparate
  BY Invariance, PTL DEF IInv
=============================================================================
