-------------------------- MODULE PerfarrayProofs --------------------------
(***************************************************************************)
(* The protocol of the ring for any size of ring and records and any       *)
(* number of records to count.                                             *)
(***************************************************************************)
EXTENDS Perfarray, FiniteSetTheorems, TLAPS

Kinds == {"sample", "lost"}

TypeInv ==
  /\ ring \in Seq(Kinds)
  /\ head \in Nat /\ pos \in Nat /\ pos <= head /\ head <= Len(ring)
  /\ main \in {"setup", "popen", "poll", "read", "record", "publish", "test", "done"}
  /\ cnt \in Nat /\ sent \in Nat /\ reports \in Nat

\* A record beyond the snapshot has been announced since the snapshot was taken;
\* only an error leaves records of the snapshot behind.
AnnouncedInv ==
  /\ main \in {"setup", "popen", "poll"} /\ ring # <<>> => ready \/ waking
  /\ main = "test" /\ ring # <<>> => ready \/ waking \/ failed
  /\ main \in {"record", "publish"} /\ head < Len(ring) => ready \/ waking
  /\ main = "publish" => pos = head \/ failed
  /\ main \notin {"record", "publish"} => pos = 0 /\ head = 0

IInv == TypeInv /\ AnnouncedInv /\ PrintedOnce /\ EachCountedOnce

-----------------------------------------------------------------------------
(* The samples that have not been read *)

\* The records not yet read are finitely many.
LEMMA UnreadFinite == TypeInv => IsFiniteSet(Unread) /\ Cardinality(Unread) \in Nat
  <1> SUFFICES ASSUME TypeInv PROVE IsFiniteSet(Unread)
    BY FS_CardinalityType
  <1>1. Len(ring) \in Nat /\ pos + 1 \in Int
    BY DEF TypeInv
  <1>2. IsFiniteSet((pos + 1)..Len(ring))
    BY <1>1, FS_Interval
  <1>3. QED
    BY <1>2, FS_Subset DEF Unread

\* bpf_perf_event_output appends a sample, after a lost record if one was missed.
LEMMA EntryFacts ==
  ASSUME TypeInv
  PROVE  /\ ring \o Entry \in Seq(Kinds)
         /\ \E l \in Nat :
              /\ l >= Len(ring)
              /\ Len(ring \o Entry) = l + 1
              /\ (ring \o Entry)[l + 1] = "sample"
              /\ \A i \in (Len(ring) + 1)..l : (ring \o Entry)[i] = "lost"
              /\ \A i \in 1..Len(ring) : (ring \o Entry)[i] = ring[i]
  <1>1. CASE missed
    <2>1. Entry = <<"lost", "sample">>
      BY <1>1 DEF Entry
    <2>2. QED
      BY <2>1 DEF TypeInv, Kinds
  <1>2. CASE ~missed
    <2>1. Entry = <<"sample">>
      BY <1>2 DEF Entry
    <2>2. QED
      BY <2>1 DEF TypeInv, Kinds
  <1>3. QED
    BY <1>1, <1>2

\* An entry adds one sample.
LEMMA EntryCounts ==
  ASSUME TypeInv, ring' = ring \o Entry, pos' = pos
  PROVE  Cardinality(Unread') = Cardinality(Unread) + 1
  <1>1. PICK l \in Nat :
              /\ l >= Len(ring)
              /\ Len(ring') = l + 1
              /\ ring'[l + 1] = "sample"
              /\ \A i \in (Len(ring) + 1)..l : ring'[i] = "lost"
              /\ \A i \in 1..Len(ring) : ring'[i] = ring[i]
    BY EntryFacts
  <1>2. Len(ring) \in Nat /\ pos \in Nat /\ pos <= Len(ring)
    BY DEF TypeInv
  <1>3. Unread' = Unread \cup {l + 1} /\ l + 1 \notin Unread
    <2>1. \A i \in Int : i \in Unread' <=> i \in Unread \cup {l + 1}
      BY <1>1, <1>2 DEF Unread
    <2>2. Unread' \subseteq Int /\ Unread \cup {l + 1} \subseteq Int
      BY <1>1, <1>2 DEF Unread
    <2>3. l + 1 \notin Unread
      BY <1>1, <1>2 DEF Unread
    <2>4. QED
      BY <2>1, <2>2, <2>3
  <1>4. QED
    BY <1>3, UnreadFinite, FS_AddElement

\* Giving back the room of the records that were read leaves the others.
LEMMA TailKeeps ==
  ASSUME TypeInv, ring' = SubSeq(ring, pos + 1, Len(ring)), pos' = 0
  PROVE  /\ ring' \in Seq(Kinds) /\ Len(ring') = Len(ring) - pos
         /\ Cardinality(Unread') = Cardinality(Unread)
  <1>1. Len(ring) \in Nat /\ pos \in Nat /\ pos <= Len(ring)
    BY DEF TypeInv
  <1>2. /\ ring' \in Seq(Kinds) /\ Len(ring') = Len(ring) - pos
        /\ \A i \in 1..(Len(ring) - pos) : ring'[i] = ring[i + pos]
    BY <1>1 DEF TypeInv
  <1>3. Unread' = {i \in 1..(Len(ring) - pos) : ring[i + pos] = "sample"}
    BY <1>1, <1>2, SMTT(30) DEF Unread
  <1> DEFINE f == [i \in Unread |-> i - pos]
  <1>4. f \in [Unread -> Unread']
    <2>1. ASSUME NEW i \in Unread PROVE i - pos \in Unread'
      <3>1. i \in Nat /\ pos < i /\ i <= Len(ring) /\ ring[i] = "sample"
        BY <1>1 DEF Unread
      <3>2. i - pos \in 1..(Len(ring) - pos) /\ (i - pos) + pos = i
        BY <1>1, <3>1
      <3>3. QED
        BY <3>1, <3>2, <1>3
    <2>2. QED
      BY <2>1
  <1>5. \A i, j \in Unread : f[i] = f[j] => i = j
    BY <1>1 DEF Unread
  <1>6. \A j \in Unread' : \E i \in Unread : f[i] = j
    <2> SUFFICES ASSUME NEW j \in Unread' PROVE j + pos \in Unread /\ (j + pos) - pos = j
      OBVIOUS
    <2>1. QED
      BY <1>1, <1>3 DEF Unread
  <1>7. f \in Bijection(Unread, Unread')
    BY <1>4, <1>5, <1>6 DEF Bijection, Injection, IsInjective, Surjection
  <1>8. Cardinality(Unread) = Cardinality(Unread')
    BY <1>7, UnreadFinite, FS_Bijection DEF ExistsBijection
  <1>9. QED
    BY <1>2, <1>8

-----------------------------------------------------------------------------
(* The invariant *)

\* The ring is empty and nothing is counted: the invariant holds at the start.
LEMMA IInvInit == Init => IInv
  <1> SUFFICES ASSUME Init PROVE IInv
    OBVIOUS
  <1>1. ring = <<>> /\ ring \in Seq(Kinds) /\ Len(ring) = 0
    BY DEF Init
  <1>2. TypeInv /\ AnnouncedInv
    BY <1>1 DEF Init, TypeInv, AnnouncedInv
  <1>3. PrintedOnce
    BY PerfAssumption DEF Init, PrintedOnce
  <1>4. Unread = {}
    BY <1>1 DEF Init, Unread
  <1>5. EachCountedOnce
    BY <1>4, FS_EmptySet DEF Init, EachCountedOnce
  <1>6. QED
    BY <1>2, <1>3, <1>5 DEF IInv

\* Every step of the kernel or of the poll loop preserves the invariant.
LEMMA IInvStep == IInv /\ [Next]_vars => IInv'
  <1> SUFFICES ASSUME IInv, [Next]_vars PROVE IInv'
    OBVIOUS
  <1>0. TypeInv /\ AnnouncedInv /\ PrintedOnce /\ EachCountedOnce /\ Len(ring) \in Nat
    BY DEF IInv, TypeInv
  \* Where neither the ring nor the position changes.
  <1>1. ASSUME UNCHANGED <<ring, pos, cnt, sent, reports>>
        PROVE  PrintedOnce' /\ EachCountedOnce'
    BY <1>0, <1>1 DEF PrintedOnce, EachCountedOnce, Unread
  <1>2. CASE bpf_perf_event_output
    <2>1. CASE Fits /\ ring' = ring \o Entry
      <3>1. /\ waking' = TRUE /\ sent' = sent + 1
            /\ UNCHANGED <<main, head, pos, cnt, failed, reports>>
        BY <1>2, <2>1 DEF bpf_perf_event_output, reader
      <3>2. ring' \in Seq(Kinds) /\ Len(ring') >= Len(ring)
        BY <1>0, <2>1, EntryFacts DEF TypeInv
      <3>3. TypeInv' /\ AnnouncedInv'
        BY <1>0, <1>2, <3>1, <3>2 DEF TypeInv, AnnouncedInv, bpf_perf_event_output, Installed
      <3>4. PrintedOnce'
        BY <1>0, <3>1 DEF PrintedOnce
      <3>5. EachCountedOnce'
        BY <1>0, <2>1, <3>1, EntryCounts, UnreadFinite DEF EachCountedOnce, TypeInv
      <3>6. QED
        BY <3>3, <3>4, <3>5 DEF IInv
    <2>2. CASE UNCHANGED <<ring, waking, sent>>
      <3>1. UNCHANGED <<ready, main, head, pos, cnt, failed, reports>>
        BY <1>2 DEF bpf_perf_event_output, reader
      <3>2. TypeInv' /\ AnnouncedInv'
        BY <1>0, <2>2, <3>1 DEF TypeInv, AnnouncedInv
      <3>3. QED
        BY <1>1, <2>2, <3>1, <3>2 DEF IInv
    <2>3. QED
      BY <1>2, <2>1, <2>2 DEF bpf_perf_event_output
  <1>3. CASE Announce \/ SetUp \/ TakeStartTime \/ Wait \/ TimeOut \/ WaitFails
             \/ CopyFails \/ AllProcessed \/ Test
    <2>1. UNCHANGED <<ring, head, pos, cnt, sent, reports>>
      BY <1>3 DEF Announce, SetUp, TakeStartTime, Wait, TimeOut, WaitFails, CopyFails,
         AllProcessed, Test, reader
    <2>2. main' \in {"setup", "popen", "poll", "read", "record", "publish", "test", "done"}
      BY <1>0, <1>3 DEF Announce, SetUp, TakeStartTime, Wait, TimeOut, WaitFails, CopyFails,
         AllProcessed, Test, TypeInv
    <2>3. TypeInv'
      BY <1>0, <2>1, <2>2 DEF TypeInv
    <2>4. AnnouncedInv'
      BY <1>0, <1>3, <2>1 DEF Announce, SetUp, TakeStartTime, Wait, TimeOut, WaitFails,
         CopyFails, AllProcessed, Test, AnnouncedInv, reader, kernel
    <2>5. QED
      BY <1>1, <2>1, <2>3, <2>4 DEF IInv
  <1>4. CASE ReadHead
    <2>1. /\ head' = Len(ring) /\ pos' = 0 /\ main' = "record" /\ pos = 0
          /\ UNCHANGED <<ring, cnt, sent, reports>>
      BY <1>0, <1>4 DEF ReadHead, AnnouncedInv
    <2>2. TypeInv' /\ AnnouncedInv'
      BY <1>0, <2>1 DEF TypeInv, AnnouncedInv
    <2>3. QED
      BY <1>1, <2>1, <2>2 DEF IInv
  <1>5. CASE ProcessRecord
    <2>1. /\ main = "record" /\ pos < head /\ pos' = pos + 1
          /\ UNCHANGED <<ring, ready, waking, main, head, failed, sent>>
      BY <1>5 DEF ProcessRecord, kernel
    <2>2. cnt' = (IF ring[pos + 1] = "sample" THEN cnt + 1 ELSE cnt) /\ PrintRate
      BY <1>5 DEF ProcessRecord, CountSample, Record
    <2>3. cnt' \in Nat /\ reports' \in Nat
      BY <1>0, <2>2 DEF TypeInv, PrintRate
    <2>4. TypeInv' /\ AnnouncedInv'
      BY <1>0, <2>1, <2>3 DEF TypeInv, AnnouncedInv
    <2>5. PrintedOnce'
      BY <1>0, <2>2, PerfAssumption DEF TypeInv, PrintRate, PrintedOnce
    <2>6. EachCountedOnce'
      <3>1. pos \in Nat /\ pos + 1 <= Len(ring)
        BY <1>0, <2>1 DEF TypeInv
      <3>2. CASE ring[pos + 1] = "sample"
        <4>1. Unread' = Unread \ {pos + 1} /\ pos + 1 \in Unread
          BY <1>0, <2>1, <3>1, <3>2 DEF Unread
        <4>2. Cardinality(Unread') = Cardinality(Unread) - 1
          BY <1>0, <4>1, UnreadFinite, FS_RemoveElement
        <4>3. QED
          BY <1>0, <2>1, <2>2, <3>2, <4>2, UnreadFinite DEF EachCountedOnce, TypeInv
      <3>3. CASE ring[pos + 1] # "sample"
        <4>1. Unread' = Unread
          BY <1>0, <2>1, <3>1, <3>3 DEF Unread
        <4>2. QED
          BY <1>0, <2>1, <2>2, <3>3, <4>1 DEF EachCountedOnce
      <3>4. QED
        BY <3>2, <3>3
    <2>7. QED
      BY <2>4, <2>5, <2>6 DEF IInv
  <1>6. CASE WriteTail
    <2>1. /\ main = "publish" /\ main' = "test" /\ head' = 0 /\ pos' = 0
          /\ ring' = SubSeq(ring, pos + 1, Len(ring))
          /\ UNCHANGED <<ready, waking, failed, cnt, sent, reports>>
      BY <1>6 DEF WriteTail, kernel
    <2>2. /\ ring' \in Seq(Kinds) /\ Len(ring') = Len(ring) - pos
          /\ Cardinality(Unread') = Cardinality(Unread)
      BY <1>0, <2>1, TailKeeps
    <2>3. TypeInv'
      BY <1>0, <2>1, <2>2 DEF TypeInv
    <2>4. ring' # <<>> => pos < Len(ring)
      BY <1>0, <2>2 DEF TypeInv
    <2>5. AnnouncedInv'
      BY <1>0, <2>1, <2>4 DEF TypeInv, AnnouncedInv
    <2>6. PrintedOnce' /\ EachCountedOnce'
      BY <1>0, <2>1, <2>2 DEF PrintedOnce, EachCountedOnce
    <2>7. QED
      BY <2>3, <2>5, <2>6 DEF IInv
  <1>7. CASE UNCHANGED vars
    <2>1. TypeInv' /\ AnnouncedInv'
      BY <1>0, <1>7 DEF TypeInv, AnnouncedInv, vars
    <2>2. QED
      BY <1>1, <1>7, <2>1 DEF IInv, vars
  <1>8. QED
    BY <1>2, <1>3, <1>4, <1>5, <1>6, <1>7 DEF Next, Main

\* So it holds throughout.
LEMMA Invariance == Spec => []IInv
  BY IInvInit, IInvStep, PTL DEF Spec

-----------------------------------------------------------------------------
(* What follows *)

\* No sample is skipped or counted twice between head and tail, whatever arrives
\* while bpf_perf_event_read_simple works through its snapshot.
THEOREM CountedOnce == Spec => []EachCountedOnce
  BY Invariance, PTL DEF IInv

\* A record in the ring is announced whenever perf_buffer__poll waits.
THEOREM NeverStranded == Spec => []NoRecordStranded
  <1>1. IInv => NoRecordStranded
    BY DEF IInv, AnnouncedInv, NoRecordStranded
  <1>2. QED
    BY <1>1, Invariance, PTL

\* print_bpf_output prints the rate exactly once.
THEOREM RatePrintedOnce == Spec => []PrintedOnce
  BY Invariance, PTL DEF IInv

-----------------------------------------------------------------------------
(* The rate *)

\* Before start_time is taken nothing is counted and the samples fit into the
\* ring; from then on each event adds at most one sample.
RateInv ==
  /\ since \in Nat /\ since <= MAX_CNT
  /\ main \in {"setup", "popen"} =>
       /\ cnt = 0 /\ pos = 0
       /\ SAMPLE * Cardinality(Unread) < RingBytes
  /\ main \notin {"setup", "popen", "done"} => since = MAX_CNT \/ sent <= since + Capacity
  /\ main = "done" /\ cnt > 0 => since = MAX_CNT \/ sent <= since + Capacity

\* Multiplying undoes a division up to its remainder.
LEMMA DivBound ==
  ASSUME NEW c \in Nat, NEW S \in Nat \ {0}, NEW R \in Nat, S * c <= R
  PROVE  c <= R \div S
  <1> DEFINE q == R \div S
  <1>1. q \in Nat /\ R = S * q + (R % S) /\ R % S < S /\ R % S \in Nat
    OBVIOUS
  <1> HIDE DEF q
  <1>2. SUFFICES ASSUME c > q PROVE FALSE
    BY <1>1 DEF q
  <1>3. S * c >= S * (q + 1)
    BY <1>1, <1>2
  <1>4. S * (q + 1) = S * q + S
    BY <1>1
  <1>5. QED
    BY <1>1, <1>3, <1>4

\* The number of samples a ring can hold is a number.
LEMMA CapacityNat == Capacity \in Nat
  BY PerfAssumption DEF Capacity

\* So is the number of records of one kind in a ring.
LEMMA CountNat ==
  ASSUME NEW s \in Seq(Kinds), NEW r
  PROVE  Count(s, r) \in Nat
  <1>1. IsFiniteSet(1..Len(s))
    BY FS_Interval
  <1>2. IsFiniteSet({i \in DOMAIN s : s[i] = r})
    BY <1>1, FS_Subset
  <1>3. QED
    BY <1>2, FS_CardinalityType DEF Count

\* The samples in a ring that takes one more still fit.
LEMMA SamplesFit ==
  ASSUME TypeInv, pos = 0, Fits
  PROVE  SAMPLE * (Cardinality(Unread) + 1) < RingBytes
  <1>1. /\ SAMPLE \in Nat \ {0} /\ LOST \in Nat /\ RingBytes \in Nat
        /\ ring \in Seq(Kinds)
    BY PerfAssumption DEF TypeInv
  <1>10. Entry \in Seq(Kinds)
    <2>1. <<"lost", "sample">> \in Seq(Kinds) /\ <<"sample">> \in Seq(Kinds)
      BY DEF Kinds
    <2>2. QED
      BY <2>1 DEF Entry
  <1>2. Cardinality(Unread) = Count(ring, "sample")
    <2>1. DOMAIN ring = (0 + 1)..Len(ring)
      BY <1>1
    <2>2. Unread = {i \in DOMAIN ring : ring[i] = "sample"}
      BY <2>1 DEF Unread
    <2>3. QED
      BY <2>2 DEF Count
  <1>3. Count(Entry, "sample") = 1
    <2>1. CASE missed
      <3>1. {i \in DOMAIN Entry : Entry[i] = "sample"} = {2}
        BY <2>1 DEF Entry
      <3>2. QED
        BY <3>1, FS_Singleton DEF Count
    <2>2. CASE ~missed
      <3>1. {i \in DOMAIN Entry : Entry[i] = "sample"} = {1}
        BY <2>2 DEF Entry
      <3>2. QED
        BY <3>1, FS_Singleton DEF Count
    <2>3. QED
      BY <2>1, <2>2
  <1>4. /\ Count(ring, "sample") \in Nat /\ Count(ring, "lost") \in Nat
        /\ Count(Entry, "lost") \in Nat
    BY <1>1, <1>10, CountNat
  <1> DEFINE a == Count(ring, "sample")
             b == LOST * Count(ring, "lost")
             c == LOST * Count(Entry, "lost")
  <1>5. b \in Nat /\ c \in Nat
    BY <1>1, <1>4
  <1>6. (SAMPLE * a + b) + (SAMPLE * 1 + c) < RingBytes
    BY <1>3 DEF Fits, Bytes
  <1>7. SAMPLE * (a + 1) = SAMPLE * a + SAMPLE /\ SAMPLE * a \in Nat
    BY <1>1, <1>4
  <1> HIDE DEF a, b, c
  <1>8. SAMPLE * (a + 1) < RingBytes
    BY <1>1, <1>5, <1>6, <1>7
  <1>9. QED
    BY <1>2, <1>8 DEF a

\* Nothing has been counted at the start.
LEMMA RateInit == Init => RateInv
  <1> SUFFICES ASSUME Init PROVE RateInv
    OBVIOUS
  <1>1. Unread = {}
    BY DEF Init, Unread
  <1>2. Cardinality(Unread) = 0
    BY <1>1, FS_EmptySet
  <1>3. SAMPLE * 0 < RingBytes /\ 0 <= MAX_CNT
    BY PerfAssumption
  <1>4. QED
    BY <1>2, <1>3 DEF Init, RateInv

\* What was sent before the start time is taken never exceeds one ring.
LEMMA RateStep == IInv /\ RateInv /\ [Next]_vars => RateInv'
  <1> SUFFICES ASSUME IInv, RateInv, [Next]_vars PROVE RateInv'
    OBVIOUS
  <1>0. /\ TypeInv /\ EachCountedOnce /\ Capacity \in Nat /\ MAX_CNT \in Nat
        /\ Cardinality(Unread) \in Nat
    BY CapacityNat, UnreadFinite, PerfAssumption DEF IInv
  <1> USE <1>0
  <1>1. CASE bpf_perf_event_output
    <2>1. /\ UNCHANGED <<main, pos, cnt>> /\ main \notin {"setup", "done"}
          /\ since' \in Nat /\ since' <= MAX_CNT
          /\ since' = MAX_CNT \/ since' = since + 1
          /\ since = MAX_CNT => since' = MAX_CNT
          /\ sent' = sent \/ sent' = sent + 1
      BY <1>1 DEF bpf_perf_event_output, Installed, Tick, reader, RateInv
    <2>2. CASE main = "popen"
      <3>1. CASE Fits /\ ring' = ring \o Entry
        <4>1. Cardinality(Unread') = Cardinality(Unread) + 1
          BY <2>1, <3>1, EntryCounts
        <4>2. SAMPLE * (Cardinality(Unread) + 1) < RingBytes
          BY <2>2, <3>1, SamplesFit DEF RateInv
        <4>3. QED
          BY <2>1, <2>2, <4>1, <4>2 DEF RateInv
      <3>2. CASE ring' = ring
        <4>1. Unread' = Unread
          BY <2>1, <3>2 DEF Unread
        <4>2. QED
          BY <2>1, <2>2, <4>1 DEF RateInv
      <3>3. QED
        BY <1>1, <3>1, <3>2 DEF bpf_perf_event_output
    <2>3. CASE main # "popen"
      BY <2>1, <2>3 DEF RateInv, TypeInv
    <2>4. QED
      BY <2>2, <2>3
  <1>2. CASE SetUp \/ (Announce /\ main \in {"setup", "popen"})
    <2>1. /\ main' \in {"setup", "popen", "done"} /\ main \in {"setup", "popen"}
          /\ UNCHANGED <<ring, pos, cnt, sent, since>>
      BY <1>2 DEF SetUp, Announce, reader
    <2>2. Unread' = Unread
      BY <2>1 DEF Unread
    <2>3. QED
      BY <2>1, <2>2 DEF RateInv
  <1>3. CASE TakeStartTime
    <2>1. /\ main = "popen" /\ main' = "poll" /\ since' = 0 /\ sent' = sent
      BY <1>3 DEF TakeStartTime
    <2>2. SAMPLE * Cardinality(Unread) <= RingBytes - 1 /\ sent = Cardinality(Unread)
      BY <2>1, PerfAssumption DEF RateInv, EachCountedOnce
    <2>3. sent <= Capacity
      <3>1. RingBytes - 1 \in Nat /\ SAMPLE \in Nat \ {0}
        BY PerfAssumption
      <3>2. Cardinality(Unread) <= (RingBytes - 1) \div SAMPLE
        BY <2>2, <3>1, DivBound
      <3>3. QED
        BY <2>2, <3>2 DEF Capacity
    <2>4. QED
      BY <2>1, <2>3 DEF RateInv, TypeInv
  <1>4. CASE \/ (Announce /\ main \notin {"setup", "popen"})
             \/ Wait \/ TimeOut \/ WaitFails \/ ReadHead \/ ProcessRecord \/ CopyFails
             \/ AllProcessed \/ WriteTail \/ Test
    <2>1. /\ main \notin {"setup", "popen"} /\ main' \notin {"setup", "popen"}
          /\ UNCHANGED <<sent, since>>
          /\ main = "done" => main' = "done" /\ cnt' = cnt
      BY <1>4 DEF Announce, Wait, TimeOut, WaitFails, ReadHead, ProcessRecord, CopyFails,
         AllProcessed, WriteTail, Test, reader
    <2>2. QED
      BY <2>1 DEF RateInv
  <1>5. CASE UNCHANGED vars
    <2>1. Unread' = Unread
      BY <1>5 DEF Unread, vars
    <2>2. QED
      BY <1>5, <2>1 DEF RateInv, vars
  <1>6. QED
    BY <1>1, <1>2, <1>3, <1>4, <1>5 DEF Next, Main

\* At most a ringful of the events in the printed rate is older than start_time.
THEOREM RateCorrect == Spec => []RateWithinOneRing
  <1>1. IInv /\ RateInv => RateWithinOneRing
    <2> SUFFICES ASSUME IInv, RateInv, reports > 0 PROVE since >= MAX_CNT - Capacity
      BY DEF RateWithinOneRing
    <2>1. /\ MAX_CNT \in Nat \ {0} /\ Capacity \in Nat /\ cnt \in Nat /\ since \in Nat
          /\ sent \in Nat /\ Cardinality(Unread) \in Nat
      BY PerfAssumption, CapacityNat, UnreadFinite DEF IInv, TypeInv, RateInv
    <2>2. cnt >= MAX_CNT /\ sent >= cnt
      BY <2>1 DEF IInv, PrintedOnce, EachCountedOnce
    <2>3. since = MAX_CNT \/ sent <= since + Capacity
      BY <2>1, <2>2 DEF RateInv
    <2>4. QED
      BY <2>1, <2>2, <2>3
  <1>2. QED
    BY <1>1, Invariance, RateInit, RateStep, PTL DEF Spec

-----------------------------------------------------------------------------
(* The room in the ring *)

\* The bytes of records are a number, and the samples among them have their share.
LEMMA BytesNat ==
  ASSUME NEW s \in Seq(Kinds)
  PROVE  /\ Bytes(s) \in Nat
         /\ SAMPLE * Count(s, "sample") \in Nat /\ SAMPLE * Count(s, "sample") <= Bytes(s)
  <1>1. Count(s, "sample") \in Nat /\ Count(s, "lost") \in Nat
    BY CountNat
  <1>2. SAMPLE \in Nat /\ LOST \in Nat
    BY PerfAssumption
  <1> DEFINE a == SAMPLE * Count(s, "sample")
             b == LOST * Count(s, "lost")
  <1>3. a \in Nat /\ b \in Nat
    BY <1>1, <1>2
  <1>4. Bytes(s) = a + b
    BY DEF Bytes
  <1> HIDE DEF a, b
  <1>5. Bytes(s) \in Nat /\ a <= Bytes(s)
    BY <1>3, <1>4
  <1>6. QED
    BY <1>3, <1>5 DEF a

\* The entry adds the bytes that Fits has made sure of.
LEMMA AppendBytes ==
  ASSUME TypeInv
  PROVE  Bytes(ring \o Entry) = Bytes(ring) + Bytes(Entry)
  <1> DEFINE At(s, r) == {j \in DOMAIN s : s[j] = r}
  <1>0. /\ ring \in Seq(Kinds) /\ Len(ring) \in Nat /\ SAMPLE \in Nat /\ LOST \in Nat
        /\ DOMAIN ring = 1..Len(ring)
    BY PerfAssumption DEF TypeInv
  <1>f. ASSUME NEW r PROVE IsFiniteSet(At(ring, r))
    <2>1. IsFiniteSet(1..Len(ring))
      BY <1>0, FS_Interval
    <2>2. QED
      BY <1>0, <2>1, FS_Subset
  <1>n. Count(ring, "sample") \in Nat /\ Count(ring, "lost") \in Nat
    BY <1>0, CountNat
  <1>a. ASSUME NEW r, NEW k, k \notin At(ring, r), At(ring \o Entry, r) = At(ring, r) \cup {k}
        PROVE  Count(ring \o Entry, r) = Count(ring, r) + 1
    <2> DEFINE S == At(ring, r)
    <2>1. IsFiniteSet(S) /\ k \notin S
      BY <1>a, <1>f
    <2>2. Count(ring \o Entry, r) = Cardinality(S \cup {k}) /\ Count(ring, r) = Cardinality(S)
      BY <1>a, Zenon DEF Count
    <2> HIDE DEF S
    <2>3. Cardinality(S \cup {k}) = Cardinality(S) + 1
      BY <2>1, FS_AddElement
    <2>4. QED
      BY <2>2, <2>3
  <1>b. ASSUME NEW c \in Nat, NEW d \in Nat,
               Count(ring \o Entry, "sample") = Count(ring, "sample") + c,
               Count(ring \o Entry, "lost") = Count(ring, "lost") + d,
               Count(Entry, "sample") = c, Count(Entry, "lost") = d
        PROVE  Bytes(ring \o Entry) = Bytes(ring) + Bytes(Entry)
    <2> DEFINE a == Count(ring, "sample")
               b == Count(ring, "lost")
    <2>1. a \in Nat /\ b \in Nat
      BY <1>n
    <2>2. /\ Bytes(ring \o Entry) = SAMPLE * (a + c) + LOST * (b + d)
          /\ Bytes(ring) = SAMPLE * a + LOST * b
          /\ Bytes(Entry) = SAMPLE * c + LOST * d
      BY <1>b, Zenon DEF Bytes
    <2> HIDE DEF a, b
    <2>3. SAMPLE * (a + c) = SAMPLE * a + SAMPLE * c /\ LOST * (b + d) = LOST * b + LOST * d
      BY <1>0, <2>1
    <2>4. /\ SAMPLE * a \in Nat /\ SAMPLE * c \in Nat
          /\ LOST * b \in Nat /\ LOST * d \in Nat
      BY <1>0, <2>1
    <2>5. QED
      BY <2>2, <2>3, <2>4
  <1>1. CASE ~missed
    <2>1. Entry = <<"sample">>
      BY <1>1 DEF Entry
    <2>2. Len(ring \o Entry) = Len(ring) + 1 /\ (ring \o Entry)[Len(ring) + 1] = "sample"
          /\ \A j \in 1..Len(ring) : (ring \o Entry)[j] = ring[j]
          /\ DOMAIN (ring \o Entry) = 1..(Len(ring) + 1)
      BY <1>0, <2>1
    <2>3. At(ring \o Entry, "sample") = At(ring, "sample") \cup {Len(ring) + 1}
      BY <1>0, <2>2
    <2>4. At(ring \o Entry, "lost") = At(ring, "lost")
      BY <1>0, <2>2
    <2>5. Len(ring) + 1 \notin At(ring, "sample")
      BY <1>0
    <2>6. Count(ring \o Entry, "sample") = Count(ring, "sample") + 1
      BY <1>a, <2>3, <2>5
    <2>7. Count(ring \o Entry, "lost") = Count(ring, "lost")
      BY <2>4 DEF Count
    <2>8. Count(Entry, "sample") = 1 /\ Count(Entry, "lost") = 0
      <3>1. At(Entry, "sample") = {1} /\ At(Entry, "lost") = {}
        BY <2>1
      <3>2. QED
        BY <3>1, FS_Singleton, FS_EmptySet DEF Count
    <2>9. QED
      <3>1. Count(ring \o Entry, "lost") = Count(ring, "lost") + 0
        BY <1>n, <2>7
      <3>2. QED
        BY <1>b, <2>6, <2>8, <3>1
  <1>2. CASE missed
    <2>1. Entry = <<"lost", "sample">>
      BY <1>2 DEF Entry
    <2>2. Len(ring \o Entry) = Len(ring) + 2 /\ (ring \o Entry)[Len(ring) + 1] = "lost"
          /\ (ring \o Entry)[Len(ring) + 2] = "sample"
          /\ \A j \in 1..Len(ring) : (ring \o Entry)[j] = ring[j]
          /\ DOMAIN (ring \o Entry) = 1..(Len(ring) + 2)
      BY <1>0, <2>1
    <2>3. At(ring \o Entry, "sample") = At(ring, "sample") \cup {Len(ring) + 2}
      BY <1>0, <2>2
    <2>4. At(ring \o Entry, "lost") = At(ring, "lost") \cup {Len(ring) + 1}
      BY <1>0, <2>2
    <2>5. Len(ring) + 2 \notin At(ring, "sample") /\ Len(ring) + 1 \notin At(ring, "lost")
      BY <1>0
    <2>6. /\ Count(ring \o Entry, "sample") = Count(ring, "sample") + 1
          /\ Count(ring \o Entry, "lost") = Count(ring, "lost") + 1
      BY <1>a, <2>3, <2>4, <2>5
    <2>7. Count(Entry, "sample") = 1 /\ Count(Entry, "lost") = 1
      <3>1. At(Entry, "sample") = {2} /\ At(Entry, "lost") = {1}
        BY <2>1
      <3>2. QED
        BY <3>1, FS_Singleton DEF Count
    <2>8. QED
      BY <1>b, <2>6, <2>7
  <1>3. QED
    BY <1>1, <1>2

\* Giving room back never makes more of the rest.
LEMMA SuffixBytes ==
  ASSUME TypeInv
  PROVE  Bytes(SubSeq(ring, pos + 1, Len(ring))) <= Bytes(ring)
  <1> DEFINE t == SubSeq(ring, pos + 1, Len(ring))
             At(s, r) == {j \in DOMAIN s : s[j] = r}
  <1>1. Len(ring) \in Nat /\ pos \in Nat /\ pos <= Len(ring) /\ ring \in Seq(Kinds)
    BY DEF TypeInv
  <1>2. /\ t \in Seq(Kinds) /\ Len(t) = Len(ring) - pos
        /\ \A j \in 1..(Len(ring) - pos) : t[j] = ring[j + pos]
    BY <1>1
  <1> HIDE DEF t
  <1>3. ASSUME NEW r PROVE Count(t, r) <= Count(ring, r)
    <2> DEFINE f == [j \in At(t, r) |-> j + pos]
    <2>1. \A j \in At(t, r) : j + pos \in At(ring, r)
      BY <1>1, <1>2
    <2>2. \A j, k \in At(t, r) : j + pos = k + pos => j = k
      BY <1>1, <1>2
    <2>3. f \in Injection(At(t, r), At(ring, r))
      BY <2>1, <2>2 DEF Injection, IsInjective
    <2>4. IsFiniteSet(At(ring, r))
      <3>1. IsFiniteSet(1..Len(ring))
        BY <1>1, FS_Interval
      <3>2. QED
        BY <1>1, <3>1, FS_Subset
    <2>5. Cardinality(At(t, r)) <= Cardinality(At(ring, r))
      BY <2>3, <2>4, FS_Injection DEF ExistsInjection
    <2>6. QED
      BY <2>5 DEF Count
  <1>4. ASSUME NEW a \in Nat, NEW b \in Nat, NEW w \in Nat, a <= b PROVE w * a <= w * b
    BY <1>4
  <1>5. /\ Count(t, "sample") \in Nat /\ Count(t, "lost") \in Nat
        /\ Count(ring, "sample") \in Nat /\ Count(ring, "lost") \in Nat
    BY <1>1, <1>2, CountNat
  <1>6. /\ SAMPLE * Count(t, "sample") <= SAMPLE * Count(ring, "sample")
        /\ LOST * Count(t, "lost") <= LOST * Count(ring, "lost")
        /\ SAMPLE \in Nat /\ LOST \in Nat
    BY <1>3, <1>4, <1>5, PerfAssumption
  <1>7. Bytes(t) <= Bytes(ring)
    BY <1>5, <1>6 DEF Bytes
  <1>8. QED
    BY <1>7 DEF t

\* The samples of the snapshot that are still to be counted.
Pending == {j \in (pos + 1)..head : ring[j] = "sample"}

\* The records fit into the ring, and a pass that was begun with less than MAX_CNT
\* samples counts at most a ringful.
RoomInv ==
  /\ Bytes(ring) < RingBytes
  /\ tail \in 0..(RingBytes - 1)
  /\ main \in {"setup", "popen", "poll", "read"} => cnt < MAX_CNT
  /\ cnt <= MAX_CNT + Capacity - 1
  /\ main = "record" => cnt + Cardinality(Pending) <= MAX_CNT + Capacity - 1

\* What has no arithmetic.
FlagInv ==
  /\ missed \in BOOLEAN /\ waking \in BOOLEAN /\ ready \in BOOLEAN /\ failed \in BOOLEAN
  /\ copy_size \in {0, SAMPLE, LOST}

\* Every step leaves a flag a flag.
LEMMA FlagStep == FlagInv /\ [Next]_vars => FlagInv'
  <1> SUFFICES ASSUME FlagInv, [Next]_vars PROVE FlagInv'
    OBVIOUS
  <1>1. missed' \in BOOLEAN /\ waking' \in BOOLEAN /\ ready' \in BOOLEAN /\ failed' \in BOOLEAN
    BY Zenon DEF FlagInv, Next, Main, bpf_perf_event_output, Announce, SetUp, TakeStartTime,
       Wait, TimeOut, WaitFails, ReadHead, ProcessRecord, CopyFails, AllProcessed, WriteTail,
       Test, kernel, reader, vars
  <1>2. copy_size' \in {0, SAMPLE, LOST}
    BY DEF FlagInv, Next, Main, bpf_perf_event_output, Announce, SetUp, TakeStartTime,
       Wait, TimeOut, WaitFails, ReadHead, ProcessRecord, CopyFails, AllProcessed, WriteTail,
       Test, Size, reader, vars
  <1>3. QED
    BY <1>1, <1>2 DEF FlagInv

\* What is pending is finite.
LEMMA PendingFinite == TypeInv => IsFiniteSet(Pending) /\ Cardinality(Pending) \in Nat
  <1> SUFFICES ASSUME TypeInv PROVE IsFiniteSet(Pending)
    BY FS_CardinalityType
  <1>1. head \in Nat /\ pos + 1 \in Int
    BY DEF TypeInv
  <1>2. IsFiniteSet((pos + 1)..head)
    BY <1>1, FS_Interval
  <1>3. QED
    BY <1>2, FS_Subset DEF Pending

\* The kernel keeps within the ring, and the user program within its snapshot.
LEMMA RoomStep == IInv /\ RoomInv /\ [Next]_vars => RoomInv'
  <1> SUFFICES ASSUME IInv, RoomInv, [Next]_vars PROVE RoomInv'
    OBVIOUS
  <1>0. /\ TypeInv /\ TypeInv' /\ AnnouncedInv
        /\ ring \in Seq(Kinds) /\ head \in Nat /\ pos \in Nat /\ cnt \in Nat
        /\ pos <= head /\ head <= Len(ring) /\ Len(ring) \in Nat
        /\ MAX_CNT \in Nat \ {0} /\ Capacity \in Nat /\ RingBytes \in Nat \ {0}
        /\ Bytes(ring) \in Nat /\ Cardinality(Pending) \in Nat
    BY IInvStep, CapacityNat, PendingFinite, BytesNat, PerfAssumption DEF IInv, TypeInv
  <1>1. CASE UNCHANGED <<ring, tail, main, cnt, head, pos>>
    BY <1>1 DEF RoomInv, Pending
  <1>2. CASE bpf_perf_event_output
    <2>0. UNCHANGED <<tail, main, cnt, head, pos>>
      BY <1>2 DEF bpf_perf_event_output, reader
    <2>1. CASE Fits /\ ring' = ring \o Entry
      <3>1. Bytes(ring') < RingBytes
        BY <1>0, <2>1, AppendBytes DEF Fits
      <3>2. \A j \in 1..Len(ring) : ring'[j] = ring[j]
        BY <1>0, <2>1, EntryFacts
      <3>3. Pending' = Pending
        BY <1>0, <2>0, <3>2 DEF Pending
      <3>4. QED
        BY <2>0, <3>1, <3>3 DEF RoomInv
    <2>2. CASE ring' = ring
      BY <1>1, <2>0, <2>2
    <2>3. QED
      BY <1>2, <2>1, <2>2 DEF bpf_perf_event_output
  <1>3. CASE ReadHead
    <2>1. /\ main = "read" /\ main' = "record" /\ head' = Len(ring) /\ pos' = 0
          /\ UNCHANGED <<ring, tail, cnt>>
      BY <1>3 DEF ReadHead
    <2>2. Pending' = {j \in DOMAIN ring : ring[j] = "sample"}
      BY <1>0, <2>1 DEF Pending
    <2>3. Cardinality(Pending') = Count(ring, "sample")
      BY <2>2 DEF Count
    <2>4. Count(ring, "sample") \in Nat /\ Count(ring, "sample") <= Capacity
      <3>1. /\ RingBytes - 1 \in Nat /\ SAMPLE \in Nat \ {0}
            /\ Count(ring, "sample") \in Nat
            /\ SAMPLE * Count(ring, "sample") <= RingBytes - 1
        BY <1>0, BytesNat, CountNat, PerfAssumption DEF RoomInv
      <3>2. QED
        BY <3>1, DivBound DEF Capacity
    <2>5. QED
      BY <1>0, <2>1, <2>3, <2>4 DEF RoomInv
  <1>4. CASE ProcessRecord
    <2>1. /\ main = "record" /\ pos < head /\ pos' = pos + 1
          /\ UNCHANGED <<ring, tail, main, head>>
      BY <1>4 DEF ProcessRecord
    <2>2. cnt' = IF ring[pos + 1] = "sample" THEN cnt + 1 ELSE cnt
      BY <1>4 DEF ProcessRecord, CountSample, Record
    <2>3. /\ cnt' + Cardinality(Pending') = cnt + Cardinality(Pending)
          /\ cnt' \in Nat /\ Cardinality(Pending') \in Nat
      <3>1. CASE ring[pos + 1] = "sample"
        <4>1. Pending' = Pending \ {pos + 1} /\ pos + 1 \in Pending
          BY <1>0, <2>1, <3>1 DEF Pending
        <4>2. Cardinality(Pending') = Cardinality(Pending) - 1 /\ Cardinality(Pending') \in Nat
          BY <1>0, <4>1, PendingFinite, FS_RemoveElement, FS_CardinalityType
        <4>3. QED
          BY <1>0, <2>2, <3>1, <4>2
      <3>2. CASE ring[pos + 1] # "sample"
        <4>1. Pending' = Pending
          BY <1>0, <2>1, <3>2 DEF Pending
        <4>2. QED
          BY <1>0, <2>2, <3>2, <4>1
      <3>3. QED
        BY <3>1, <3>2
    <2>4. QED
      BY <1>0, <2>1, <2>3 DEF RoomInv
  <1>5. CASE WriteTail
    <2>1. /\ main' = "test" /\ ring' = SubSeq(ring, pos + 1, Len(ring)) /\ cnt' = cnt
          /\ tail' = Offset
      BY <1>5 DEF WriteTail
    <2>2. Bytes(ring') \in Nat /\ Bytes(ring') <= Bytes(ring)
      <3>1. ring' \in Seq(Kinds)
        BY <1>0 DEF TypeInv
      <3>2. QED
        BY <1>0, <2>1, <3>1, SuffixBytes, BytesNat
    <2>3. Offset \in 0..(RingBytes - 1)
      <3>1. SubSeq(ring, 1, pos) \in Seq(Kinds)
        BY <1>0
      <3>2. Bytes(SubSeq(ring, 1, pos)) \in Nat
        BY <3>1, BytesNat
      <3>3. \A a, b \in Nat : (a + b) % RingBytes \in 0..(RingBytes - 1)
        BY <1>0
      <3>4. tail \in Nat
        BY <1>0 DEF RoomInv
      <3>5. QED
        BY <3>2, <3>3, <3>4 DEF Offset
    <2>4. QED
      BY <1>0, <2>1, <2>2, <2>3 DEF RoomInv
  <1>6. CASE Test
    <2>1. /\ (main' = "poll" /\ cnt < MAX_CNT) \/ main' = "done"
          /\ UNCHANGED <<ring, tail, cnt>>
      BY <1>6 DEF Test, reader
    <2>2. QED
      BY <2>1 DEF RoomInv
  <1>7. CASE SetUp \/ TakeStartTime \/ Wait \/ TimeOut \/ WaitFails \/ CopyFails \/ AllProcessed
    <2>1. /\ UNCHANGED <<ring, tail, cnt>>
          /\ \/ main \in {"setup", "popen", "poll"} /\ main' # "record"
             \/ main' = "publish"
      BY <1>7 DEF SetUp, TakeStartTime, Wait, TimeOut, WaitFails, CopyFails, AllProcessed, reader
    <2>2. QED
      BY <2>1 DEF RoomInv
  <1>8. QED
    BY <1>1, <1>2, <1>3, <1>4, <1>5, <1>6, <1>7 DEF Next, Main, Announce, reader, vars

\* The ring of perf_buffer__new never overflows, so that a full one is never taken
\* for an empty one; print_bpf_output counts at most a ringful beyond MAX_CNT;
\* the copy buffer has the size of a record.
THEOREM TypeCorrect == Spec => []TypeOK
  <1>1. Init => RoomInv /\ FlagInv
    <2> SUFFICES ASSUME Init PROVE RoomInv /\ FlagInv
      OBVIOUS
    <2>1. /\ {j \in DOMAIN ring : ring[j] = "sample"} = {}
          /\ {j \in DOMAIN ring : ring[j] = "lost"} = {}
      BY DEF Init
    <2>2. Count(ring, "sample") = 0 /\ Count(ring, "lost") = 0
      BY <2>1, FS_EmptySet DEF Count
    <2>3. Bytes(ring) = 0 /\ RingBytes \in Nat \ {0} /\ MAX_CNT \in Nat \ {0}
      BY <2>2, PerfAssumption DEF Bytes
    <2>4. RoomInv
      BY <2>3, CapacityNat DEF Init, RoomInv
    <2>5. FlagInv
      BY Zenon DEF Init, FlagInv
    <2>6. QED
      BY <2>4, <2>5
  <1>2. IInv /\ RateInv /\ RoomInv /\ FlagInv => TypeOK
    BY CapacityNat, PerfAssumption DEF IInv, TypeInv, RateInv, RoomInv, FlagInv, TypeOK, Kinds
  <1>3. QED
    BY <1>1, <1>2, Invariance, RateInit, RateStep, RoomStep, FlagStep, PTL DEF Spec
=============================================================================
