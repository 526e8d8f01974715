----------------------------- MODULE Perfarray -----------------------------
(***************************************************************************)
(* perfarray: a kprobe that puts a record into the ring buffer of CPU 0    *)
(* whenever it runs there, and a user program that polls the ring, counts  *)
(* MAX_CNT records and prints their rate.  The reader takes a snapshot of  *)
(* the head, works through the records up to it, and only then gives their *)
(* room back, while the kprobe goes on.                                    *)
(***************************************************************************)
EXTENDS Integers, Sequences, FiniteSets

CONSTANTS
  MAX_CNT,     \* how many records are counted, 100000 in the code
  RingBytes,   \* the size of the ring, 8 pages in the code
  SAMPLE,      \* the bytes of a record
  LOST         \* the bytes of the record that says records were lost

ASSUME PerfAssumption ==
  /\ {MAX_CNT, RingBytes, SAMPLE, LOST} \subseteq Nat \ {0}
  /\ SAMPLE + LOST < RingBytes

VARIABLES
  ring,      \* the records between tail and head, "sample" or "lost"
  tail,      \* the position of the first one
  missed,    \* the kernel has refused records and not said so yet
  waking,    \* the kprobe has put in a record and not yet announced it
  ready,     \* the ring is announced to epoll_wait
  main,      \* where the user program is
  head,      \* the records it has seen in the ring
  pos,       \* the records among them it is done with
  copy_size, \* the buffer for records that wrap around
  cnt,
  failed,    \* perf_buffer__poll has returned an error
  sent,      \* samples put into the ring
  since,     \* events since start_time was taken, up to MAX_CNT
  reports    \* how often the rate has been printed

kernel == <<missed, waking>>
reader == <<head, pos, copy_size, cnt, failed, reports>>
vars   == <<ring, tail, missed, waking, ready, main, head, pos, copy_size, cnt,
            failed, sent, since, reports>>

Init ==
  /\ ring = <<>> /\ tail = 0
  /\ missed = FALSE /\ waking = FALSE /\ ready = FALSE
  /\ main = "setup"
  /\ head = 0 /\ pos = 0 /\ copy_size = 0
  /\ cnt = 0 /\ failed = FALSE
  /\ sent = 0 /\ since = 0 /\ reports = 0

Size(r) == IF r = "sample" THEN SAMPLE ELSE LOST

\* The number and the bytes of the records of a sequence.
Count(s, r) == Cardinality({i \in DOMAIN s : s[i] = r})
Bytes(s)    == SAMPLE * Count(s, "sample") + LOST * Count(s, "lost")

-----------------------------------------------------------------------------
(* bpf_prog1 on CPU 0.  On another CPU bpf_perf_event_output fails, because *)
(* the index 0 names the ring of CPU 0.                                     *)

Installed == main \notin {"setup", "done"}

Tick == since' = IF since < MAX_CNT THEN since + 1 ELSE since

\* What one call puts in: a note of the records refused before it, if there
\* were any, and its own.
Entry == IF missed THEN <<"lost", "sample">> ELSE <<"sample">>

Fits == Bytes(ring) + Bytes(Entry) < RingBytes

bpf_perf_event_output ==
  /\ Installed /\ ~waking
  /\ Tick
  /\ \/ /\ Fits
        /\ ring' = ring \o Entry
        /\ missed' = FALSE
        /\ waking' = TRUE
        /\ sent' = sent + 1
     \/ /\ ~Fits
        /\ missed' = TRUE
        /\ UNCHANGED <<ring, waking, sent>>
  /\ UNCHANGED <<tail, ready, main, reader>>

Announce ==
  /\ waking
  /\ waking' = FALSE
  /\ ready' = TRUE
  /\ UNCHANGED <<ring, tail, missed, main, reader, sent, since>>

-----------------------------------------------------------------------------
(* main of perfarray_user.c *)

\* perf_buffer__new
SetUp ==
  /\ main = "setup"
  /\ main' \in {"popen", "done"}
  /\ failed' = (main' = "done")
  /\ UNCHANGED <<ring, tail, kernel, ready, head, pos, copy_size, cnt, reports,
                 sent, since>>

\* start_time is taken once dd has been started.
TakeStartTime ==
  /\ main = "popen"
  /\ main' = "poll"
  /\ since' = 0
  /\ UNCHANGED <<ring, tail, kernel, ready, reader, sent>>

\* epoll_wait: it withdraws the announcement, runs into the timeout, or fails.
Wait ==
  /\ main = "poll" /\ ready
  /\ ready' = FALSE
  /\ main' = "read"
  /\ UNCHANGED <<ring, tail, kernel, reader, sent, since>>

TimeOut ==
  /\ main = "poll" /\ ~ready
  /\ main' = "test"
  /\ UNCHANGED <<ring, tail, kernel, ready, reader, sent, since>>

WaitFails ==
  /\ main = "poll"
  /\ main' = "test"
  /\ failed' = TRUE
  /\ UNCHANGED <<ring, tail, kernel, ready, head, pos, copy_size, cnt, reports,
                 sent, since>>

\* bpf_perf_event_read_simple: ring_buffer_read_head
ReadHead ==
  /\ main = "read"
  /\ head' = Len(ring) /\ pos' = 0
  /\ main' = "record"
  /\ UNCHANGED <<ring, tail, kernel, ready, copy_size, cnt, failed, reports, sent,
                 since>>

Record == ring[pos + 1]
Offset == (tail + Bytes(SubSeq(ring, 1, pos))) % RingBytes
Wraps  == Offset + Size(Record) > RingBytes

\* perf_buffer__process_record and print_bpf_output; there is no lost_cb.
CountSample(r) == cnt' = IF r = "sample" THEN cnt + 1 ELSE cnt

\* Mutant: printed from MAX_CNT on.
PrintFrom == reports' = IF cnt' >= MAX_CNT THEN reports + 1 ELSE reports

PrintRate == reports' = IF cnt # MAX_CNT /\ cnt' = MAX_CNT THEN reports + 1 ELSE reports

ProcessRecord ==
  /\ main = "record" /\ pos < head
  /\ copy_size' = IF Wraps /\ copy_size < Size(Record) THEN Size(Record) ELSE copy_size
  /\ CountSample(Record)
  /\ PrintRate
  /\ pos' = pos + 1
  /\ UNCHANGED <<ring, tail, kernel, ready, main, head, failed, sent, since>>

\* malloc of the copy fails.
CopyFails ==
  /\ main = "record" /\ pos < head
  /\ Wraps /\ copy_size < Size(Record)
  /\ copy_size' = 0
  /\ failed' = TRUE
  /\ main' = "publish"
  /\ UNCHANGED <<ring, tail, kernel, ready, head, pos, cnt, reports, sent, since>>

\* Mutant: a ring that was announced is taken to hold a record.
ProcessedSome ==
  /\ main = "record" /\ pos = head /\ head > 0
  /\ main' = "publish"
  /\ UNCHANGED <<ring, tail, kernel, ready, reader, sent, since>>

AllProcessed ==
  /\ main = "record" /\ pos = head
  /\ main' = "publish"
  /\ UNCHANGED <<ring, tail, kernel, ready, reader, sent, since>>

\* Mutant: everything in the ring is given back, not only what was processed.
PublishAll ==
  /\ main = "publish"
  /\ tail' = (tail + Bytes(ring)) % RingBytes
  /\ ring' = <<>>
  /\ head' = 0 /\ pos' = 0
  /\ main' = "test"
  /\ UNCHANGED <<kernel, ready, copy_size, cnt, failed, reports, sent, since>>

\* Mutant: the announcement is withdrawn after the ring was read.
PublishAndForget ==
  /\ main = "publish"
  /\ tail' = Offset
  /\ ring' = SubSeq(ring, pos + 1, Len(ring))
  /\ head' = 0 /\ pos' = 0
  /\ main' = "test"
  /\ ready' = FALSE
  /\ UNCHANGED <<kernel, copy_size, cnt, failed, reports, sent, since>>

\* ring_buffer_write_tail
WriteTail ==
  /\ main = "publish"
  /\ tail' = Offset
  /\ ring' = SubSeq(ring, pos + 1, Len(ring))
  /\ head' = 0 /\ pos' = 0
  /\ main' = "test"
  /\ UNCHANGED <<kernel, ready, copy_size, cnt, failed, reports, sent, since>>

\* Mutant: start_time is taken anew for every poll.
TestAndRestart ==
  /\ main = "test"
  /\ main' = IF ~failed /\ cnt < MAX_CNT THEN "poll" ELSE "done"
  /\ since' = 0
  /\ UNCHANGED <<ring, tail, kernel, ready, reader, sent>>

\* The condition of the loop.
Test ==
  /\ main = "test"
  /\ main' = IF ~failed /\ cnt < MAX_CNT THEN "poll" ELSE "done"
  /\ UNCHANGED <<ring, tail, kernel, ready, reader, sent, since>>

Main == \/ SetUp \/ TakeStartTime \/ Wait \/ TimeOut \/ ReadHead \/ ProcessRecord
        \/ AllProcessed \/ WriteTail \/ Test

Next == bpf_perf_event_output \/ Announce \/ Main \/ WaitFails \/ CopyFails

Spec == Init /\ [][Next]_vars

\* dd goes on reading on CPU 0, the kernel announces what it has put in, and the
\* user program runs; it need not meet with an error.
FairSpec == Spec /\ WF_vars(bpf_perf_event_output) /\ WF_vars(Announce) /\ WF_vars(Main)

-----------------------------------------------------------------------------
(* Properties *)

Capacity == (RingBytes - 1) \div SAMPLE

\* The samples in the ring that the user program has not come to yet.
Unread == {i \in (pos + 1)..Len(ring) : ring[i] = "sample"}

\* The ring is never so full that head meets tail, the copy buffer has the size
\* of a record, and the program counts at most a ringful beyond MAX_CNT.
TypeOK ==
  /\ ring \in Seq({"sample", "lost"}) /\ Bytes(ring) < RingBytes
  /\ tail \in 0..(RingBytes - 1)
  /\ {missed, waking, ready, failed} \subseteq BOOLEAN
  /\ main \in {"setup", "popen", "poll", "read", "record", "publish", "test", "done"}
  /\ head \in 0..Len(ring) /\ pos \in 0..head
  /\ copy_size \in {0, SAMPLE, LOST}
  /\ cnt \in 0..(MAX_CNT + Capacity - 1)
  /\ sent \in Nat /\ since \in 0..MAX_CNT /\ reports \in Nat

\* Every sample that was put into the ring is counted once: neither skipped when
\* the tail is written nor read again after an interrupted pass.
EachCountedOnce == sent = cnt + Cardinality(Unread)

\* While the user program waits, a ring that holds records is announced or about
\* to be: records that arrive while the ring is being read are not forgotten.
NoRecordStranded == main = "poll" /\ ring # <<>> => ready \/ waking

\* The rate is printed once, although the program may count on past MAX_CNT to
\* the end of its snapshot.
PrintedOnce == reports = IF cnt >= MAX_CNT THEN 1 ELSE 0

\* The events counted for the rate happened after start_time, except for what
\* fitted into the ring before it.
RateWithinOneRing == reports > 0 => since >= MAX_CNT - Capacity

\* The program ends: neither a full ring nor lost records keep it waiting.
Finishes == <>(main = "done")
=============================================================================
