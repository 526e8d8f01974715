----------------------------- MODULE Reduction -----------------------------
(***************************************************************************)
(* The three other reductions of a file of two-digit numbers: the tail     *)
(* call of tailcall_kern.c over its first nine bytes, the user-space       *)
(* benchmark userbench.c, and its offloaded counterpart bpfbench_kern.c,   *)
(* which reads the page in 16 chunks of 256 bytes.  Each is a loop over    *)
(* triples of bytes; they run one after the other on the same file so that *)
(* their results can be compared.  Who is handed the result, and when, is  *)
(* the subject of Readiter.                                                *)
(***************************************************************************)
EXTENDS Strtoul, Sequences

CONSTANTS
  Files,      \* the files
  Content(_), \* the bytes of each, at most a page of them
  UBUFFSIZE,  \* the buffer of the tail call, 9
  CHUNK,      \* the buffer of bpfbench, its UBUFFSIZE, 256
  TRIPLES,    \* triples bpfbench takes from a chunk, 85
  CHUNKS,     \* chunks of a page, 16
  Stack,      \* bytes an uninitialised part of the stack may hold
  ULONG       \* the numbers of an unsigned long are 0..ULONG - 1

PAGE_SIZE == CHUNK * CHUNKS

ASSUME ChunkAssumption ==
  /\ {CHUNK, TRIPLES, CHUNKS} \subseteq Nat \ {0}
  /\ 3 * TRIPLES < CHUNK /\ UBUFFSIZE = 9
\* Numbers of two digits, one for each byte of a page, do not overflow a sum.
ASSUME SumAssumption == ULONG \in Nat /\ 99 * PAGE_SIZE < ULONG
ASSUME FileAssumption ==
  \A f \in Files : Content(f) \in Seq(Byte) /\ Len(Content(f)) <= PAGE_SIZE

VARIABLES
  file,      \* the file
  pc,        \* which loop runs
  userbuff,  \* the buffer of the probe that runs
  i, j,      \* the loop variables
  sum, elems,
  out        \* what each loop has arrived at

vars == <<file, pc, userbuff, i, j, sum, elems, out>>

text == Content(file)

\* The page cache holds the file and zeros after it.
PageByte(k) == IF k < Len(text) THEN text[k + 1] ELSE NUL

NoResult == -1

\* bpf_probe_read_str(userbuff, size, from + at): characters up to a zero
\* byte or to size - 1 of them, then a zero; the rest is what was there.
ReadStr(old, size, at) ==
  LET Inside(k) == \A m \in 0..k : PageByte(at + m) # NUL
  IN  [k \in 0..(size - 1) |->
         IF k < size - 1 /\ Inside(k) THEN PageByte(at + k)
         ELSE IF k = 0 \/ Inside(k - 1) THEN NUL ELSE old[k]]

Garbage(size) == {[k \in 0..(size - 1) |-> c] : c \in Stack}

Init ==
  /\ file \in Files
  /\ pc = "tail"
  /\ userbuff \in {ReadStr(g, UBUFFSIZE, 0) : g \in Garbage(UBUFFSIZE)}
  /\ i = 0 /\ j = 0 /\ sum = 0 /\ elems = 3
  /\ out = [tail |-> NoResult, user |-> NoResult, bench |-> NoResult]

-----------------------------------------------------------------------------
(* tailcall_kern.c: bpf_func_AVG_FUNC; elems is 3 from the start *)

\* Mutant: the loop ends with the last whole triple before UBUFFSIZE - 3.
InTailShort == pc = "tail" /\ i < UBUFFSIZE - 3

InTail == pc = "tail" /\ i < UBUFFSIZE

\* userbench starts on its own locals.
EnterUser ==
  /\ pc' = "user"
  /\ i' = 0 /\ sum' = 0 /\ elems' = 0
  /\ UNCHANGED <<file, userbuff, j>>

TailTurn ==
  /\ InTail
  /\ Parses(userbuff[i], userbuff[i + 1])
  /\ sum' = (sum + Number(userbuff[i], userbuff[i + 1])) % ULONG
  /\ i' = i + 3
  /\ UNCHANGED <<file, pc, userbuff, j, elems, out>>

\* res < 0: return 1
TailGivesUp ==
  /\ InTail
  /\ ~Parses(userbuff[i], userbuff[i + 1])
  /\ EnterUser
  /\ UNCHANGED out

TailPublishes ==
  /\ pc = "tail" /\ ~InTail
  /\ out' = [out EXCEPT !.tail = sum \div elems]
  /\ EnterUser

-----------------------------------------------------------------------------
(* userbench.c: main, after read(fd, buf, 4096) *)

readbytes == Len(text)

\* Mutant: the loop stops one number early.
InUserShort == pc = "user" /\ i < readbytes - 6

InUser == pc = "user" /\ i < readbytes - 3

\* The value of the digits of s that start at first.
Value(s, first) ==
  LET Val[k \in (first - 1)..Len(s)] ==
        IF k < first THEN 0
        ELSE IF \A m \in first..k : IsDigit(s[m])
             THEN 10 * Val[k - 1] + Digit(s[k])
             ELSE Val[k - 1]
  IN  Val[Len(s)]

\* strtoul of the C library on the three bytes of curr and the one that
\* happens to follow them: white space, a sign, digits; 0 without digits.
Libc(s) ==
  LET start == CHOOSE k \in 1..(Len(s) + 1) :
                 /\ \A m \in 1..(k - 1) : IsSpace(s[m])
                 /\ k <= Len(s) => ~IsSpace(s[k])
      sign  == start <= Len(s) /\ s[start] \in {43, 45}
      first == IF sign THEN start + 1 ELSE start
      value == IF first > Len(s) THEN 0 ELSE Value(s, first)
  IN  IF sign /\ s[start] = 45 THEN (ULONG - value) % ULONG ELSE value

\* num < 0 is never true of an unsigned long.
UserTurn ==
  /\ InUser
  /\ \E c \in Stack :
       sum' = (sum + Libc(<<text[i + 1], text[i + 2], text[i + 3], c>>)) % ULONG
  /\ elems' = elems + 1
  /\ i' = i + 3
  /\ UNCHANGED <<file, pc, userbuff, j, out>>

\* bpfbench starts: a first read of the whole buffer, then the locals.
EnterBench ==
  /\ pc' = "read"
  /\ userbuff' \in {ReadStr(g, CHUNK, 0) : g \in Garbage(CHUNK)}
  /\ i' = 0 /\ j' = 0 /\ sum' = 0 /\ elems' = 0
  /\ UNCHANGED file

\* avg = sum/elems; a file with no triple to count ends in a SIGFPE.
UserDivides ==
  /\ pc = "user" /\ ~InUser
  /\ out' = [out EXCEPT !.user = IF elems = 0 THEN NoResult ELSE sum \div elems]
  /\ EnterBench

-----------------------------------------------------------------------------
(* bpfbench_kern.c: bpf_copyout *)

\* ret = bpf_probe_read_str(userbuff, sizeof(userbuff), from + i * 256)
BenchReads ==
  /\ pc = "read" /\ i < CHUNKS
  /\ userbuff' = ReadStr(userbuff, CHUNK, i * CHUNK)
  /\ j' = 0
  /\ pc' = "bench"
  /\ UNCHANGED <<file, i, sum, elems, out>>

InChunk == pc = "bench" /\ j < TRIPLES

TripleParses ==
  Parses3(userbuff[3 * j], userbuff[3 * j + 1], userbuff[3 * j + 2])
TripleNumber ==
  Number3(userbuff[3 * j], userbuff[3 * j + 1], userbuff[3 * j + 2])

\* Mutant: the result of bpf_strtoul is not checked.
BenchTurnUnchecked ==
  /\ InChunk
  /\ sum' = (sum + TripleNumber) % ULONG
  /\ elems' = elems + 1
  /\ j' = j + 1
  /\ UNCHANGED <<file, pc, userbuff, i, out>>

BenchTurn ==
  /\ InChunk
  /\ TripleParses
  /\ sum' = (sum + TripleNumber) % ULONG
  /\ elems' = elems + 1
  /\ j' = j + 1
  /\ UNCHANGED <<file, pc, userbuff, i, out>>

\* res < 0: return 1
BenchGivesUp ==
  /\ InChunk
  /\ ~TripleParses
  /\ pc' = "done"
  /\ UNCHANGED <<file, userbuff, i, j, sum, elems, out>>

BenchNextChunk ==
  /\ pc = "bench" /\ ~InChunk
  /\ i' = i + 1
  /\ pc' = "read"
  /\ UNCHANGED <<file, userbuff, j, sum, elems, out>>

BenchPublishes ==
  /\ pc = "read" /\ i = CHUNKS
  /\ out' = [out EXCEPT !.bench = sum \div elems]
  /\ pc' = "done"
  /\ UNCHANGED <<file, userbuff, i, j, sum, elems>>

-----------------------------------------------------------------------------
Next ==
  \/ TailTurn \/ TailGivesUp \/ TailPublishes
  \/ UserTurn \/ UserDivides
  \/ BenchReads \/ BenchTurn \/ BenchGivesUp \/ BenchNextChunk \/ BenchPublishes

Spec == Init /\ [][Next]_vars

-----------------------------------------------------------------------------
(* Properties *)

\* The file is "NN NN NN ...", as the programs expect it.
Regular(t) ==
  \A k \in DOMAIN t : IF k % 3 = 0 THEN IsSpace(t[k]) ELSE IsDigit(t[k])

\* The numbers of a regular file whose two digits are both there, and the sum
\* of the first n of them.
NumbersIn(t) == (Len(t) + 1) \div 3
NumberAt(t, b) == Number(t[3 * b - 2], t[3 * b - 1])
Total(t, n) ==
  LET S[r \in (0..n) \X (0..n)] ==  \* the numbers after the r[1]-th up to the r[2]-th
        IF r[2] <= r[1] THEN 0
        ELSE IF r[2] = r[1] + 1 THEN NumberAt(t, r[2])
        ELSE LET mid == (r[1] + r[2]) \div 2 IN S[<<r[1], mid>>] + S[<<mid, r[2]>>]
  IN  S[<<0, n>>]

\* The tail call's result is that of the C library on the same bytes: if it
\* publishes an average, the three triples are numbers to strtoul as well,
\* white space and missing digits included, and the average is theirs.  It
\* takes nine bytes none of which is zero: after a zero byte the probe goes
\* on with what its stack held.
TailAgreesWithLibc ==
  (/\ out.tail # NoResult
   /\ Len(text) >= UBUFFSIZE
   /\ \A k \in 1..UBUFFSIZE : text[k] # NUL) =>
    out.tail = (  Libc(<<text[1], text[2]>>)
                + Libc(<<text[4], text[5]>>)
                + Libc(<<text[7], text[8]>>)) \div 3

\* userbench averages all the numbers of a regular file, but for the last one
\* unless a byte follows its separator, as in a whole page.  It prints nothing, for it has
\* divided by zero, exactly if the file has no fourth byte.
UserAverages ==
  pc \in {"read", "bench", "done"} =>
    /\ out.user = NoResult <=> Len(text) <= 3
    /\ (Len(text) > 3 /\ Regular(text)) =>
         LET n == IF Len(text) % 3 = 1 THEN NumbersIn(text) ELSE NumbersIn(text) - 1
         IN  out.user = Total(text, n) \div n

\* bpfbench publishes only for a file that reaches into the last chunk, and when
\* it has counted every triple of every chunk: a shorter file makes it return in
\* silence, though it has overridden the copy.  On a regular file of a whole page
\* it never counts more than is there: a triple it takes out of step loses a
\* digit and never gains one.
BenchNeedsWholePage ==
  /\ out.bench # NoResult =>
       elems = CHUNKS * TRIPLES /\ Len(text) > PAGE_SIZE - CHUNK
  /\ (pc \in {"read", "bench"} /\ Len(text) = PAGE_SIZE /\ Regular(text)) =>
       sum <= Total(text, NumbersIn(text))

\* result_map of bpfbench is "used to pass the average back to the user".
BenchAverageIsTheMean ==
  (out.bench # NoResult /\ Len(text) = PAGE_SIZE /\ Regular(text)) =>
    out.bench = Total(text, NumbersIn(text)) \div NumbersIn(text)
=============================================================================
