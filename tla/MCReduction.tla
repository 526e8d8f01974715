---------------------------- MODULE MCReduction ----------------------------
(* Files for Reduction.  Pages of 21 bytes are read in three chunks of seven *)
(* bytes, two triples each: 7 is 1 modulo 3, as 256 is.                      *)
EXTENDS Reduction

\* Ten bytes "xx xx xx 5": all pairs of two digits, a space and a minus sign,
\* fewer in the last place, and a plus sign or a zero byte in the first.
Alphabet == {48, 55, 32, 45}
Pairs == Alphabet \X Alphabet
Triples == {<<a[1], a[2], 32, b[1], b[2], 10, c[1], c[2], 32, 53>> :
              a \in Pairs \cup {<<43, 55>>, <<55, 0>>}, b \in Pairs,
              c \in {<<48, 55>>, <<32, 55>>, <<45, 48>>, <<55, 32>>}}

\* n bytes of a file that repeats the numbers 12 34 56 78.
Repeat(n) ==
  LET numbers == <<49, 50, 32, 51, 52, 32, 53, 54, 32, 55, 56, 32>>
  IN  [k \in 1..n |-> numbers[((k - 1) % 12) + 1]]

\* n bytes of a file in which every number is the same.
Constant(t, u, n) ==
  SubSeq([k \in 1..n |-> CASE k % 3 = 1 -> t [] k % 3 = 2 -> u [] OTHER -> 32],
         1, n)

SmallFiles == Triples \cup {Repeat(n) : n \in 0..21}
                \cup {Constant(48, 57, 21), Constant(57, 48, 21)}
Itself(f) == f

\* A page of 4096 bytes in which every number is 12.
Page12 == Constant(49, 50, 4096)
PageOfTwelves(f) == Page12
=============================================================================
