------------------------------ MODULE Strtoul ------------------------------
(***************************************************************************)
(* The two kernel helpers every reduction of this repository calls on the  *)
(* bytes of a page: bpf_probe_read_str and bpf_strtoul.  They are not part *)
(* of the repository; they are modelled from the way the probes use them:  *)
(* three bytes of "NN " at a time, base 10, a negative result meaning that *)
(* no number was found.  Bytes keep their ASCII codes.                     *)
(***************************************************************************)
EXTENDS Integers

Byte    == 0..255
NUL     == 0
IsDigit(c) == c \in 48..57
IsSpace(c) == c = 32 \/ c \in 9..13
Digit(c)   == c - 48

\* bpf_strtoul on the string of the two bytes a, b (which a NUL may cut
\* short) succeeds: leading white space is skipped and one digit must follow.
Parses(a, b) == IsDigit(a) \/ (IsSpace(a) /\ IsDigit(b))

\* The number bpf_strtoul stores when it succeeds; 0 stands for no number.
Number(a, b) ==
  CASE IsDigit(a) /\ IsDigit(b)  -> 10 * Digit(a) + Digit(b)
    [] IsDigit(a) /\ ~IsDigit(b) -> Digit(a)
    [] IsSpace(a) /\ IsDigit(b)  -> Digit(b)
    [] OTHER                     -> 0

\* The same for three bytes, none of which is cut off.
Parses3(a, b, c) == Parses(a, b) \/ (IsSpace(a) /\ Parses(b, c))

Number3(a, b, c) ==
  IF IsSpace(a) THEN Number(b, c)
  ELSE IF IsDigit(a) /\ IsDigit(b) /\ IsDigit(c)
       THEN 10 * Number(a, b) + Digit(c)
       ELSE Number(a, b)
=============================================================================
