----------------------------- MODULE MCOverride -----------------------------
(* The user program, a process with a buffer at the same address that reads  *)
(* /proc to the end, and one at another address that reads it once.          *)
EXTENDS Override

CONSTANTS me, rival, other

MCAddr == [p \in {me, rival, other} |-> IF p = other THEN "b" ELSE "a"]
=============================================================================
