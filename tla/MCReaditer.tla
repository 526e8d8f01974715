----------------------------- MODULE MCReaditer -----------------------------
(* Instances of Readiter: pages of seven bytes hold two numbers. *)
EXTENDS Readiter, Sequences, TLC

CONSTANTS o, p, q  \* the owner and two other readers

Bytes(s) == [j \in 0..(UBUFFSIZE - 1) |-> s[j + 1]]

MCPages == {
  Bytes(<<49, 50, 32, 51, 52, 32, 53>>),   \* "12 34 5"
  Bytes(<<48, 57, 32, 48, 50, 32, 49>>),   \* "09 02 1"
  Bytes(<<48, 55, 10, 0, 0, 0, 0>>) }      \* "07\n", a file shorter than a page

\* Every process has a buffer at an address of its own.
BufDistinct == (o :> 1) @@ (p :> 2)

\* p's buffer has the owner's virtual address, q reads into the null pointer.
BufShared == (o :> 1) @@ (p :> 1) @@ (q :> 0)
=============================================================================
