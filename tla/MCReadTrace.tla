---------------------------- MODULE MCReadTrace ----------------------------
(* Process 1 runs the user program.  Process 2 reads its standard input, and *)
(* process 3 another descriptor into the address of the user program's       *)
(* buffer.                                                                   *)
EXTENDS ReadTrace

MCFd   == [p \in Procs |-> CASE p = 1 -> 3 [] p = 2 -> 0 [] OTHER -> 5]
MCBuf  == [p \in Procs |-> IF p = 2 THEN 8209 ELSE 4112]
MCData == [p \in Procs |-> 64 + p]
=============================================================================
