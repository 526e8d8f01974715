---------------------------- MODULE MCPerfarray ----------------------------
(* A ring that holds five samples, and eight to be counted. *)
EXTENDS Perfarray
=============================================================================
