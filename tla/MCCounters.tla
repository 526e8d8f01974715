---------------------------- MODULE MCCounters ----------------------------
(* Three addresses for a hash map of two entries. *)
EXTENDS Counters

CONSTANTS c1, c2

MCIps == <<"ip1", "ip2", "ip3">>
=============================================================================
