----------------------------- MODULE MCCpuStat -----------------------------
(* Two CPUs, of which only one has events, with two idle states and two      *)
(* operating points; a third frequency is not in the table.                  *)
EXTENDS CpuStat

MCOpps == [n \in 0..1 |-> IF n = 0 THEN 208 ELSE 432]

Serial     == [overlap |-> FALSE, watching |-> TRUE, until |-> 4]
Overlapped == [overlap |-> TRUE, watching |-> FALSE, until |-> 3]

BothModes      == {Serial, Overlapped}
OverlappedOnly == {Overlapped}
=============================================================================
