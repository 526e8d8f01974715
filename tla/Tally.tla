------------------------------- MODULE Tally -------------------------------
(***************************************************************************)
(* What a map that counts events promises to the program that reads it.    *)
(* An exact tally is the number of events.  An inexact one may forget      *)
(* events, even ones it has counted already, but it never exceeds their    *)
(* number, and an event that is counted leaves it at 1 or more until the   *)
(* reader sets it to 0.  One that is rewritten may be set to an earlier    *)
(* count without an event.                                                 *)
(***************************************************************************)
EXTENDS Naturals

CONSTANT Keys   \* what is counted

VARIABLES
  kind,   \* "exact", "lossy" or "rewritten", which stays
  hits,   \* how many events there have been
  value   \* what the map says

tallyVars == <<kind, hits, value>>

TallyInit ==
  /\ kind \in {"exact", "lossy", "rewritten"}
  /\ hits = [k \in Keys |-> 0]
  /\ value = [k \in Keys |-> 0]

Count(k) ==
  /\ hits' = [hits EXCEPT ![k] = @ + 1]
  /\ \E v \in 1..(hits[k] + 1) :
       /\ value' = [value EXCEPT ![k] = v]
       /\ kind = "exact" => v = value[k] + 1

Forget(k) ==
  /\ kind # "exact"
  /\ hits' = [hits EXCEPT ![k] = @ + 1]
  /\ UNCHANGED value

Reset(k) ==
  /\ kind # "exact"
  /\ value' = [value EXCEPT ![k] = 0]
  /\ UNCHANGED hits

Rewrite(k) ==
  /\ kind = "rewritten"
  /\ \E v \in 1..hits[k] : value' = [value EXCEPT ![k] = v]
  /\ UNCHANGED hits

TallyNext == /\ \E k \in Keys : Count(k) \/ Forget(k) \/ Reset(k) \/ Rewrite(k)
             /\ UNCHANGED kind

TallySpec == TallyInit /\ [][TallyNext]_tallyVars
=============================================================================
