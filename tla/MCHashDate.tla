----------------------------- MODULE MCHashDate -----------------------------
(* One run for the hash table and the dates.  They share no state: a       *)
(* behaviour is one of a single part.                                      *)
EXTENDS MCHash, MCDate

VARIABLE part

AllInit == Init /\ DateInit /\ part \in {"hash", "date"}

AllNext ==
  \/ part = "hash" /\ Next /\ UNCHANGED <<dateVars, part>>
  \/ part = "date" /\ DateNext /\ UNCHANGED <<vars, part>>

AllSpec == AllInit /\ [][AllNext]_<<vars, dateVars, part>>
=============================================================================
