--------------------------- MODULE MCRandomValues ---------------------------
(* One run for the pools, the calls on top of them, the variable-length    *)
(* integers and the clocks.  They share no state: a behaviour is one of a  *)
(* single part.                                                            *)
EXTENDS MCRandomPool, MCRandomCalls, MCVarint, MCTime

VARIABLE part

allVars == <<vars, callsVars, varintVars, timeVars, part>>

AllInit == /\ Init /\ CallsInit /\ VarintInit /\ TimeInit
           /\ part \in {"pool", "calls", "varint", "timespec"}
           /\ part # "pool" => seed_era["parent"] = 1
           /\ part # "varint" => fill = {}

\* Threads that have used up the calls and the seeds of the bounds do nothing more.
Idle == part = "pool" /\ UNCHANGED allVars

AllNext ==
  \/ part = "pool" /\ Next /\ UNCHANGED <<callsVars, varintVars, timeVars, part>>
  \/ part = "calls" /\ CallsNext /\ UNCHANGED <<vars, varintVars, timeVars, part>>
  \/ part = "varint" /\ VarintNext /\ UNCHANGED <<vars, callsVars, timeVars, part>>
  \/ part = "timespec" /\ TimeNext /\ UNCHANGED <<vars, callsVars, varintVars, part>>
  \/ Idle

AllSpec == AllInit /\ [][AllNext]_allVars
=============================================================================
