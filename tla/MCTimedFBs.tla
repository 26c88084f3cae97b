----------------------------- MODULE MCTimedFBs -----------------------------
(* Instances of the timed function blocks for TLC *)
EXTENDS TimedFBs, TLC

CONSTANTS delay, rdelay, cycle

\* Each block is of the type it is named for.
KindOf == (delay :> "E_DELAY") @@ (rdelay :> "E_RDELAY") @@ (cycle :> "E_CYCLE")
MCKind == [fb \in FB |-> KindOf[fb]]
=============================================================================
