----------------------------- MODULE MCBackfill -----------------------------
(* Instances of Backfill for TLC: which faults strike.                     *)
EXTENDS Backfill, TLC

NoFaults == [f \in Faults |-> 0]
(* the chain breaks, but no message is delivered twice *)
BreakingFaults == [NoFaults EXCEPT !["task"] = 1, !["publish"] = 1, !["doubtful"] = 1]
(* the chain is duplicated as well *)
OneHostDeath == [NoFaults EXCEPT !["host"] = 1]

Symmetry == Permutations(Entities) \cup Permutations(Workers)
=============================================================================
