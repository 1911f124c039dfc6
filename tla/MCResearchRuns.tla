--------------------------- MODULE MCResearchRuns ---------------------------
(* Instances of ResearchRuns for TLC: how often tasks are retried and      *)
(* which faults strike.                                                    *)
EXTENDS ResearchRuns, TLC

RetryOnce == [k \in Kinds |-> 1]
RetryTwice == [k \in Kinds |-> 2]

NoFaults == [f \in Faults |-> 0]
(* faults after which nothing is delivered twice *)
LossFaults == [NoFaults EXCEPT !["api"] = 1, !["child"] = 1]
(* everything but the death of an API process, after which no task exists *)
AllTaskFaults == [f \in Faults |-> IF f = "api" THEN 0 ELSE 1]
OneHostFault == [NoFaults EXCEPT !["host"] = 1]

Symmetry == Permutations(Runs) \cup Permutations(Workers) \cup Permutations(Callers)
=============================================================================
