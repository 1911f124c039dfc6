----------------------------- MODULE MCOttQueue -----------------------------
(* Instances of OttQueue for TLC.                                          *)
EXTENDS OttQueue

CONSTANTS m1, m2, beat, orchestrator

OneMovie == {m1}
TwoMovies == {m1, m2}
TwoWorkers == {beat, orchestrator}

OpenOrNot == {"WAITING_RELEASE", "OPEN"}
AlwaysOpen == {"OPEN"}
SomeVerdicts == {"POSSIBLE", "CONFIRMED"}

(* A reachable state: queue_missing committed one row for each movie.      *)
Queued ==
  /\ owner = [i \in Rows |-> IF i = 1 THEN {m1} ELSE {m2}]
  /\ status = [i \in Rows |-> "QUEUED"]
  /\ next = [i \in Rows |-> "past"]
  /\ latest = [m \in Movies |-> IF m = m1 THEN 1 ELSE 2]
  /\ adding = [m \in Movies |-> 0]
  /\ elig = [m \in Movies |-> "ELIGIBLE"]
  /\ phase = [m \in Movies |-> "OPEN"]
  /\ confirmed = {} /\ today = 0
  /\ used = [n \in Months |-> 0] /\ slots = [d \in Days |-> 0]
  /\ pc = [w \in Workers |-> "idle"] /\ day = [w \in Workers |-> 0]
  /\ due = [w \in Workers |-> {}] /\ batch = [w \in Workers |-> {}]
  /\ cur = [w \in Workers |-> {}]
  /\ asked = [w \in Workers |-> 0] /\ allowed = [w \in Workers |-> 0]
  /\ found = [w \in Workers |-> 0]
  /\ calls = [n \in Months |-> 0] /\ hears = [w \in Workers |-> "nothing"]

(* From there, behaviours in which only the batches move.                  *)
BatchesSpec == Queued /\ [][\E w \in Workers : Start(w) \/ Step(w)]_vars
=============================================================================
