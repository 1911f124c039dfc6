------------------------------ MODULE RepairChain ------------------------------
(***************************************************************************)
(* The repair orchestrator (repair_orchestrator in app/workers/tasks.py):  *)
(* a task that runs one batch of the stage its cursor names and sends      *)
(* itself again; and the data-health scan (DataHealthService.scan in       *)
(* app/services/operations.py) that is its last stage and a task of its    *)
(* own every 15 minutes, both over the one cursor of data_health.          *)
(*                                                                         *)
(* What a batch of a backfill does is in Backfill, what one of the         *)
(* research does in OttQueue; here it answers whether its stage is done,   *)
(* complete or not configured.  The issues a scan opens and resolves are   *)
(* left out, and both rows of operation_states exist.                      *)
(***************************************************************************)
EXTENDS Naturals, FiniteSets

CONSTANTS
  Runners,          \* workers that run the orchestrator's task
  Scanners,         \* workers that run operations.data_health
  Catalogued,       \* number of movies, whose ids are 1 .. Catalogued
  ScanBatch,        \* batch_size of a scan
  Backfills,        \* number of stages that are backfills, 5 in the code
  MaxRepairStarts,  \* bound on how often an administrator starts it
  MaxRepairFaults   \* bound on workers that die

ASSUME RepairAssumption ==
  /\ Runners \cap Scanners = {} /\ IsFiniteSet(Runners)
  /\ Catalogued \in Nat /\ ScanBatch \in Nat \ {0} /\ Backfills \in Nat \ {0}
  /\ MaxRepairStarts \in Nat /\ MaxRepairFaults \in Nat

(* Stages are numbered from 0: the backfills first.                        *)
Research == Backfills
HealthPass == Research + 1
Over == HealthPass + 1
Actors == Runners \cup Scanners

VARIABLES
  repairAt,  \* cursor of the orchestrator's OperationState
  status,    \* its status
  runs,      \* messages of its task in the broker
  actor,     \* per worker: the stage and the movie it read, the cursor to write
  healthAt,  \* cursor of data_health: the last movie scanned
  answered,  \* history: stages a batch of which answered that they are done
  looked,    \* history: movies scanned since a health pass began
  overtaken, \* history: a batch ended when the cursor named another stage
  straddled, \* history: a scan was in flight when it began
  repairStarts, repairFaults

orchestrator == <<repairAt, status>>
repairHistory == <<answered, looked, overtaken, straddled>>
repairVars == <<orchestrator, runs, actor, healthAt, repairHistory, repairStarts, repairFaults>>

Stay == 0   \* no batch moves the cursor to 0
AtRest == [at |-> "rest", stage |-> 0, from |-> 0, to |-> Stay]

RepairTypeOK ==
  /\ repairAt \in Nat   \* runs that overlap can push it past the end
  /\ status \in {"IDLE", "RUNNING", "COMPLETE"}
  /\ runs \in 0 .. MaxRepairStarts + MaxRepairFaults
  /\ DOMAIN actor = Actors
  /\ \A a \in Actors : /\ actor[a].at \in {"rest", "batch", "reload", "close", "send"}
                       /\ actor[a].stage \in 0 .. HealthPass /\ actor[a].to \in Nat
                       /\ actor[a].from \in 0 .. Catalogued
  /\ healthAt \in 0 .. Catalogued
  /\ answered \subseteq 0 .. Research /\ looked \subseteq 1 .. Catalogued
  /\ overtaken \in BOOLEAN /\ straddled \in BOOLEAN
  /\ repairStarts \in 0 .. MaxRepairStarts /\ repairFaults \in 0 .. MaxRepairFaults

RepairInit ==
  /\ repairAt = 0 /\ status = "IDLE"
  /\ runs = 0
  /\ actor = [a \in Actors |-> AtRest]
  /\ healthAt = 0
  /\ answered = {} /\ looked = {} /\ overtaken = FALSE /\ straddled = FALSE
  /\ repairStarts = 0 /\ repairFaults = 0

-----------------------------------------------------------------------------
ActorAt(a, where) == actor[a].at = where
Becomes(a, new) == actor' = [actor EXCEPT ![a] = new]

(* start_backfill for "all".  It refuses for 15 minutes after a batch, and *)
(* a batch may take longer.                                                *)
StartRepair ==
  /\ repairStarts < MaxRepairStarts
  /\ status # "COMPLETE"
  /\ runs' = runs + 1
  /\ repairStarts' = repairStarts + 1
  /\ UNCHANGED <<orchestrator, actor, healthAt, repairHistory, repairFaults>>

(* The task reads the cursor; past the last stage it is over.              *)
BeginRun(r) ==
  /\ ActorAt(r, "rest") /\ runs > 0 /\ runs' = runs - 1
  /\ IF repairAt >= Over
       THEN status' = "COMPLETE" /\ UNCHANGED actor
       ELSE /\ Becomes(r, [at |-> "batch", stage |-> repairAt, to |-> Stay,
                           from |-> IF repairAt = HealthPass THEN healthAt ELSE 0])
            /\ UNCHANGED status
  /\ UNCHANGED <<repairAt, healthAt, repairHistory, repairStarts, repairFaults>>

(* A batch of a backfill or of the research commits what it did.           *)
BatchEnds(r) ==
  /\ ActorAt(r, "batch") /\ actor[r].stage <= Research
  /\ \/ /\ Becomes(r, [actor[r] EXCEPT !.at = "close"])
        /\ UNCHANGED answered
     \/ /\ Becomes(r, [actor[r] EXCEPT !.at = "reload"])
        /\ answered' = answered \cup {actor[r].stage}
  /\ UNCHANGED <<orchestrator, runs, healthAt, looked, overtaken, straddled,
                 repairStarts, repairFaults>>

(* state.cursor += 1: every backfill has committed, so the row is read     *)
(* again.                                                                  *)
Reload(r) ==
  /\ ActorAt(r, "reload") /\ actor[r].stage < Research
  /\ Becomes(r, [actor[r] EXCEPT !.at = "close", !.to = repairAt + 1])
  /\ overtaken' = (overtaken \/ repairAt # actor[r].stage)
  /\ UNCHANGED <<orchestrator, runs, healthAt, answered, looked, straddled,
                 repairStarts, repairFaults>>

InScan(a) == \/ ActorAt(a, "batch") /\ (a \in Scanners \/ actor[a].stage = HealthPass)
             \/ ActorAt(a, "close") /\ actor[a].stage = HealthPass

(* The health pass begins, at movie 0.                                     *)
PassBegins(r) == looked' = {} /\ straddled' = (\E a \in Actors \ {r} : InScan(a))

(* state.cursor = 6, and the row of data_health is read to be reset.       *)
ReadHealth(r) ==
  /\ ActorAt(r, "reload") /\ actor[r].stage = Research
  /\ Becomes(r, [actor[r] EXCEPT !.at = "close", !.to = HealthPass, !.from = healthAt])
  /\ overtaken' = (overtaken \/ repairAt # actor[r].stage)
  /\ \/ healthAt = 0 /\ PassBegins(r)
     \/ healthAt # 0 /\ UNCHANGED <<looked, straddled>>
  /\ UNCHANGED <<orchestrator, runs, healthAt, answered, repairStarts, repairFaults>>

(* What a scan finds after the movie it read; a scan that finds nothing    *)
(* starts the next cycle.                                                  *)
Unscanned(from) == {m \in from + 1 .. Catalogued : m <= from + ScanBatch}
HealthAfter(from) ==
  IF Unscanned(from) = {} THEN 0
  ELSE CHOOSE m \in Unscanned(from) : \A n \in Unscanned(from) : n <= m

(* cycle_complete; the variant takes a full batch for the last one.        *)
CompleteOnFull(from) == Cardinality(Unscanned(from)) <= ScanBatch
CycleComplete(from) == Unscanned(from) = {}

(* scan commits for itself; the orchestrator then looks at cycle_complete. *)
EndHealthScan(a) ==
  /\ ActorAt(a, "batch") /\ (a \in Scanners \/ actor[a].stage = HealthPass)
  /\ healthAt' = HealthAfter(actor[a].from)
  /\ looked' = looked \cup Unscanned(actor[a].from)
  /\ Becomes(a, IF a \in Scanners THEN AtRest
                ELSE [actor[a] EXCEPT !.at = "close",
                                      !.to = IF CycleComplete(actor[a].from) THEN Over ELSE Stay])
  /\ UNCHANGED <<orchestrator, runs, answered, overtaken, straddled, repairStarts, repairFaults>>

(* operations.data_health, every 15 minutes whatever the orchestrator does.*)
BeginHealthScan(s) ==
  /\ ActorAt(s, "rest")
  /\ Becomes(s, [AtRest EXCEPT !.at = "batch", !.from = healthAt])
  /\ UNCHANGED <<orchestrator, runs, healthAt, repairHistory, repairStarts, repairFaults>>

(* The value a close leaves in the row; the variant adds to what it finds. *)
RepairAdded(r) == IF actor[r].to = Stay THEN repairAt
                  ELSE IF actor[r].stage < Research THEN repairAt + 1 ELSE actor[r].to
RepairAfter(r) == IF actor[r].to = Stay THEN repairAt ELSE actor[r].to

(* The end of the task: the cursor moves, and when the research is done    *)
(* the one of data_health is reset.  A column that was read 0 is not       *)
(* written, and keeps what a scan has put there since.  A research that is *)
(* not configured or has no budget left returns without a commit, and then *)
(* status is not written if it was RUNNING when the task began.            *)
CloseRun(r) ==
  /\ ActorAt(r, "close")
  /\ repairAt' = RepairAfter(r)
  /\ IF actor[r].stage = Research /\ actor[r].to # Stay /\ actor[r].from # 0
       THEN healthAt' = 0 /\ PassBegins(r)
       ELSE UNCHANGED <<healthAt, looked, straddled>>
  /\ \/ status' = "RUNNING"
     \/ actor[r].stage = Research /\ UNCHANGED status
  /\ Becomes(r, [AtRest EXCEPT !.at = "send"])
  /\ UNCHANGED <<runs, answered, overtaken, repairStarts, repairFaults>>

(* apply_async(countdown=3), and the message it came with is acknowledged. *)
SendAgain(r) ==
  /\ ActorAt(r, "send")
  /\ runs' = runs + 1
  /\ Becomes(r, AtRest)
  /\ UNCHANGED <<orchestrator, healthAt, repairHistory, repairStarts, repairFaults>>

(* A batch raises or its process is killed: the message is acknowledged.   *)
(* With its host it is delivered again, and it may have sent the next one. *)
ActorDies(a) ==
  /\ repairFaults < MaxRepairFaults /\ repairFaults' = repairFaults + 1
  /\ ~ActorAt(a, "rest")
  /\ runs' \in IF a \in Scanners THEN {runs}
              ELSE runs .. runs + (IF ActorAt(a, "send") THEN 2 ELSE 1)
  /\ Becomes(a, AtRest)
  /\ UNCHANGED <<orchestrator, healthAt, repairHistory, repairStarts>>

RepairNext ==
  \/ StartRepair
  \/ \E r \in Runners : \/ BeginRun(r) \/ BatchEnds(r) \/ Reload(r) \/ ReadHealth(r)
                        \/ CloseRun(r) \/ SendAgain(r)
  \/ \E s \in Scanners : BeginHealthScan(s)
  \/ \E a \in Actors : EndHealthScan(a) \/ ActorDies(a)

RepairSpec == RepairInit /\ [][RepairNext]_repairVars

-----------------------------------------------------------------------------
(* Properties.                                                             *)

(* However many chains there are and whatever dies, no stage is passed     *)
(* over that has not answered that it is done, unless a batch ended when   *)
(* the cursor had left its stage (docs/JOBS.md: the stages run in          *)
(* sequence).                                                              *)
StagesInSequence ==
  \A stage \in 0 .. HealthPass - 1 : stage < repairAt => stage \in answered \/ overtaken

(* When the orchestrator is through, every movie was scanned since the     *)
(* research was done, whoever scanned it, unless a scan was in flight when *)
(* the pass began (docs/JOBS.md: a whole-database health pass).            *)
HealthPassWhole ==
  repairAt >= Over /\ ~overtaken /\ ~straddled => looked = 1 .. Catalogued
=============================================================================
