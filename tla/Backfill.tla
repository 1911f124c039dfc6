------------------------------ MODULE Backfill ------------------------------
(***************************************************************************)
(* One resumable backfill: the records of backfill_records and the row of  *)
(* operation_states that app/services/backfill.py keeps for an operation,  *)
(* the Celery task that runs one batch and sends itself again (_continue   *)
(* in app/workers/tasks.py), and the handler that starts or resumes it     *)
(* (start_backfill in app/api/v1/admin.py).                                *)
(*                                                                         *)
(* The loops of MetadataBackfillService, PersonBackfillService and         *)
(* ImageBackfillService differ in what they fetch.  TrailerBackfillService *)
(* (Trailers) does not ask whether the operation is COMPLETE, and stops    *)
(* its chain when the provider answers 429.                                *)
(***************************************************************************)
EXTENDS Naturals, FiniteSets

CONSTANTS
  Entities,     \* movies or people of the catalogue
  Workers,      \* worker processes
  MaxAttempts,  \* settings.BACKFILL_MAX_ATTEMPTS
  BatchSize,    \* batch_size
  Trailers,     \* is this the operation of TrailerBackfillService?
  Patient,      \* does the administrator start it only when no task of it is left?
  MaxStarts,    \* bound on how often the administrator starts it
  FaultBudget   \* bound on how often each fault strikes

(* A task dies with its message acknowledged: an exception outside the     *)
(* loop's try, or a killed pool child (these tasks have no autoretry).     *)
(* The host dies: the message is delivered again.  apply_async fails, with *)
(* or without the broker having the message.                               *)
Faults == {"task", "host", "publish", "doubtful"}

ASSUME BackfillAssumption ==
  /\ MaxAttempts \in Nat \ {0}
  /\ BatchSize \in Nat \ {0}
  /\ Trailers \in BOOLEAN /\ Patient \in BOOLEAN
  /\ MaxStarts \in Nat
  /\ FaultBudget \in [Faults -> Nat]

VARIABLES
  record,    \* BackfillRecord.status, NONE before there is one
  attempts,  \* BackfillRecord.attempts
  state,     \* OperationState.status
  recent,    \* is OperationState.last_success_at within 15 minutes?
  waiting,   \* messages of the task in the broker
  pc,        \* per worker: where it is in the task
  batch,     \* per worker: entities selected and not started yet
  item,      \* per worker: the entity it works on, a set of one at most
  seen,      \* per worker: the status it read when it selected its batch
  stopped,   \* per worker: did 429 stop it?
  complete,  \* per worker: did it find nothing left?
  starts, faults

records == <<record, attempts>>
operation == <<state, recent>>
working == <<pc, batch, item, seen, stopped, complete>>
vars == <<records, operation, waiting, working, starts, faults>>

RecordStatuses == {"NONE", "RUNNING", "DONE", "FAILED"}
States == {"IDLE", "RUNNING", "PAUSED", "COMPLETE", "FAILED"}
Pcs == {"idle", "mark", "start", "item", "count", "summary", "pause", "continue", "publish", "ack"}

TypeOK ==
  /\ record \in [Entities -> RecordStatuses]
  /\ attempts \in [Entities -> Nat]
  /\ state \in States
  /\ recent \in BOOLEAN
  /\ waiting \in Nat
  /\ pc \in [Workers -> Pcs]
  /\ batch \in [Workers -> SUBSET Entities]
  /\ item \in [Workers -> SUBSET Entities]
  /\ seen \in [Workers -> States]
  /\ stopped \in [Workers -> BOOLEAN]
  /\ complete \in [Workers -> BOOLEAN]
  /\ starts \in Nat
  /\ faults \in [Faults -> Nat]

Init ==
  /\ record = [e \in Entities |-> "NONE"]
  /\ attempts = [e \in Entities |-> 0]
  /\ state = "IDLE"
  /\ recent = FALSE
  /\ waiting = 0
  /\ pc = [w \in Workers |-> "idle"]
  /\ batch = [w \in Workers |-> {}]
  /\ item = [w \in Workers |-> {}]
  /\ seen = [w \in Workers |-> "IDLE"]
  /\ stopped = [w \in Workers |-> FALSE]
  /\ complete = [w \in Workers |-> FALSE]
  /\ starts = 0
  /\ faults = [f \in Faults |-> 0]
-----------------------------------------------------------------------------
Goto(w, label) == pc' = [pc EXCEPT ![w] = label]

Strike(f) ==
  /\ faults[f] < FaultBudget[f]
  /\ faults' = [faults EXCEPT ![f] = @ + 1]

(* As Eligible, without the clause that excludes finished records.         *)
EligibleAgain(e) == attempts[e] < MaxAttempts

(* As Eligible, with <= for <.                                             *)
EligibleOnceMore(e) == record[e] # "DONE" /\ attempts[e] <= MaxAttempts

(* _eligible: a record whose work was interrupted is eligible again.       *)
Eligible(e) == record[e] # "DONE" /\ attempts[e] < MaxAttempts
Left == {e \in Entities : Eligible(e)}

Quiet == waiting = 0 /\ \A w \in Workers : pc[w] = "idle"

(* start_backfill; the checks come before anything is sent.                *)
AdminStarts ==
  /\ starts < MaxStarts
  /\ state # "COMPLETE"
  /\ ~(state = "RUNNING" /\ recent)
  /\ Patient => Quiet
  /\ waiting' = waiting + 1
  /\ starts' = starts + 1
  /\ UNCHANGED <<records, operation, working, faults>>

(* Fifteen minutes pass without a success.                                 *)
TimePasses ==
  /\ recent
  /\ recent' = FALSE
  /\ UNCHANGED <<records, state, waiting, working, starts, faults>>

(* run: the batch is selected once, before any of it is done.  With the    *)
(* operation COMPLETE or nothing left the task only writes its summary.    *)
(* Every record is of an entity without a trailer, when those are sought.  *)
Select(w) ==
  /\ pc[w] = "idle"
  /\ waiting > 0
  /\ waiting' = waiting - 1
  /\ seen' = [seen EXCEPT ![w] = state]
  /\ IF Left = {} \/ (state = "COMPLETE" /\ ~Trailers)
       THEN /\ complete' = [complete EXCEPT ![w] = TRUE]
            /\ Goto(w, "summary")
            /\ UNCHANGED batch
       ELSE /\ \E chosen \in SUBSET Left :
                 /\ \/ Cardinality(chosen) = BatchSize
                    \/ chosen = Left /\ Cardinality(Left) < BatchSize
                 /\ batch' = [batch EXCEPT ![w] = chosen]
            /\ Goto(w, "mark")
            /\ UNCHANGED complete
  /\ UNCHANGED <<records, operation, item, stopped, starts, faults>>

(* state.status = "RUNNING": no UPDATE is sent when it was read as such.   *)
Mark(w) ==
  /\ pc[w] = "mark"
  /\ state' = IF seen[w] = "RUNNING" THEN state ELSE "RUNNING"
  /\ Goto(w, "start")
  /\ UNCHANGED <<records, recent, waiting, batch, item, seen, stopped, complete, starts, faults>>

(* As StartItem, without counting the attempt.                             *)
StartItemUncounted(w) ==
  /\ pc[w] = "start"
  /\ \E e \in batch[w] :
       /\ record' = [record EXCEPT ![e] = "RUNNING"]
       /\ batch' = [batch EXCEPT ![w] = @ \ {e}]
       /\ item' = [item EXCEPT ![w] = {e}]
  /\ Goto(w, "item")
  /\ UNCHANGED <<attempts, operation, waiting, seen, stopped, complete, starts, faults>>

(* _start: the record is not looked at again before it is overwritten.     *)
StartItem(w) ==
  /\ pc[w] = "start"
  /\ \E e \in batch[w] :
       /\ record' = [record EXCEPT ![e] = "RUNNING"]
       /\ attempts' = [attempts EXCEPT ![e] = @ + 1]
       /\ batch' = [batch EXCEPT ![w] = @ \ {e}]
       /\ item' = [item EXCEPT ![w] = {e}]
  /\ Goto(w, "item")
  /\ UNCHANGED <<operation, waiting, seen, stopped, complete, starts, faults>>

(* As FinishItem, storing a status of the operation in the record.         *)
FinishItemAsOperation(w) ==
  /\ pc[w] = "item"
  /\ record' = [e \in Entities |-> IF e \in item[w] THEN "COMPLETE" ELSE record[e]]
  /\ Goto(w, IF batch[w] = {} THEN "count" ELSE "start")
  /\ item' = [item EXCEPT ![w] = {}]
  /\ UNCHANGED <<attempts, operation, waiting, batch, seen, stopped, complete, starts, faults>>

(* The provider call and _finish.                                          *)
FinishItem(w) ==
  /\ pc[w] = "item"
  /\ \E outcome \in {"DONE", "FAILED"}, stop \in BOOLEAN :
       /\ stop => Trailers /\ outcome = "FAILED"
       /\ record' = [e \in Entities |-> IF e \in item[w] THEN outcome ELSE record[e]]
       /\ stopped' = [stopped EXCEPT ![w] = stop]
       /\ Goto(w, IF stop \/ batch[w] = {} THEN "count" ELSE "start")
  /\ item' = [item EXCEPT ![w] = {}]
  /\ UNCHANGED <<attempts, operation, waiting, batch, seen, complete, starts, faults>>

(* As Count, taking the end of its own batch for the end of the work.      *)
CountBatch(w) ==
  /\ pc[w] = "count"
  /\ complete' = [complete EXCEPT ![w] = TRUE]
  /\ batch' = [batch EXCEPT ![w] = {}]
  /\ Goto(w, "summary")
  /\ UNCHANGED <<records, operation, waiting, item, seen, stopped, starts, faults>>

(* remaining = ... .first() is not None                                    *)
Count(w) ==
  /\ pc[w] = "count"
  /\ complete' = [complete EXCEPT ![w] = Left = {}]
  /\ batch' = [batch EXCEPT ![w] = {}]
  /\ Goto(w, "summary")
  /\ UNCHANGED <<records, operation, waiting, item, seen, stopped, starts, faults>>

(* _summary.                                                               *)
Summarise(w) ==
  /\ pc[w] = "summary"
  /\ state' = IF complete[w] THEN "COMPLETE" ELSE "PAUSED"
  /\ recent' = TRUE
  /\ Goto(w, CASE stopped[w] -> "pause"
              [] complete[w] /\ ~stopped[w] -> "ack"
              [] OTHER -> "continue")
  /\ UNCHANGED <<records, waiting, batch, item, seen, stopped, complete, starts, faults>>

(* The second commit of a stopped chain, which does not continue.          *)
Pause(w) ==
  /\ pc[w] = "pause"
  /\ state' = "PAUSED"
  /\ Goto(w, "ack")
  /\ UNCHANGED <<records, recent, waiting, batch, item, seen, stopped, complete, starts, faults>>

(* _continue: RUNNING is committed first, the message is sent after.       *)
Continue(w) ==
  /\ pc[w] = "continue"
  /\ state' = "RUNNING"
  /\ Goto(w, "publish")
  /\ UNCHANGED <<records, recent, waiting, batch, item, seen, stopped, complete, starts, faults>>

(* As Publish, returning without having sent anything.                     *)
PublishNothing(w) ==
  /\ pc[w] = "publish"
  /\ Goto(w, "ack")
  /\ UNCHANGED <<records, operation, waiting, batch, item, seen, stopped, complete, starts, faults>>

(* As Publish, sending a second message.                                   *)
PublishTwice(w) ==
  /\ pc[w] = "publish"
  /\ waiting' = waiting + 2
  /\ Goto(w, "ack")
  /\ UNCHANGED <<records, operation, batch, item, seen, stopped, complete, starts, faults>>

Publish(w) ==
  /\ pc[w] = "publish"
  /\ waiting' = waiting + 1
  /\ Goto(w, "ack")
  /\ UNCHANGED <<records, operation, batch, item, seen, stopped, complete, starts, faults>>

(* What the process of a task knew is gone with the task.                  *)
Forget(w) ==
  /\ Goto(w, "idle")
  /\ batch' = [batch EXCEPT ![w] = {}]
  /\ item' = [item EXCEPT ![w] = {}]
  /\ seen' = [seen EXCEPT ![w] = "IDLE"]
  /\ stopped' = [stopped EXCEPT ![w] = FALSE]
  /\ complete' = [complete EXCEPT ![w] = FALSE]

CannotPublish(w) ==
  /\ pc[w] = "publish"
  /\ \/ Strike("publish") /\ UNCHANGED waiting
     \/ Strike("doubtful") /\ waiting' = waiting + 1
  /\ state' = "FAILED"
  /\ Forget(w)
  /\ UNCHANGED <<records, recent, starts>>

(* The task returns: record_task_success, then the acknowledgement.        *)
Acknowledge(w) ==
  /\ pc[w] = "ack"
  /\ recent' = TRUE
  /\ Forget(w)
  /\ UNCHANGED <<records, state, waiting, starts, faults>>

TaskDies(w) ==
  /\ pc[w] # "idle"
  /\ Strike("task")
  /\ Forget(w)
  /\ UNCHANGED <<records, operation, waiting, starts>>

HostDies(w) ==
  /\ pc[w] # "idle"
  /\ Strike("host")
  /\ waiting' = waiting + 1
  /\ Forget(w)
  /\ UNCHANGED <<records, operation, starts>>

TaskStep(w) ==
  \/ Select(w) \/ Mark(w) \/ StartItem(w) \/ FinishItem(w)
  \/ Count(w) \/ Summarise(w) \/ Pause(w) \/ Continue(w) \/ Publish(w) \/ Acknowledge(w)

Next ==
  \/ AdminStarts
  \/ TimePasses
  \/ \E w \in Workers : TaskStep(w) \/ CannotPublish(w) \/ TaskDies(w) \/ HostDies(w)

(* Workers keep taking messages and working on them.  The administrator    *)
(* owes nothing.                                                           *)
Fairness == \A w \in Workers : WF_vars(TaskStep(w))

Safety == Init /\ [][Next]_vars
Spec == Safety /\ Fairness
-----------------------------------------------------------------------------
(* Properties.                                                             *)

(* JOBS.md: "Successful records are never repeated": a record that is DONE *)
(* is not opened again, whatever fails, dies or is resumed.                *)
SuccessKept ==
  [][\A e \in Entities : record[e] = "DONE" => record'[e] = "DONE"]_vars

(* JOBS.md: "failures stop after BACKFILL_MAX_ATTEMPTS".                   *)
AttemptsBounded == \A e \in Entities : attempts[e] <= MaxAttempts

(* _continue: "one checkpointed chain without creating unbounded parallel  *)
(* work": at most one task of the operation waits or has work before it.   *)
Working(w) == pc[w] \notin {"idle", "ack"}
OneChain ==
  /\ waiting <= 1
  /\ \A v \in Workers : Working(v) => waiting = 0
  /\ \A v, w \in Workers : Working(v) /\ Working(w) => v = w

(* COMPLETE is final for start_backfill and for run, so it is only stored  *)
(* when no record can be tried again.                                      *)
CompleteMeansNothingLeft == state = "COMPLETE" => Left = {}

(* JOBS.md: "a stale interrupted run can be resumed": a task of the        *)
(* operation, started or resumed, leads to COMPLETE through all the tasks  *)
(* it sends, whatever earlier faults left behind, unless 429 stops the     *)
(* chain or another fault strikes it.                                      *)
Strikes == faults["task"] + faults["host"] + faults["publish"] + faults["doubtful"]
Halted == state = "COMPLETE" \/ \E w \in Workers : stopped[w]
ChainsFinish ==
  \A n \in 0..2 :
    (~Quiet /\ Strikes = n) ~> (Halted \/ Strikes # n)
=============================================================================
