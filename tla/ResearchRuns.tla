---------------------------- MODULE ResearchRuns ----------------------------
(***************************************************************************)
(* The life of the rows of research_runs (app/services/research.py), the   *)
(* API handlers that create them (app/api/v1/admin.py, operations.py) and  *)
(* the Celery workers that execute them (app/workers/tasks.py), with the   *)
(* failure signal of app/workers/celery_app.py.                            *)
(*                                                                         *)
(* A row carries active_key, a UNIQUE nullable column: while it is set the *)
(* row is the lock of that key, and every way a run can end must clear it. *)
(* The handlers and the workers share nothing but the database and the     *)
(* broker; each database transaction is one action here.                   *)
(***************************************************************************)
EXTENDS Naturals, FiniteSets

CONSTANTS
  Runs,           \* identifiers that create_run draws (uuid4)
  Movies,         \* the keys "movie:<id>"
  QueueKey,       \* the key "manual:eligible_ott_queue"
  DiscoveryKeys,  \* the keys "discovery:regular" and "discovery:deep"
  ScheduledKeys,  \* the keys "scheduled:<job>" of the jobs Beat starts
  BareKeys,       \* those of them whose handler has no rollback: ott_research
  Callers,        \* API requests being served
  Workers,        \* worker processes
  NoRun, NoKey,   \* NULL
  Enabled,        \* the kinds of task this instance starts
  MaxRetries,     \* max_retries of each kind of task
  MaxStarts,      \* bound on how many tasks are started
  FaultBudget     \* bound on how often each fault strikes

ManualKeys == Movies \cup {QueueKey} \cup DiscoveryKeys
Keys == ManualKeys \cup ScheduledKeys
Kinds == {"movie", "queue", "request", "scheduled", "discovery"}
(* the kinds whose message names the run it is about                       *)
Addressed == {"movie", "queue", "discovery"}
Terminal == {"COMPLETE", "FAILED"}
Statuses == {"ABSENT", "QUEUED", "RUNNING", "RETRYING"} \cup Terminal

(* The faults of the environment: an API process dies between two of its   *)
(* steps; publishing reports an error though the broker has the message;   *)
(* a pool child dies (acknowledged, reported as a failure); the worker     *)
(* host dies (delivered again, task_acks_late); Redis restores a message   *)
(* that was not acknowledged in time though its worker is alive; the       *)
(* database is lost between a task's last commit and its return.           *)
Faults == {"api", "publish", "child", "host", "visibility", "late"}

ASSUME ConstantsAssumption ==
  /\ NoRun \notin Runs
  /\ NoKey \notin Keys
  /\ QueueKey \notin Movies /\ QueueKey \notin DiscoveryKeys
  /\ Movies \cap DiscoveryKeys = {}
  /\ ManualKeys \cap ScheduledKeys = {}
  /\ BareKeys \subseteq ScheduledKeys
  /\ Enabled \subseteq Kinds
  /\ MaxRetries \in [Kinds -> Nat]
  /\ MaxStarts \in Nat
  /\ FaultBudget \in [Faults -> Nat]

VARIABLES
  status,   \* ResearchRun.status, ABSENT before the row is inserted
  lock,     \* ResearchRun.active_key
  target,   \* what the run is about: the key it was created with
  cpc,      \* per API request: where it is in its handler
  ckey,     \* per API request: the key it creates a run for
  crun,     \* per API request: the run it created
  queue,    \* messages waiting in the broker
  pc,       \* per worker: where it is in its task
  msg,      \* per worker: the message it has not acknowledged yet
  run,      \* per worker: the run it executes
  key,      \* per worker: the key it creates a run for
  todo,     \* per worker: movies of the queue preview still to do
  starts,   \* tasks started so far
  faults    \* faults that have struck so far

rows == <<status, lock, target>>
working == <<pc, msg, run, key, todo>>
calling == <<cpc, ckey, crun>>
vars == <<rows, calling, queue, working, starts, faults>>

Messages ==
  [kind : Kinds, key : Keys, run : Runs \cup {NoRun}, tries : Nat]

Message(kind, k, r) == [kind |-> kind, key |-> k, run |-> r, tries |-> 0]
NoMessage == Message("movie", QueueKey, NoRun)

CallerPcs == {"idle", "insert", "publish", "fail"}
(* create_run *)
Creating == {"select", "insert", "reselect"}
(* execute, after its read of the status *)
Executing == {"start", "steps"}
WorkerPcs ==
  {"idle", "read", "parent", "next", "notify", "return", "raise", "signal", "ack"}
    \cup Creating \cup Executing

RowsTyped ==
  /\ status \in [Runs -> Statuses]
  /\ lock \in [Runs -> Keys \cup {NoKey}]
  /\ target \in [Runs -> Keys \cup {NoKey}]

CallersTyped ==
  /\ cpc \in [Callers -> CallerPcs]
  /\ ckey \in [Callers -> Keys \cup {NoKey}]
  /\ crun \in [Callers -> Runs \cup {NoRun}]
  /\ \A c \in Callers : cpc[c] # "idle" => ckey[c] \in ManualKeys

WorkersTyped ==
  /\ pc \in [Workers -> WorkerPcs]
  /\ msg \in [Workers -> Messages]
  /\ run \in [Workers -> Runs \cup {NoRun}]
  /\ key \in [Workers -> Keys \cup {NoKey}]
  /\ todo \in [Workers -> SUBSET Movies]

TypeOK ==
  /\ RowsTyped
  /\ CallersTyped
  /\ queue \subseteq Messages
  /\ WorkersTyped
  /\ starts \in Nat
  /\ faults \in [Faults -> Nat]

Init ==
  /\ status = [r \in Runs |-> "ABSENT"]
  /\ lock = [r \in Runs |-> NoKey]
  /\ target = [r \in Runs |-> NoKey]
  /\ cpc = [c \in Callers |-> "idle"]
  /\ ckey = [c \in Callers |-> NoKey]
  /\ crun = [c \in Callers |-> NoRun]
  /\ queue = {}
  /\ pc = [w \in Workers |-> "idle"]
  /\ msg = [w \in Workers |-> NoMessage]
  /\ run = [w \in Workers |-> NoRun]
  /\ key = [w \in Workers |-> NoKey]
  /\ todo = [w \in Workers |-> {}]
  /\ starts = 0
  /\ faults = [f \in Faults |-> 0]
-----------------------------------------------------------------------------
(* The table: each operator is one committed transaction.                  *)

Active(k) == \E r \in Runs : lock[r] = k

Insert(r, k) ==
  /\ status[r] = "ABSENT"
  /\ status' = [status EXCEPT ![r] = "QUEUED"]
  /\ lock' = [lock EXCEPT ![r] = k]
  /\ target' = [target EXCEPT ![r] = k]

SetStatus(r, s) ==
  /\ status' = [status EXCEPT ![r] = s]
  /\ UNCHANGED <<lock, target>>

Finish(r, outcome) ==
  /\ status' = [status EXCEPT ![r] = outcome]
  /\ lock' = [lock EXCEPT ![r] = NoKey]
  /\ UNCHANGED target

Strike(f) ==
  /\ faults[f] < FaultBudget[f]
  /\ faults' = [faults EXCEPT ![f] = @ + 1]
-----------------------------------------------------------------------------
(* The API.  research_selected_movie, research_selected_request,           *)
(* run_research_queue and run_discovery_now differ in the key and in the   *)
(* task they send.                                                         *)

KindOf(k) ==
  CASE k = QueueKey         -> "queue"
    [] k \in DiscoveryKeys -> "discovery"
    [] OTHER                -> "movie"
CanStart(kind) == kind \in Enabled /\ starts < MaxStarts

(* create_run finds no active row; with one the handler answers 409.       *)
CallerSelects(c, k) ==
  /\ cpc[c] = "idle"
  /\ CanStart(KindOf(k))
  /\ ~Active(k)
  /\ cpc' = [cpc EXCEPT ![c] = "insert"]
  /\ ckey' = [ckey EXCEPT ![c] = k]
  /\ starts' = starts + 1
  /\ UNCHANGED <<rows, crun, queue, working, faults>>

CallerDone(c) ==
  /\ cpc' = [cpc EXCEPT ![c] = "idle"]
  /\ ckey' = [ckey EXCEPT ![c] = NoKey]
  /\ crun' = [crun EXCEPT ![c] = NoRun]

CallerCreates(c) ==
  /\ \E r \in Runs :
       /\ Insert(r, ckey[c])
       /\ crun' = [crun EXCEPT ![c] = r]
  /\ cpc' = [cpc EXCEPT ![c] = "publish"]
  /\ UNCHANGED ckey

(* As CallerInserts, without the UNIQUE constraint on active_key.          *)
CallerInsertsUnchecked(c) ==
  /\ cpc[c] = "insert"
  /\ CallerCreates(c)
  /\ UNCHANGED <<queue, working, starts, faults>>

(* An IntegrityError gives 409, or 500 if the other row has gone by then.  *)
CallerInserts(c) ==
  /\ cpc[c] = "insert"
  /\ IF Active(ckey[c])
       THEN CallerDone(c) /\ UNCHANGED rows
       ELSE CallerCreates(c)
  /\ UNCHANGED <<queue, working, starts, faults>>

Publish(c) ==
  queue' = queue \cup {Message(KindOf(ckey[c]), ckey[c], crun[c])}

CallerPublishes(c) ==
  /\ cpc[c] = "publish"
  /\ Publish(c)
  /\ CallerDone(c)
  /\ UNCHANGED <<rows, working, starts, faults>>

(* send_task raises: nothing was sent, or the broker took it all the same. *)
CallerCannotPublish(c) ==
  /\ cpc[c] = "publish"
  /\ \/ UNCHANGED <<queue, faults>>
     \/ Publish(c) /\ Strike("publish")
  /\ cpc' = [cpc EXCEPT ![c] = "fail"]
  /\ UNCHANGED <<rows, ckey, crun, working, starts>>

(* fail_queued_run *)
CallerFailsRun(c) ==
  /\ cpc[c] = "fail"
  /\ Finish(crun[c], "FAILED")
  /\ CallerDone(c)
  /\ UNCHANGED <<queue, working, starts, faults>>

CallerDies(c) ==
  /\ cpc[c] \in {"publish", "fail"}
  /\ Strike("api")
  /\ CallerDone(c)
  /\ UNCHANGED <<rows, queue, working, starts>>

(* POST /requests sends the request itself: the worker creates the run.    *)
MovieRequested(k) ==
  /\ CanStart("request")
  /\ queue' = queue \cup {Message("request", k, NoRun)}
  /\ starts' = starts + 1
  /\ UNCHANGED <<rows, calling, working, faults>>

BeatTicks(k) ==
  /\ CanStart("scheduled")
  /\ queue' = queue \cup {Message("scheduled", k, NoRun)}
  /\ starts' = starts + 1
  /\ UNCHANGED <<rows, calling, working, faults>>
-----------------------------------------------------------------------------
(* A worker takes a message and works through its task.                    *)

Kind(w) == msg[w].kind
Goto(w, label) == pc' = [pc EXCEPT ![w] = label]
(* where create_run without a new run, and execute, hand control back to   *)
After(w) == IF Kind(w) = "queue" THEN "next" ELSE "return"

FirstStep(kind) ==
  CASE kind = "movie"     -> "read"
    [] kind = "queue"     -> "parent"
    [] kind = "discovery" -> "steps"
    [] OTHER              -> "select"

Deliver(w, m) ==
  /\ pc[w] = "idle"
  /\ m \in queue
  /\ queue' = queue \ {m}
  /\ Goto(w, FirstStep(m.kind))
  /\ msg' = [msg EXCEPT ![w] = m]
  /\ run' = [run EXCEPT ![w] = m.run]
  /\ key' = [key EXCEPT ![w] = m.key]
  /\ UNCHANGED <<rows, calling, todo, starts, faults>>

(* create_run, by the worker: for a request, a scheduled job or a movie of *)
(* the queue.  The SELECT and the INSERT are two transactions.             *)
SelectActive(w) ==
  /\ pc[w] = "select"
  /\ Goto(w, IF Active(key[w]) THEN After(w) ELSE "insert")
  /\ UNCHANGED <<rows, calling, queue, msg, run, key, todo, starts, faults>>

(* As InsertRun, without the UNIQUE constraint on active_key.              *)
InsertRunUnchecked(w) ==
  /\ pc[w] = "insert"
  /\ \E r \in Runs :
       /\ Insert(r, key[w])
       /\ run' = [run EXCEPT ![w] = r]
  /\ Goto(w, IF Kind(w) = "scheduled" THEN "start" ELSE "read")
  /\ UNCHANGED <<calling, queue, msg, key, todo, starts, faults>>

InsertRun(w) ==
  /\ pc[w] = "insert"
  /\ \/ /\ ~Active(key[w])
        /\ \E r \in Runs :
             /\ Insert(r, key[w])
             /\ run' = [run EXCEPT ![w] = r]
        /\ Goto(w, IF Kind(w) = "scheduled" THEN "start" ELSE "read")
     \/ /\ Active(key[w])
        /\ Goto(w, "reselect")
        /\ UNCHANGED <<rows, run>>
  /\ UNCHANGED <<calling, queue, msg, key, todo, starts, faults>>

(* After the IntegrityError: the other run may have ended in between.      *)
Reselect(w) ==
  /\ pc[w] = "reselect"
  /\ Goto(w, IF Active(key[w]) THEN After(w) ELSE "raise")
  /\ UNCHANGED <<rows, calling, queue, msg, run, key, todo, starts, faults>>

(* execute: only a COMPLETE run is not executed (again), and one whose     *)
(* movie was deleted since is over at once.                                *)
ExecuteReads(w) ==
  /\ pc[w] = "read"
  /\ \/ status[run[w]] = "COMPLETE" /\ Goto(w, After(w)) /\ UNCHANGED rows
     \/ status[run[w]] # "COMPLETE" /\ Goto(w, "start") /\ UNCHANGED rows
     \/ /\ status[run[w]] # "COMPLETE"
        /\ Finish(run[w], "FAILED")
        /\ Goto(w, After(w))
  /\ UNCHANGED <<calling, queue, msg, run, key, todo, starts, faults>>

ExecuteStarts(w) ==
  /\ pc[w] = "start"
  /\ SetStatus(run[w], "RUNNING")
  /\ Goto(w, "steps")
  /\ UNCHANGED <<calling, queue, msg, run, key, todo, starts, faults>>

(* The provider steps are over: the outcome is stored and the lock cleared *)
(* in one commit.  FAILED means that every step failed and nothing         *)
(* changed; otherwise there may be a requester to tell.                    *)
ExecuteFinishes(w) ==
  /\ pc[w] = "steps"
  /\ Kind(w) \in {"movie", "queue", "request"}
  /\ \/ Finish(run[w], "COMPLETE") /\ Goto(w, "notify")
     \/ Finish(run[w], "FAILED") /\ Goto(w, After(w))
  /\ UNCHANGED <<calling, queue, msg, run, key, todo, starts, faults>>

ExecuteNotifies(w) ==
  /\ pc[w] = "notify"
  /\ Goto(w, After(w))
  /\ UNCHANGED <<rows, calling, queue, msg, run, key, todo, starts, faults>>

(* The body of a scheduled job ends: _logged_automated and ott_research.   *)
(* Without the rollback the handler cannot store the failure in a session  *)
(* whose transaction the failure has broken.                               *)
RunnerEnds(w) ==
  /\ pc[w] = "steps"
  /\ Kind(w) = "scheduled"
  /\ \/ Finish(run[w], "COMPLETE") /\ Goto(w, "return")
     \/ Finish(run[w], "FAILED") /\ Goto(w, "raise")
     \/ key[w] \in BareKeys /\ UNCHANGED rows /\ Goto(w, "raise")
  /\ UNCHANGED <<calling, queue, msg, run, key, todo, starts, faults>>

(* movie_discovery_manual neither reads nor sets the status first, and     *)
(* keeps the lock while Celery retries.                                    *)
DiscoveryEnds(w) ==
  /\ pc[w] = "steps"
  /\ Kind(w) = "discovery"
  /\ \/ \E s \in Terminal : Finish(run[w], s) /\ Goto(w, "return")
     \/ SetStatus(run[w], "RETRYING") /\ Goto(w, "raise")
  /\ UNCHANGED <<calling, queue, msg, run, key, todo, starts, faults>>

(* execute_queue: the parent run, then a run for each movie of the preview *)
ParentStarts(w) ==
  /\ pc[w] = "parent"
  /\ SetStatus(msg[w].run, "RUNNING")
  /\ \E preview \in SUBSET Movies : todo' = [todo EXCEPT ![w] = preview]
  /\ Goto(w, "next")
  /\ UNCHANGED <<calling, queue, msg, run, key, starts, faults>>

NextChild(w) ==
  /\ pc[w] = "next"
  /\ \E k \in todo[w] :
       /\ key' = [key EXCEPT ![w] = k]
       /\ todo' = [todo EXCEPT ![w] = @ \ {k}]
  /\ run' = [run EXCEPT ![w] = NoRun]
  /\ Goto(w, "select")
  /\ UNCHANGED <<rows, calling, queue, msg, starts, faults>>

ParentFinishes(w) ==
  /\ pc[w] = "next"
  /\ todo[w] = {}
  /\ Finish(msg[w].run, "COMPLETE")
  /\ Goto(w, "return")
  /\ UNCHANGED <<calling, queue, msg, run, key, todo, starts, faults>>
-----------------------------------------------------------------------------
(* How a task ends.                                                        *)

(* An exception leaves the task: a database error, or TMDB failing while a *)
(* request is prepared.  The provider steps of execute catch theirs, but   *)
(* storing the error may itself fail.                                      *)
Raise(w) ==
  /\ \/ pc[w] \in {"select", "insert", "read", "start", "parent", "next", "notify"}
     \/ pc[w] = "steps" /\ Kind(w) # "scheduled"
  /\ Goto(w, "raise")
  /\ UNCHANGED <<rows, calling, queue, msg, run, key, todo, starts, faults>>

(* The last commit is done and the task fails while it reads the row back  *)
(* to return it; a scheduled job then rewrites its own row as FAILED.      *)
LateRaise(w) ==
  /\ pc[w] = "return"
  /\ Kind(w) # "discovery"
  /\ Strike("late")
  /\ IF Kind(w) = "scheduled" /\ run[w] # NoRun
       THEN Finish(run[w], "FAILED")
       ELSE UNCHANGED rows
  /\ Goto(w, "raise")
  /\ UNCHANGED <<calling, queue, msg, run, key, todo, starts>>

(* As Retry, but every failure releases the run, not only the last.        *)
RetryReleasing(w) ==
  /\ pc[w] = "raise"
  /\ msg[w].tries < MaxRetries[Kind(w)]
  /\ IF Kind(w) \in Addressed THEN Finish(msg[w].run, "FAILED") ELSE UNCHANGED rows
  /\ queue' = queue \cup {[msg[w] EXCEPT !.tries = @ + 1]}
  /\ Goto(w, "ack")
  /\ UNCHANGED <<calling, msg, run, key, todo, starts, faults>>

(* As Retry, storing Celery's own name of the state in the row.            *)
RetryMarking(w) ==
  /\ pc[w] = "raise"
  /\ msg[w].tries < MaxRetries[Kind(w)]
  /\ IF Kind(w) \in Addressed THEN SetStatus(msg[w].run, "RETRY") ELSE UNCHANGED rows
  /\ queue' = queue \cup {[msg[w] EXCEPT !.tries = @ + 1]}
  /\ Goto(w, "ack")
  /\ UNCHANGED <<calling, msg, run, key, todo, starts, faults>>

(* autoretry_for=(Exception,): the message is sent again, then the old one *)
(* is acknowledged.                                                        *)
Retry(w) ==
  /\ pc[w] = "raise"
  /\ msg[w].tries < MaxRetries[Kind(w)]
  /\ queue' = queue \cup {[msg[w] EXCEPT !.tries = @ + 1]}
  /\ Goto(w, "ack")
  /\ UNCHANGED <<rows, calling, msg, run, key, todo, starts, faults>>

GiveUp(w) ==
  /\ pc[w] = "raise"
  /\ msg[w].tries >= MaxRetries[Kind(w)]
  /\ Goto(w, "signal")
  /\ UNCHANGED <<rows, calling, queue, msg, run, key, todo, starts, faults>>

(* As FailureSignal, with no look at the status of the run.                *)
FailureSignalBlind(w) ==
  /\ pc[w] = "signal"
  /\ IF Kind(w) \in Addressed THEN Finish(msg[w].run, "FAILED") ELSE UNCHANGED rows
  /\ Goto(w, "ack")
  /\ UNCHANGED <<calling, queue, msg, run, key, todo, starts, faults>>

(* As FailureSignal, storing the outcome but leaving active_key set.       *)
FailureSignalLocked(w) ==
  /\ pc[w] = "signal"
  /\ IF Kind(w) \in Addressed /\ status[msg[w].run] \notin Terminal
       THEN SetStatus(msg[w].run, "FAILED")
       ELSE UNCHANGED rows
  /\ Goto(w, "ack")
  /\ UNCHANGED <<calling, queue, msg, run, key, todo, starts, faults>>

(* As FailureSignal, with "research.movie" missing from its set of names.  *)
FailureSignalQueueOnly(w) ==
  /\ pc[w] = "signal"
  /\ IF Kind(w) = "queue" /\ status[msg[w].run] \notin Terminal
       THEN Finish(msg[w].run, "FAILED")
       ELSE UNCHANGED rows
  /\ Goto(w, "ack")
  /\ UNCHANGED <<calling, queue, msg, run, key, todo, starts, faults>>

(* notify_task_failure releases the run named in the task's arguments.     *)
FailureSignal(w) ==
  /\ pc[w] = "signal"
  /\ IF Kind(w) \in Addressed /\ status[msg[w].run] \notin Terminal
       THEN Finish(msg[w].run, "FAILED")
       ELSE UNCHANGED rows
  /\ Goto(w, "ack")
  /\ UNCHANGED <<calling, queue, msg, run, key, todo, starts, faults>>

Reset(w) ==
  /\ Goto(w, "idle")
  /\ msg' = [msg EXCEPT ![w] = NoMessage]
  /\ run' = [run EXCEPT ![w] = NoRun]
  /\ key' = [key EXCEPT ![w] = NoKey]
  /\ todo' = [todo EXCEPT ![w] = {}]

Acknowledge(w) ==
  /\ pc[w] \in {"return", "ack"}
  /\ Reset(w)
  /\ UNCHANGED <<rows, calling, queue, starts, faults>>

(* The pool child is killed: the parent process reports a failure for it.  *)
ChildDies(w) ==
  /\ pc[w] \notin {"idle", "signal", "ack"}
  /\ Strike("child")
  /\ Goto(w, "signal")
  /\ UNCHANGED <<rows, calling, queue, msg, run, key, todo, starts>>

(* The host is killed: what was not acknowledged is delivered again.       *)
HostDies(w) ==
  /\ pc[w] # "idle"
  /\ Strike("host")
  /\ queue' = queue \cup {msg[w]}
  /\ Reset(w)
  /\ UNCHANGED <<rows, calling, starts>>

(* The task outlives the visibility timeout and is delivered once more.    *)
VisibilityExpires(w) ==
  /\ pc[w] # "idle"
  /\ Strike("visibility")
  /\ queue' = queue \cup {msg[w]}
  /\ UNCHANGED <<rows, calling, working, starts>>

CallerStep(c) ==
  CallerInserts(c) \/ CallerPublishes(c) \/ CallerCannotPublish(c) \/ CallerFailsRun(c)

TaskStep(w) ==
  \/ \E m \in queue : Deliver(w, m)
  \/ SelectActive(w) \/ InsertRun(w) \/ Reselect(w)
  \/ ExecuteReads(w) \/ ExecuteStarts(w) \/ ExecuteFinishes(w) \/ ExecuteNotifies(w)
  \/ RunnerEnds(w) \/ DiscoveryEnds(w)
  \/ ParentStarts(w) \/ NextChild(w) \/ ParentFinishes(w)
  \/ Retry(w) \/ GiveUp(w) \/ FailureSignal(w) \/ Acknowledge(w)

Next ==
  \/ \E c \in Callers, k \in ManualKeys : CallerSelects(c, k)
  \/ \E c \in Callers : CallerStep(c) \/ CallerDies(c)
  \/ \E k \in Movies : MovieRequested(k)
  \/ \E k \in ScheduledKeys : BeatTicks(k)
  \/ \E w \in Workers :
       \/ TaskStep(w) \/ Raise(w) \/ LateRaise(w)
       \/ ChildDies(w) \/ HostDies(w) \/ VisibilityExpires(w)

(* API requests that have begun and workers keep going; nobody has to start *)
(* a task, and no exception or fault has to happen.                         *)
Fairness ==
  /\ \A c \in Callers : WF_vars(CallerStep(c))
  /\ \A w \in Workers : WF_vars(TaskStep(w))

Safety == Init /\ [][Next]_vars
Spec == Safety /\ Fairness
-----------------------------------------------------------------------------
(* Properties.                                                             *)

WorkingOn(w, k) == pc[w] = "steps" /\ target[run[w]] = k

(* ADMIN.md: "Per-movie database locks prevent concurrent duplicate runs": *)
(* no two workers are inside the provider steps of runs of one key.        *)
MutualExclusion ==
  \A v, w \in Workers : \A k \in Keys :
    WorkingOn(v, k) /\ WorkingOn(w, k) => v = w

(* The same, of two different runs: what the lock is for.                  *)
NoConcurrentRuns ==
  \A v, w \in Workers : \A k \in Keys :
    WorkingOn(v, k) /\ WorkingOn(w, k) => run[v] = run[w]

(* A worker inside the provider steps still holds the lock it started      *)
(* with: nobody has ended the run under its hands.                         *)
WorkUnderLock ==
  \A w \in Workers : pc[w] = "steps" => lock[run[w]] = target[run[w]]

(* The lock and the outcome are one fact in two columns: a run that exists *)
(* is unlocked exactly when it is over.                                    *)
UnlockedIffOver ==
  \A r \in Runs : status[r] # "ABSENT" => (lock[r] = NoKey <=> status[r] \in Terminal)

(* A completed run is never opened again nor turned into a failure by a    *)
(* retry or the failure signal, while no task fails after its last commit: *)
(* such a late exception is caught at tasks.py:81-90 and rewrites the      *)
(* completed row of a scheduled job.  Runs and theorem exclude it.         *)
CompleteStaysComplete ==
  [][\A r \in Runs : status[r] = "COMPLETE" => status'[r] = "COMPLETE"]_vars

(* Every lock is given back, whatever becomes of the task that took it.    *)
LocksReturned == \A r \in Runs : lock[r] # NoKey ~> lock[r] = NoKey

(* ADMIN.md: locks "are released after completion or queue failure": with  *)
(* no task waiting or running and no request in progress, no lock is held. *)
NoLockLeftBehind ==
  (/\ queue = {}
   /\ \A w \in Workers : pc[w] = "idle"
   /\ \A c \in Callers : cpc[c] = "idle")
    => \A r \in Runs : lock[r] = NoKey

(* The rows implement the lock of each key.                                *)
HolderOf(k) == IF Active(k) THEN CHOOSE r \in Runs : lock[r] = k ELSE NoRun

Lock == INSTANCE ResearchLock WITH
  holder <- [k \in Keys |-> HolderOf(k)],
  spent <- {r \in Runs : status[r] # "ABSENT"},
  busy <- [k \in Keys |-> {w \in Workers : WorkingOn(w, k)}]

ImplementsLock == Lock!Spec
=============================================================================
