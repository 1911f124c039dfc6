------------------------- MODULE ResearchRunsProofs -------------------------
(***************************************************************************)
(* Proofs about ResearchRuns, for any number of runs, movies, callers,     *)
(* workers, retries and started tasks.                                     *)
(*                                                                         *)
(* Type correctness needs no assumption on the faults.  The rest assumes   *)
(* two things: nothing is delivered twice (NoRedelivery), and no task      *)
(* fails once its outcome is committed (NoLateFailure).  Then each run is  *)
(* carried by at most one caller, message or worker (CarriedOnce), what    *)
(* carries a run that is not over has its lock (LockCarried), and so a     *)
(* worker in the provider steps works alone on its key.                    *)
(*                                                                         *)
(* The rows of research_runs then implement ResearchLock: each step that   *)
(* touches a lock or the work under it leaves the abstract state alone,    *)
(* takes a lock, starts work, stops work or gives a lock back.             *)
(***************************************************************************)
EXTENDS ResearchRuns, TLAPS

(* No message is delivered a second time, nor one of a run that the caller *)
(* has failed because its publishing reported an error.                    *)
NoRedelivery == \A f \in {"publish", "host", "visibility"} : FaultBudget[f] = 0

(* No exception strikes between the commit of a run's outcome and the      *)
(* return of its task.  One that does needs no second delivery: the        *)
(* handler of a scheduled job rewrites its completed row as FAILED         *)
(* (tasks.py:81-90), and Celery's retry opens a queue's completed parent   *)
(* again and executes a FAILED run of a movie without its lock.            *)
NoLateFailure == FaultBudget["late"] = 0

(* Who will still act on run r.                                            *)
CallerCarries(c, r) == cpc[c] \in {"publish", "fail"} /\ crun[c] = r
MessageCarries(m, r) == m.kind \in Addressed /\ m.run = r
WorkerCarries(w, r) ==
  \/ pc[w] \notin {"idle", "ack"} /\ Kind(w) \in Addressed /\ msg[w].run = r
  \/ pc[w] \in {"read", "start", "steps"} /\ run[w] = r

CarriedOnce ==
  /\ \A r \in Runs, c, d \in Callers : CallerCarries(c, r) /\ CallerCarries(d, r) => c = d
  /\ \A r \in Runs, c \in Callers, m \in queue :
       ~(CallerCarries(c, r) /\ MessageCarries(m, r))
  /\ \A r \in Runs, c \in Callers, w \in Workers :
       ~(CallerCarries(c, r) /\ WorkerCarries(w, r))
  /\ \A r \in Runs, m, n \in queue :
       MessageCarries(m, r) /\ MessageCarries(n, r) => m = n
  /\ \A r \in Runs, m \in queue, w \in Workers :
       ~(MessageCarries(m, r) /\ WorkerCarries(w, r))
  /\ \A r \in Runs, v, w \in Workers : WorkerCarries(v, r) /\ WorkerCarries(w, r) => v = w

(* What is carried exists.                                                 *)
Exists(r) == r \in Runs /\ status[r] # "ABSENT"
CarriedExists ==
  /\ \A c \in Callers : cpc[c] \in {"publish", "fail"} => Exists(crun[c])
  /\ \A m \in queue : m.kind \in Addressed => Exists(m.run)
  /\ \A w \in Workers :
       /\ pc[w] \in {"read", "start", "steps"} => Exists(run[w])
       /\ pc[w] # "idle" /\ Kind(w) \in Addressed => Exists(msg[w].run)
       /\ pc[w] # "idle" /\ Kind(w) \in {"movie", "discovery"} => run[w] = msg[w].run
       /\ pc[w] \in {"read", "start", "steps"} /\ Kind(w) = "queue" => run[w] # msg[w].run

(* A worker is only where its kind of task takes it.                       *)
Placed ==
  \A w \in Workers :
    /\ pc[w] \in {"parent", "next"} => Kind(w) = "queue"
    /\ pc[w] \in Creating => Kind(w) \notin {"movie", "discovery"} /\ key[w] \in Keys
    /\ pc[w] \in {"read", "start", "notify"} => Kind(w) # "discovery"
    /\ pc[w] \in {"read", "notify"} => Kind(w) # "scheduled"

(* The table: no two rows with one key, the key a row has is the one it    *)
(* was created with, and it has it exactly while it is not over.           *)
UniqueLock == \A r, s \in Runs : lock[r] # NoKey /\ lock[r] = lock[s] => r = s
LockIsTarget == \A r \in Runs : lock[r] \in {NoKey, target[r]}
AbsentUnlocked == \A r \in Runs : status[r] = "ABSENT" => lock[r] = NoKey

Locked(r) == lock[r] # NoKey
LockedOrComplete(r) == Locked(r) \/ status[r] = "COMPLETE"

(* Where a run that is carried still has its lock.                         *)
CallersLocked == \A c \in Callers : cpc[c] \in {"publish", "fail"} => Locked(crun[c])
MessagesLocked ==
  \A m \in queue :
    /\ m.kind = "movie" => LockedOrComplete(m.run)
    /\ m.kind \in {"queue", "discovery"} => Locked(m.run)
WorkersLocked ==
  \A w \in Workers :
    /\ pc[w] \in Executing => Locked(run[w])
    /\ pc[w] = "read" => LockedOrComplete(run[w])
    /\ pc[w] = "notify" /\ Kind(w) = "movie" => status[run[w]] = "COMPLETE"
    /\ pc[w] = "raise" /\ Kind(w) = "movie" => LockedOrComplete(run[w])
    /\ pc[w] = "raise" /\ Kind(w) = "discovery" => Locked(run[w])
    /\ pc[w] \notin {"idle", "ack", "return", "signal"} /\ Kind(w) = "queue" =>
         Locked(msg[w].run)
LockCarried == CallersLocked /\ MessagesLocked /\ WorkersLocked

IInv ==
  /\ TypeOK
  /\ CarriedOnce
  /\ CarriedExists
  /\ Placed
  /\ UniqueLock
  /\ LockIsTarget
  /\ AbsentUnlocked
  /\ UnlockedIffOver
  /\ LockCarried
-----------------------------------------------------------------------------
(* What the helpers of the model return.                                   *)

(* A message of a kind, a key and a run is a message.                      *)
LEMMA MessageTyped ==
  ASSUME NEW kind \in Kinds, NEW k \in Keys, NEW r \in Runs \cup {NoRun}
  PROVE  Message(kind, k, r) \in Messages
BY DEF Message, Messages

(* The message of a retry is a message.                                    *)
LEMMA RetryTyped ==
  ASSUME NEW m \in Messages
  PROVE  [m EXCEPT !.tries = @ + 1] \in Messages
BY DEF Messages

(* A handler of the API sends a task of a kind that names its run.         *)
LEMMA KindOfTyped ==
  ASSUME NEW k
  PROVE  KindOf(k) \in Addressed /\ KindOf(k) \in Kinds
BY DEF KindOf, Addressed, Kinds

(* The keys of the handlers are keys, and NULL is none.                    *)
LEMMA KeyFacts == ManualKeys \subseteq Keys /\ Movies \subseteq Keys
                  /\ ScheduledKeys \subseteq Keys /\ QueueKey \in Keys /\ NoKey \notin Keys
BY ConstantsAssumption DEF Keys, ManualKeys

(* Every transaction keeps the rows typed.                                 *)
LEMMA InsertTyped ==
  ASSUME RowsTyped, NEW r \in Runs, NEW k \in Keys \cup {NoKey}, Insert(r, k)
  PROVE  RowsTyped'
BY DEF RowsTyped, Insert, Statuses

LEMMA SetStatusTyped ==
  ASSUME RowsTyped, NEW r, NEW s \in Statuses, SetStatus(r, s)
  PROVE  RowsTyped'
BY DEF RowsTyped, SetStatus

LEMMA FinishTyped ==
  ASSUME RowsTyped, NEW r, NEW s \in Terminal, Finish(r, s)
  PROVE  RowsTyped'
BY DEF RowsTyped, Finish, Statuses

LEMMA RowsUnchanged == RowsTyped /\ UNCHANGED rows => RowsTyped'
BY DEF RowsTyped, rows

LEMMA CallersUnchanged == CallersTyped /\ UNCHANGED calling => CallersTyped'
BY DEF CallersTyped, calling

LEMMA WorkersUnchanged == WorkersTyped /\ UNCHANGED working => WorkersTyped'
BY DEF WorkersTyped, working

(* A fault is counted.                                                     *)
LEMMA StrikeTyped ==
  ASSUME faults \in [Faults -> Nat], NEW f \in Faults, Strike(f)
  PROVE  faults' \in [Faults -> Nat]
BY DEF Strike

LEMMA CallerDoneTyped ==
  ASSUME CallersTyped, NEW c \in Callers, CallerDone(c)
  PROVE  CallersTyped'
BY DEF CallersTyped, CallerDone, CallerPcs

LEMMA GotoTyped ==
  ASSUME WorkersTyped, NEW w \in Workers, NEW label \in WorkerPcs, Goto(w, label)
  PROVE  pc' \in [Workers -> WorkerPcs]
BY DEF WorkersTyped, Goto

LEMMA ResetTyped ==
  ASSUME WorkersTyped, NEW w \in Workers, Reset(w)
  PROVE  WorkersTyped'
<1>1. NoMessage \in Messages
  BY MessageTyped, KeyFacts DEF NoMessage, Kinds
<1>2. QED
  BY <1>1 DEF WorkersTyped, Reset, Goto, WorkerPcs
-----------------------------------------------------------------------------
(* Type correctness, for any faults.                                       *)

LEMMA InitTyped == Init => TypeOK
<1>1. NoMessage \in Messages
  BY MessageTyped, KeyFacts DEF NoMessage, Kinds
<1>2. QED
  BY <1>1 DEF Init, TypeOK, RowsTyped, CallersTyped, WorkersTyped, Statuses, CallerPcs,
              WorkerPcs

LEMMA PublishTyped ==
  ASSUME TypeOK, NEW c \in Callers, cpc[c] = "publish", Publish(c)
  PROVE  queue' \subseteq Messages
<1>1. ckey[c] \in Keys /\ crun[c] \in Runs \cup {NoRun}
  BY KeyFacts DEF TypeOK, CallersTyped
<1>2. Message(KindOf(ckey[c]), ckey[c], crun[c]) \in Messages
  BY <1>1, KindOfTyped, MessageTyped
<1>3. QED
  BY <1>2 DEF TypeOK, Publish

LEMMA CallerTyped ==
  ASSUME TypeOK,
         NEW c \in Callers,
         \/ \E k \in ManualKeys : CallerSelects(c, k)
         \/ CallerStep(c) \/ CallerDies(c)
  PROVE  TypeOK'
<1> USE DEF TypeOK
<1>1. CASE \E k \in ManualKeys : CallerSelects(c, k)
  <2>1. CallersTyped'
    BY <1>1, KeyFacts DEF CallerSelects, CallersTyped, CallerPcs
  <2>2. QED
    BY <1>1, <2>1, RowsUnchanged, WorkersUnchanged DEF CallerSelects
<1>2. CASE CallerInserts(c)
  <2>1. ckey[c] \in Keys
    BY <1>2, KeyFacts DEF CallerInserts, CallersTyped
  <2>2. RowsTyped'
    BY <1>2, <2>1, InsertTyped, RowsUnchanged DEF CallerInserts, CallerCreates
  <2>3. CallersTyped'
    BY <1>2, CallerDoneTyped
    DEF CallerInserts, CallerCreates, CallersTyped, CallerPcs, rows
  <2>4. QED
    BY <1>2, <2>2, <2>3, WorkersUnchanged DEF CallerInserts
<1>3. CASE CallerPublishes(c)
  BY <1>3, PublishTyped, CallerDoneTyped, RowsUnchanged, WorkersUnchanged
  DEF CallerPublishes
<1>4. CASE CallerCannotPublish(c)
  <2>1. queue' \subseteq Messages /\ faults' \in [Faults -> Nat]
    BY <1>4, PublishTyped, StrikeTyped DEF CallerCannotPublish, Faults
  <2>2. CallersTyped'
    BY <1>4 DEF CallerCannotPublish, CallersTyped, CallerPcs
  <2>3. QED
    BY <1>4, <2>1, <2>2, RowsUnchanged, WorkersUnchanged DEF CallerCannotPublish
<1>5. CASE CallerFailsRun(c)
  BY <1>5, FinishTyped, CallerDoneTyped, WorkersUnchanged DEF CallerFailsRun, Terminal
<1>6. CASE CallerDies(c)
  BY <1>6, StrikeTyped, CallerDoneTyped, RowsUnchanged, WorkersUnchanged
  DEF CallerDies, Faults
<1>7. QED
  BY <1>1, <1>2, <1>3, <1>4, <1>5, <1>6 DEF CallerStep

(* What a worker does inside its task keeps everything typed.              *)
LEMMA WorkerTyped ==
  ASSUME TypeOK,
         NEW w \in Workers,
         TaskStep(w) \/ Raise(w) \/ LateRaise(w)
           \/ ChildDies(w) \/ HostDies(w) \/ VisibilityExpires(w)
  PROVE  TypeOK'
<1> USE DEF TypeOK
<1>0. /\ After(w) \in WorkerPcs
      /\ msg[w] \in Messages /\ [msg[w] EXCEPT !.tries = @ + 1] \in Messages
  BY RetryTyped DEF After, WorkerPcs, WorkersTyped
<1>1. CASE \E m \in queue : Deliver(w, m)
  <2>1. PICK m \in queue : Deliver(w, m)
    BY <1>1
  <2>2. m \in Messages /\ m.run \in Runs \cup {NoRun} /\ m.key \in Keys
    BY DEF Messages
  <2>3. FirstStep(m.kind) \in WorkerPcs
    BY DEF FirstStep, WorkerPcs, Creating, Executing
  <2>4. WorkersTyped'
    BY <2>1, <2>2, <2>3, GotoTyped DEF Deliver, WorkersTyped
  <2>5. QED
    BY <2>1, <2>4, RowsUnchanged, CallersUnchanged DEF Deliver
<1>2. CASE SelectActive(w)
  <2>1. WorkersTyped'
    BY <1>2, <1>0, GotoTyped DEF SelectActive, WorkersTyped, WorkerPcs, Creating
  <2>2. QED
    BY <1>2, <2>1, RowsUnchanged, CallersUnchanged DEF SelectActive
<1>3. CASE InsertRun(w)
  <2>1. key[w] \in Keys \cup {NoKey}
    BY DEF WorkersTyped
  <2>2. RowsTyped'
    BY <1>3, <2>1, InsertTyped, RowsUnchanged DEF InsertRun
  <2>3. WorkersTyped'
    BY <1>3, GotoTyped DEF InsertRun, WorkersTyped, WorkerPcs, Creating, Executing
  <2>4. QED
    BY <1>3, <2>2, <2>3, CallersUnchanged DEF InsertRun
<1>4. CASE Reselect(w)
  <2>1. WorkersTyped'
    BY <1>4, <1>0, GotoTyped DEF Reselect, WorkersTyped, WorkerPcs
  <2>2. QED
    BY <1>4, <2>1, RowsUnchanged, CallersUnchanged DEF Reselect
<1>5. CASE ExecuteReads(w)
  <2>1. WorkersTyped'
    BY <1>5, <1>0, GotoTyped DEF ExecuteReads, WorkersTyped, WorkerPcs, Executing
  <2>2. QED
    BY <1>5, <2>1, RowsUnchanged, FinishTyped, CallersUnchanged DEF ExecuteReads, Terminal
<1>6. CASE ExecuteStarts(w)
  <2>1. WorkersTyped'
    BY <1>6, GotoTyped DEF ExecuteStarts, WorkersTyped, WorkerPcs, Executing
  <2>2. QED
    BY <1>6, <2>1, SetStatusTyped, CallersUnchanged DEF ExecuteStarts, Statuses
<1>7. CASE ExecuteFinishes(w)
  <2>1. WorkersTyped'
    BY <1>7, <1>0, GotoTyped DEF ExecuteFinishes, WorkersTyped, WorkerPcs
  <2>2. QED
    BY <1>7, <2>1, FinishTyped, CallersUnchanged DEF ExecuteFinishes, Terminal
<1>8. CASE ExecuteNotifies(w)
  <2>1. WorkersTyped'
    BY <1>8, <1>0, GotoTyped DEF ExecuteNotifies, WorkersTyped
  <2>2. QED
    BY <1>8, <2>1, RowsUnchanged, CallersUnchanged DEF ExecuteNotifies
<1>9. CASE RunnerEnds(w)
  <2>1. WorkersTyped'
    BY <1>9, GotoTyped DEF RunnerEnds, WorkersTyped, WorkerPcs
  <2>2. QED
    BY <1>9, <2>1, FinishTyped, RowsUnchanged, CallersUnchanged DEF RunnerEnds, Terminal
<1>10. CASE DiscoveryEnds(w)
  <2>1. WorkersTyped'
    BY <1>10, GotoTyped DEF DiscoveryEnds, WorkersTyped, WorkerPcs
  <2>2. QED
    BY <1>10, <2>1, FinishTyped, SetStatusTyped, CallersUnchanged
    DEF DiscoveryEnds, Statuses
<1>11. CASE ParentStarts(w)
  <2>1. WorkersTyped'
    BY <1>11, GotoTyped DEF ParentStarts, WorkersTyped, WorkerPcs
  <2>2. QED
    BY <1>11, <2>1, SetStatusTyped, CallersUnchanged DEF ParentStarts, Statuses
<1>12. CASE NextChild(w)
  <2>1. WorkersTyped'
    BY <1>12, GotoTyped, KeyFacts DEF NextChild, WorkersTyped, WorkerPcs, Creating
  <2>2. QED
    BY <1>12, <2>1, RowsUnchanged, CallersUnchanged DEF NextChild
<1>13. CASE ParentFinishes(w)
  <2>1. WorkersTyped'
    BY <1>13, GotoTyped DEF ParentFinishes, WorkersTyped, WorkerPcs
  <2>2. QED
    BY <1>13, <2>1, FinishTyped, CallersUnchanged DEF ParentFinishes, Terminal
<1>14. CASE Retry(w)
  <2>1. WorkersTyped'
    BY <1>14, GotoTyped DEF Retry, WorkersTyped, WorkerPcs
  <2>2. QED
    BY <1>14, <1>0, <2>1, RowsUnchanged, CallersUnchanged DEF Retry
<1>15. CASE GiveUp(w)
  <2>1. WorkersTyped'
    BY <1>15, GotoTyped DEF GiveUp, WorkersTyped, WorkerPcs
  <2>2. QED
    BY <1>15, <2>1, RowsUnchanged, CallersUnchanged DEF GiveUp
<1>16. CASE FailureSignal(w)
  <2>1. WorkersTyped'
    BY <1>16, GotoTyped DEF FailureSignal, WorkersTyped, WorkerPcs
  <2>2. QED
    BY <1>16, <2>1, FinishTyped, RowsUnchanged, CallersUnchanged
    DEF FailureSignal, Terminal
<1>17. CASE Acknowledge(w)
  BY <1>17, ResetTyped, RowsUnchanged, CallersUnchanged DEF Acknowledge
<1>18. CASE Raise(w)
  <2>1. WorkersTyped'
    BY <1>18, GotoTyped DEF Raise, WorkersTyped, WorkerPcs
  <2>2. QED
    BY <1>18, <2>1, RowsUnchanged, CallersUnchanged DEF Raise
<1>19. CASE LateRaise(w)
  <2>1. WorkersTyped'
    BY <1>19, GotoTyped DEF LateRaise, WorkersTyped, WorkerPcs
  <2>2. RowsTyped'
    BY <1>19, FinishTyped, RowsUnchanged DEF LateRaise, Terminal
  <2>3. QED
    BY <1>19, <2>1, <2>2, StrikeTyped, CallersUnchanged DEF LateRaise, Faults
<1>20. CASE ChildDies(w)
  <2>1. WorkersTyped'
    BY <1>20, GotoTyped DEF ChildDies, WorkersTyped, WorkerPcs
  <2>2. QED
    BY <1>20, <2>1, StrikeTyped, RowsUnchanged, CallersUnchanged DEF ChildDies, Faults
<1>21. CASE HostDies(w)
  BY <1>21, <1>0, ResetTyped, StrikeTyped, RowsUnchanged, CallersUnchanged
  DEF HostDies, Faults
<1>22. CASE VisibilityExpires(w)
  BY <1>22, <1>0, StrikeTyped, RowsUnchanged, CallersUnchanged, WorkersUnchanged
  DEF VisibilityExpires, Faults
<1>23. QED
  BY <1>1, <1>2, <1>3, <1>4, <1>5, <1>6, <1>7, <1>8, <1>9, <1>10, <1>11, <1>12, <1>13,
     <1>14, <1>15, <1>16, <1>17, <1>18, <1>19, <1>20, <1>21, <1>22
  DEF TaskStep

LEMMA SentTyped ==
  ASSUME TypeOK,
         (\E k \in Movies : MovieRequested(k)) \/ (\E k \in ScheduledKeys : BeatTicks(k))
  PROVE  TypeOK'
<1>1. \A k \in Keys : /\ Message("request", k, NoRun) \in Messages
                      /\ Message("scheduled", k, NoRun) \in Messages
  BY MessageTyped DEF Kinds
<1>2. QED
  BY <1>1, KeyFacts, RowsUnchanged, CallersUnchanged, WorkersUnchanged
  DEF TypeOK, MovieRequested, BeatTicks

LEMMA NextTyped == TypeOK /\ [Next]_vars => TypeOK'
<1> SUFFICES ASSUME TypeOK, [Next]_vars PROVE TypeOK'
  OBVIOUS
<1>1. CASE UNCHANGED vars
  BY <1>1, RowsUnchanged, CallersUnchanged, WorkersUnchanged DEF TypeOK, vars
<1>2. CASE Next
  BY <1>2, CallerTyped, WorkerTyped, SentTyped DEF Next
<1>3. QED
  BY <1>1, <1>2

(* Every variable keeps its type, whatever the environment does to the     *)
(* handlers, the broker and the workers.                                   *)
THEOREM TypeCorrect == Safety => []TypeOK
BY InitTyped, NextTyped, PTL DEF Safety
-----------------------------------------------------------------------------
(* How the steps of the model look under the two assumptions.              *)

(* The rows are consistent with each other.                                *)
Table == UniqueLock /\ LockIsTarget /\ AbsentUnlocked /\ UnlockedIffOver

(* None of the four faults strikes.                                        *)
LEMMA NoStrike ==
  ASSUME TypeOK, NoRedelivery, NoLateFailure,
         NEW f \in {"publish", "host", "visibility", "late"}
  PROVE  ~Strike(f)
BY ConstantsAssumption DEF TypeOK, NoRedelivery, NoLateFailure, Strike, Faults

LEMMA NoRedeliveryFault ==
  ASSUME IInv, NoRedelivery, NoLateFailure, NEW w \in Workers
  PROVE  ~LateRaise(w) /\ ~HostDies(w) /\ ~VisibilityExpires(w)
BY NoStrike DEF IInv, LateRaise, HostDies, VisibilityExpires

(* The steps that are left when nothing is delivered twice.                *)
CallerSteps(c) == CallerStep(c) \/ CallerDies(c)
WorkerSteps(w) == TaskStep(w) \/ Raise(w) \/ ChildDies(w)
OtherSteps ==
  \/ UNCHANGED vars
  \/ \E c \in Callers, k \in ManualKeys : CallerSelects(c, k)
  \/ \E k \in Movies : MovieRequested(k)
  \/ \E k \in ScheduledKeys : BeatTicks(k)

LEMMA StepCases ==
  ASSUME IInv, NoRedelivery, NoLateFailure, [Next]_vars
  PROVE  \/ \E c \in Callers : CallerSteps(c)
         \/ \E w \in Workers : WorkerSteps(w)
         \/ OtherSteps
BY NoRedeliveryFault DEF Next, CallerSteps, WorkerSteps, OtherSteps

(* A retry sends a message about the same run.                             *)
LEMMA RetrySends ==
  ASSUME TypeOK, NEW w \in Workers, Retry(w)
  PROVE  \E n \in Messages :
           n.kind = Kind(w) /\ n.run = msg[w].run /\ queue' = queue \cup {n}
<1> DEFINE n == [msg[w] EXCEPT !.tries = @ + 1]
<1>1. msg[w] \in Messages
  BY DEF TypeOK, WorkersTyped
<1>2. n \in Messages /\ n.kind = Kind(w) /\ n.run = msg[w].run
  BY <1>1 DEF Messages, Kind
<1>3. queue' = queue \cup {n}
  BY DEF Retry
<1>4. QED
  BY <1>2, <1>3

(* Carriers that only go away leave each run with one at most.             *)
LEMMA FewerCarriers ==
  ASSUME CarriedOnce,
         queue' \subseteq queue,
         \A c \in Callers, r \in Runs : CallerCarries(c, r)' => CallerCarries(c, r),
         \A w \in Workers, r \in Runs : WorkerCarries(w, r)' => WorkerCarries(w, r)
  PROVE  CarriedOnce'
BY DEF CarriedOnce, MessageCarries

(* Nobody carries a run that is not in the table yet.                      *)
LEMMA FreshNotCarried ==
  ASSUME IInv, NEW r \in Runs, status[r] = "ABSENT"
  PROVE  /\ \A c \in Callers : ~CallerCarries(c, r)
         /\ \A m \in queue : ~MessageCarries(m, r)
         /\ \A w \in Workers : ~WorkerCarries(w, r)
BY DEF IInv, CarriedExists, Exists, CallerCarries, MessageCarries, WorkerCarries

(* The transactions keep the table consistent.                             *)
LEMMA TableInserted ==
  ASSUME RowsTyped, Table, NEW r \in Runs, NEW k \in Keys, ~Active(k), Insert(r, k)
  PROVE  Table'
BY KeyFacts DEF RowsTyped, Table, UniqueLock, LockIsTarget, AbsentUnlocked, UnlockedIffOver,
   Terminal, Active, Insert

LEMMA TableMarked ==
  ASSUME RowsTyped, Table, NEW r \in Runs, NEW s \in {"RUNNING", "RETRYING"}, Locked(r),
         SetStatus(r, s)
  PROVE  Table'
BY DEF RowsTyped, Table, UniqueLock, LockIsTarget, AbsentUnlocked, UnlockedIffOver,
   Terminal, Locked, SetStatus

LEMMA TableFinished ==
  ASSUME RowsTyped, Table, NEW r \in Runs, NEW s \in Terminal, Finish(r, s)
  PROVE  Table'
BY DEF RowsTyped, Table, UniqueLock, LockIsTarget, AbsentUnlocked, UnlockedIffOver,
   Terminal, Finish

LEMMA TableUnchanged == Table /\ UNCHANGED rows => Table'
BY DEF Table, UniqueLock, LockIsTarget, AbsentUnlocked, UnlockedIffOver, rows
-----------------------------------------------------------------------------
(* The invariant is inductive: one lemma for each of its parts.            *)

(* Every run keeps at most one carrier: a step moves it along, or drops it. *)
LEMMA CarriedOnceKept ==
  ASSUME IInv, NoRedelivery, NoLateFailure, [Next]_vars
  PROVE  CarriedOnce'
<1> USE DEF IInv, TypeOK, RowsTyped, CallersTyped, WorkersTyped, CallerCarries,
            WorkerCarries, CarriedExists, Exists, Placed, Kind, Addressed, Executing,
            Creating, Terminal, rows, calling, working
<1>1. ASSUME NEW c \in Callers, CallerSteps(c) PROVE CarriedOnce'
  <2>1. CASE CallerInserts(c)
    <3>1. CASE CallerDone(c) /\ UNCHANGED rows
      BY <2>1, <3>1, FewerCarriers DEF CallerInserts, CallerDone
    <3>2. CASE CallerCreates(c)
      <4>1. PICK r \in Runs : Insert(r, ckey[c]) /\ crun' = [crun EXCEPT ![c] = r]
        BY <3>2 DEF CallerCreates
      <4>2. /\ \A d \in Callers : ~CallerCarries(d, r)
            /\ \A m \in queue : ~MessageCarries(m, r)
            /\ \A w \in Workers : ~WorkerCarries(w, r)
        BY <4>1, FreshNotCarried DEF Insert
      <4>3. \A d \in Callers, s \in Runs :
              CallerCarries(d, s)' => CallerCarries(d, s) \/ (d = c /\ s = r)
        BY <3>2, <4>1 DEF CallerCreates
      <4>4. \A w \in Workers, s \in Runs : WorkerCarries(w, s)' => WorkerCarries(w, s)
        BY <2>1 DEF CallerInserts
      <4> HIDE DEF CallerCarries, WorkerCarries
      <4>5. QED
        BY <2>1, <4>2, <4>3, <4>4 DEF CallerInserts, CarriedOnce, MessageCarries
    <3>3. QED
      BY <2>1, <3>1, <3>2 DEF CallerInserts
  <2>2. CASE CallerPublishes(c)
    BY <2>2, KindOfTyped
    DEF CallerPublishes, CallerDone, Publish, Message, CarriedOnce, MessageCarries
  <2>3. CASE CallerCannotPublish(c)
    BY <2>3, NoStrike, FewerCarriers DEF CallerCannotPublish
  <2>4. CASE CallerFailsRun(c)
    BY <2>4, FewerCarriers DEF CallerFailsRun, Finish, CallerDone
  <2>5. CASE CallerDies(c)
    BY <2>5, FewerCarriers DEF CallerDies, CallerDone
  <2>6. QED
    BY <1>1, <2>1, <2>2, <2>3, <2>4, <2>5
    DEF CallerSteps, CallerStep
<1>2. ASSUME NEW w \in Workers, WorkerSteps(w) PROVE CarriedOnce'
  <2>1. ASSUME NEW m \in queue, Deliver(w, m) PROVE CarriedOnce'
    BY <2>1 DEF Deliver, Goto, FirstStep, CarriedOnce, MessageCarries
  <2>2. CASE SelectActive(w)
    BY <2>2, FewerCarriers DEF SelectActive, Goto, After
  <2>3. CASE InsertRun(w)
    <3>1. CASE Goto(w, "reselect") /\ UNCHANGED <<rows, run>>
      BY <2>3, <3>1, FewerCarriers DEF InsertRun, Goto
    <3>2. ASSUME NEW r \in Runs, Insert(r, key[w]), run' = [run EXCEPT ![w] = r],
                 Goto(w, IF Kind(w) = "scheduled" THEN "start" ELSE "read")
          PROVE  CarriedOnce'
      <4>1. /\ \A c \in Callers : ~CallerCarries(c, r)
            /\ \A m \in queue : ~MessageCarries(m, r)
            /\ \A v \in Workers : ~WorkerCarries(v, r)
        BY <3>2, FreshNotCarried DEF Insert
      <4>2. \A v \in Workers, s \in Runs :
              WorkerCarries(v, s)' => WorkerCarries(v, s) \/ (v = w /\ s = r)
        BY <2>3, <3>2 DEF InsertRun, Goto
      <4>3. \A c \in Callers, s \in Runs : CallerCarries(c, s)' => CallerCarries(c, s)
        BY <2>3 DEF InsertRun
      <4> HIDE DEF CallerCarries, WorkerCarries
      <4>4. QED
        BY <2>3, <4>1, <4>2, <4>3 DEF InsertRun, CarriedOnce, MessageCarries
    <3>3. QED
      BY <2>3, <3>1, <3>2 DEF InsertRun
  <2>4. CASE Reselect(w)
    BY <2>4, FewerCarriers DEF Reselect, Goto, After
  <2>5. CASE ExecuteReads(w)
    BY <2>5, FewerCarriers DEF ExecuteReads, Goto, After, Finish
  <2>6. CASE ExecuteStarts(w)
    BY <2>6, FewerCarriers DEF ExecuteStarts, Goto, SetStatus
  <2>7. CASE ExecuteFinishes(w)
    BY <2>7, FewerCarriers DEF ExecuteFinishes, Goto, After, Finish
  <2>8. CASE ExecuteNotifies(w)
    BY <2>8, FewerCarriers DEF ExecuteNotifies, Goto, After
  <2>9. CASE RunnerEnds(w)
    BY <2>9, FewerCarriers DEF RunnerEnds, Goto, Finish
  <2>10. CASE DiscoveryEnds(w)
    BY <2>10, FewerCarriers DEF DiscoveryEnds, Goto, Finish, SetStatus
  <2>11. CASE ParentStarts(w)
    BY <2>11, FewerCarriers DEF ParentStarts, Goto, SetStatus
  <2>12. CASE NextChild(w)
    BY <2>12, FewerCarriers DEF NextChild, Goto
  <2>13. CASE ParentFinishes(w)
    BY <2>13, FewerCarriers DEF ParentFinishes, Goto, Finish
  <2>14. CASE Raise(w)
    BY <2>14, FewerCarriers DEF Raise, Goto
  <2>15. CASE Retry(w)
    <3>1. PICK n \in Messages :
               n.kind = Kind(w) /\ n.run = msg[w].run /\ queue' = queue \cup {n}
      BY <2>15, RetrySends
    <3>2. \A r \in Runs : MessageCarries(n, r) => WorkerCarries(w, r)
      BY <2>15, <3>1 DEF Retry, MessageCarries
    <3>3. \A r \in Runs : ~WorkerCarries(w, r)'
      BY <2>15 DEF Retry, Goto
    <3>4. \A v \in Workers, r \in Runs : WorkerCarries(v, r)' => WorkerCarries(v, r)
      BY <2>15 DEF Retry, Goto
    <3>5. \A c \in Callers, r \in Runs : CallerCarries(c, r)' => CallerCarries(c, r)
      BY <2>15 DEF Retry
    <3> HIDE DEF CallerCarries, WorkerCarries
    <3>6. QED
      BY <3>1, <3>2, <3>3, <3>4, <3>5 DEF CarriedOnce, MessageCarries
  <2>16. CASE GiveUp(w)
    BY <2>16, FewerCarriers DEF GiveUp, Goto
  <2>17. CASE FailureSignal(w)
    BY <2>17, FewerCarriers DEF FailureSignal, Goto, Finish
  <2>18. CASE Acknowledge(w)
    BY <2>18, FewerCarriers DEF Acknowledge, Goto, Reset
  <2>19. CASE ChildDies(w)
    BY <2>19, FewerCarriers DEF ChildDies, Goto
  <2>20. QED
    BY <1>2, <2>1, <2>2, <2>3, <2>4, <2>5, <2>6, <2>7, <2>8, <2>9, <2>10, <2>11, <2>12,
       <2>13, <2>14, <2>15, <2>16, <2>17, <2>18, <2>19
    DEF WorkerSteps, TaskStep
<1>3. CASE OtherSteps
  <2>1. CASE UNCHANGED vars \/ \E c \in Callers, k \in ManualKeys : CallerSelects(c, k)
    BY <2>1, FewerCarriers DEF vars, CallerSelects
  <2>2. ASSUME NEW kind \in {"request", "scheduled"}, NEW k,
               queue' = queue \cup {Message(kind, k, NoRun)},
               UNCHANGED <<rows, calling, working>>
        PROVE  CarriedOnce'
    BY <2>2 DEF Message, CarriedOnce, MessageCarries
  <2>3. QED
    BY <1>3, <2>1, <2>2 DEF OtherSteps, MovieRequested, BeatTicks
<1>4. QED
  BY <1>1, <1>2, <1>3, StepCases

(* A row never goes away, and a new carrier carries a row just written.    *)
LEMMA CarriedExistsKept ==
  ASSUME IInv, NoRedelivery, NoLateFailure, [Next]_vars
  PROVE  CarriedExists'
<1> USE DEF IInv, TypeOK, RowsTyped, CallersTyped, WorkersTyped, CarriedExists, Exists,
            Placed, Kind, Addressed, Executing, Creating, Terminal, rows, calling,
            working
<1>1. ASSUME NEW c \in Callers, CallerSteps(c) PROVE CarriedExists'
  <2>1. CASE CallerInserts(c)
    BY <2>1, KeyFacts DEF CallerInserts, CallerCreates, CallerDone, Insert
  <2>2. CASE CallerPublishes(c)
    BY <2>2, KindOfTyped DEF CallerPublishes, CallerDone, Publish, Message
  <2>3. CASE CallerCannotPublish(c)
    BY <2>3, NoStrike DEF CallerCannotPublish
  <2>4. CASE CallerFailsRun(c)
    BY <2>4 DEF CallerFailsRun, Finish, CallerDone
  <2>5. CASE CallerDies(c)
    BY <2>5 DEF CallerDies, CallerDone
  <2>6. QED
    BY <1>1, <2>1, <2>2, <2>3, <2>4, <2>5
    DEF CallerSteps, CallerStep
<1>2. ASSUME NEW w \in Workers, WorkerSteps(w) PROVE CarriedExists'
  <2>1. ASSUME NEW m \in queue, Deliver(w, m) PROVE CarriedExists'
    BY <2>1 DEF Deliver, Goto, FirstStep
  <2>2. CASE SelectActive(w)
    BY <2>2 DEF SelectActive, Goto, After
  <2>3. CASE InsertRun(w)
    BY <2>3, KeyFacts DEF InsertRun, Goto, Insert
  <2>4. CASE Reselect(w)
    BY <2>4 DEF Reselect, Goto, After
  <2>5. CASE ExecuteReads(w)
    BY <2>5 DEF ExecuteReads, Goto, After, Finish
  <2>6. CASE ExecuteStarts(w)
    BY <2>6 DEF ExecuteStarts, Goto, SetStatus
  <2>7. CASE ExecuteFinishes(w)
    BY <2>7 DEF ExecuteFinishes, Goto, After, Finish
  <2>8. CASE ExecuteNotifies(w)
    BY <2>8 DEF ExecuteNotifies, Goto, After
  <2>9. CASE RunnerEnds(w)
    BY <2>9 DEF RunnerEnds, Goto, Finish
  <2>10. CASE DiscoveryEnds(w)
    BY <2>10 DEF DiscoveryEnds, Goto, Finish, SetStatus
  <2>11. CASE ParentStarts(w)
    BY <2>11 DEF ParentStarts, Goto, SetStatus
  <2>12. CASE NextChild(w)
    BY <2>12 DEF NextChild, Goto
  <2>13. CASE ParentFinishes(w)
    BY <2>13 DEF ParentFinishes, Goto, Finish
  <2>14. CASE Raise(w)
    BY <2>14 DEF Raise, Goto
  <2>15. CASE Retry(w)
    <3>1. PICK n \in Messages :
               n.kind = Kind(w) /\ n.run = msg[w].run /\ queue' = queue \cup {n}
      BY <2>15, RetrySends
    <3>2. QED
      BY <2>15, <3>1 DEF Retry, Goto
  <2>16. CASE GiveUp(w)
    BY <2>16 DEF GiveUp, Goto
  <2>17. CASE FailureSignal(w)
    BY <2>17 DEF FailureSignal, Goto, Finish
  <2>18. CASE Acknowledge(w)
    BY <2>18 DEF Acknowledge, Goto, Reset
  <2>19. CASE ChildDies(w)
    BY <2>19 DEF ChildDies, Goto
  <2>20. QED
    BY <1>2, <2>1, <2>2, <2>3, <2>4, <2>5, <2>6, <2>7, <2>8, <2>9, <2>10, <2>11, <2>12,
       <2>13, <2>14, <2>15, <2>16, <2>17, <2>18, <2>19
    DEF WorkerSteps, TaskStep
<1>3. CASE OtherSteps
  BY <1>3 DEF OtherSteps, vars, CallerSelects, MovieRequested, BeatTicks, Message
<1>4. QED
  BY <1>1, <1>2, <1>3, StepCases

(* No step leads a task to where its kind has no business.                 *)
LEMMA PlacedKept ==
  ASSUME IInv, NoRedelivery, NoLateFailure, [Next]_vars
  PROVE  Placed'
<1> USE DEF IInv, TypeOK, RowsTyped, CallersTyped, WorkersTyped, Placed, Kind,
            Addressed, Executing, Creating, Terminal, rows, calling, working
<1>1. ASSUME NEW c \in Callers, CallerSteps(c) PROVE Placed'
  <2>1. CASE CallerInserts(c)
    BY <2>1, KeyFacts DEF CallerInserts, CallerCreates, CallerDone, Insert
  <2>2. CASE CallerPublishes(c)
    BY <2>2, KindOfTyped DEF CallerPublishes, CallerDone, Publish, Message
  <2>3. CASE CallerCannotPublish(c)
    BY <2>3, NoStrike DEF CallerCannotPublish
  <2>4. CASE CallerFailsRun(c)
    BY <2>4 DEF CallerFailsRun, Finish, CallerDone
  <2>5. CASE CallerDies(c)
    BY <2>5 DEF CallerDies, CallerDone
  <2>6. QED
    BY <1>1, <2>1, <2>2, <2>3, <2>4, <2>5
    DEF CallerSteps, CallerStep
<1>2. ASSUME NEW w \in Workers, WorkerSteps(w) PROVE Placed'
  <2>1. ASSUME NEW m \in queue, Deliver(w, m) PROVE Placed'
    BY <2>1 DEF Deliver, Goto, FirstStep, Messages
  <2>2. CASE SelectActive(w)
    BY <2>2 DEF SelectActive, Goto, After
  <2>3. CASE InsertRun(w)
    BY <2>3, KeyFacts DEF InsertRun, Goto, Insert
  <2>4. CASE Reselect(w)
    BY <2>4 DEF Reselect, Goto, After
  <2>5. CASE ExecuteReads(w)
    BY <2>5 DEF ExecuteReads, Goto, After, Finish
  <2>6. CASE ExecuteStarts(w)
    BY <2>6 DEF ExecuteStarts, Goto, SetStatus
  <2>7. CASE ExecuteFinishes(w)
    BY <2>7 DEF ExecuteFinishes, Goto, After, Finish
  <2>8. CASE ExecuteNotifies(w)
    BY <2>8 DEF ExecuteNotifies, Goto, After
  <2>9. CASE RunnerEnds(w)
    BY <2>9 DEF RunnerEnds, Goto, Finish
  <2>10. CASE DiscoveryEnds(w)
    BY <2>10 DEF DiscoveryEnds, Goto, Finish, SetStatus
  <2>11. CASE ParentStarts(w)
    BY <2>11 DEF ParentStarts, Goto, SetStatus
  <2>12. CASE NextChild(w)
    BY <2>12, KeyFacts DEF NextChild, Goto
  <2>13. CASE ParentFinishes(w)
    BY <2>13 DEF ParentFinishes, Goto, Finish
  <2>14. CASE Raise(w)
    BY <2>14 DEF Raise, Goto
  <2>15. CASE Retry(w)
    BY <2>15 DEF Retry, Goto
  <2>16. CASE GiveUp(w)
    BY <2>16 DEF GiveUp, Goto
  <2>17. CASE FailureSignal(w)
    BY <2>17 DEF FailureSignal, Goto, Finish
  <2>18. CASE Acknowledge(w)
    BY <2>18 DEF Acknowledge, Goto, Reset
  <2>19. CASE ChildDies(w)
    BY <2>19 DEF ChildDies, Goto
  <2>20. QED
    BY <1>2, <2>1, <2>2, <2>3, <2>4, <2>5, <2>6, <2>7, <2>8, <2>9, <2>10, <2>11, <2>12,
       <2>13, <2>14, <2>15, <2>16, <2>17, <2>18, <2>19
    DEF WorkerSteps, TaskStep
<1>3. CASE OtherSteps
  BY <1>3 DEF OtherSteps, vars, CallerSelects, MovieRequested, BeatTicks, Message
<1>4. QED
  BY <1>1, <1>2, <1>3, StepCases

(* A handler keeps the lock of its run: nobody else can end that run.      *)
LEMMA CallersLockedKept ==
  ASSUME IInv, NoRedelivery, NoLateFailure, [Next]_vars
  PROVE  CallersLocked'
<1> USE DEF IInv, TypeOK, RowsTyped, CallersTyped, WorkersTyped, LockCarried, Placed,
            CallersLocked, MessagesLocked, WorkersLocked, CarriedOnce, CarriedExists,
            Exists, CallerCarries, MessageCarries, WorkerCarries, Locked,
            LockedOrComplete, Kind, Addressed, Executing, Creating, Terminal, rows,
            calling, working
<1>1. ASSUME NEW c \in Callers, CallerSteps(c) PROVE CallersLocked'
  <2>1. CASE CallerInserts(c)
    <3>1. ckey[c] \in Keys /\ ckey[c] # NoKey
      BY <2>1, KeyFacts DEF CallerInserts
    <3>2. CASE CallerDone(c) /\ UNCHANGED rows
      BY <2>1, <3>2 DEF CallerInserts, CallerDone
    <3>3. CASE CallerCreates(c)
      BY <3>1, <3>3 DEF CallerCreates, Insert
    <3>4. QED
      BY <2>1, <3>2, <3>3 DEF CallerInserts
  <2>2. CASE CallerPublishes(c)
    BY <2>2, KindOfTyped DEF CallerPublishes, CallerDone, Publish, Message
  <2>3. CASE CallerCannotPublish(c)
    BY <2>3, NoStrike DEF CallerCannotPublish
  <2>4. CASE CallerFailsRun(c)
    BY <2>4 DEF CallerFailsRun, Finish, CallerDone
  <2>5. CASE CallerDies(c)
    BY <2>5 DEF CallerDies, CallerDone
  <2>6. QED
    BY <1>1, <2>1, <2>2, <2>3, <2>4, <2>5
    DEF CallerSteps, CallerStep
<1>2. ASSUME NEW w \in Workers, WorkerSteps(w) PROVE CallersLocked'
  <2>1. ASSUME NEW m \in queue, Deliver(w, m) PROVE CallersLocked'
    BY <2>1 DEF Deliver, Goto, FirstStep
  <2>2. CASE SelectActive(w)
    BY <2>2 DEF SelectActive, Goto, After
  <2>3. CASE InsertRun(w)
    BY <2>3, KeyFacts DEF InsertRun, Goto, Insert
  <2>4. CASE Reselect(w)
    BY <2>4 DEF Reselect, Goto, After
  <2>5. CASE ExecuteReads(w)
    BY <2>5 DEF ExecuteReads, Goto, After, Finish
  <2>6. CASE ExecuteStarts(w)
    BY <2>6 DEF ExecuteStarts, Goto, SetStatus
  <2>7. CASE ExecuteFinishes(w)
    BY <2>7 DEF ExecuteFinishes, Goto, After, Finish
  <2>8. CASE ExecuteNotifies(w)
    BY <2>8 DEF ExecuteNotifies, Goto, After
  <2>9. CASE RunnerEnds(w)
    BY <2>9 DEF RunnerEnds, Goto, Finish
  <2>10. CASE DiscoveryEnds(w)
    BY <2>10 DEF DiscoveryEnds, Goto, Finish, SetStatus
  <2>11. CASE ParentStarts(w)
    BY <2>11 DEF ParentStarts, Goto, SetStatus
  <2>12. CASE NextChild(w)
    BY <2>12 DEF NextChild, Goto
  <2>13. CASE ParentFinishes(w)
    BY <2>13 DEF ParentFinishes, Goto, Finish
  <2>14. CASE Raise(w)
    BY <2>14 DEF Raise, Goto
  <2>15. CASE Retry(w)
    BY <2>15 DEF Retry, Goto
  <2>16. CASE GiveUp(w)
    BY <2>16 DEF GiveUp, Goto
  <2>17. CASE FailureSignal(w)
    BY <2>17 DEF FailureSignal, Goto, Finish
  <2>18. CASE Acknowledge(w)
    BY <2>18 DEF Acknowledge, Goto, Reset
  <2>19. CASE ChildDies(w)
    BY <2>19 DEF ChildDies, Goto
  <2>20. QED
    BY <1>2, <2>1, <2>2, <2>3, <2>4, <2>5, <2>6, <2>7, <2>8, <2>9, <2>10, <2>11, <2>12,
       <2>13, <2>14, <2>15, <2>16, <2>17, <2>18, <2>19
    DEF WorkerSteps, TaskStep
<1>3. CASE OtherSteps
  BY <1>3 DEF OtherSteps, vars, CallerSelects, MovieRequested, BeatTicks, Message
<1>4. QED
  BY <1>1, <1>2, <1>3, StepCases

(* A message waits under the lock of its run.                              *)
LEMMA MessagesLockedKept ==
  ASSUME IInv, NoRedelivery, NoLateFailure, [Next]_vars
  PROVE  MessagesLocked'
<1> USE DEF IInv, TypeOK, RowsTyped, CallersTyped, WorkersTyped, LockCarried, Placed,
            CallersLocked, MessagesLocked, WorkersLocked, CarriedOnce, CarriedExists,
            Exists, CallerCarries, MessageCarries, WorkerCarries, Locked,
            LockedOrComplete, Kind, Addressed, Executing, Creating, Terminal, rows,
            calling, working
<1>1. ASSUME NEW c \in Callers, CallerSteps(c) PROVE MessagesLocked'
  <2>1. CASE CallerInserts(c)
    BY <2>1, KeyFacts DEF CallerInserts, CallerCreates, CallerDone, Insert
  <2>2. CASE CallerPublishes(c)
    BY <2>2, KindOfTyped DEF CallerPublishes, CallerDone, Publish, Message
  <2>3. CASE CallerCannotPublish(c)
    BY <2>3, NoStrike DEF CallerCannotPublish
  <2>4. CASE CallerFailsRun(c)
    BY <2>4 DEF CallerFailsRun, Finish, CallerDone
  <2>5. CASE CallerDies(c)
    BY <2>5 DEF CallerDies, CallerDone
  <2>6. QED
    BY <1>1, <2>1, <2>2, <2>3, <2>4, <2>5
    DEF CallerSteps, CallerStep
<1>2. ASSUME NEW w \in Workers, WorkerSteps(w) PROVE MessagesLocked'
  <2>1. ASSUME NEW m \in queue, Deliver(w, m) PROVE MessagesLocked'
    BY <2>1 DEF Deliver, Goto, FirstStep
  <2>2. CASE SelectActive(w)
    BY <2>2 DEF SelectActive, Goto, After
  <2>3. CASE InsertRun(w)
    BY <2>3, KeyFacts DEF InsertRun, Goto, Insert
  <2>4. CASE Reselect(w)
    BY <2>4 DEF Reselect, Goto, After
  <2>5. CASE ExecuteReads(w)
    BY <2>5 DEF ExecuteReads, Goto, After, Finish
  <2>6. CASE ExecuteStarts(w)
    BY <2>6 DEF ExecuteStarts, Goto, SetStatus
  <2>7. CASE ExecuteFinishes(w)
    BY <2>7 DEF ExecuteFinishes, Goto, After, Finish
  <2>8. CASE ExecuteNotifies(w)
    BY <2>8 DEF ExecuteNotifies, Goto, After
  <2>9. CASE RunnerEnds(w)
    BY <2>9 DEF RunnerEnds, Goto, Finish
  <2>10. CASE DiscoveryEnds(w)
    BY <2>10 DEF DiscoveryEnds, Goto, Finish, SetStatus
  <2>11. CASE ParentStarts(w)
    BY <2>11 DEF ParentStarts, Goto, SetStatus
  <2>12. CASE NextChild(w)
    BY <2>12 DEF NextChild, Goto
  <2>13. CASE ParentFinishes(w)
    <3>1. WorkerCarries(w, msg[w].run) /\ msg[w].run \in Runs
      BY <2>13 DEF ParentFinishes
    <3>2. \A m \in queue : m.kind \in Addressed => m.run # msg[w].run /\ m.run \in Runs
      BY <3>1
    <3>3. QED
      BY <2>13, <3>2 DEF ParentFinishes, Finish
  <2>14. CASE Raise(w)
    BY <2>14 DEF Raise, Goto
  <2>15. CASE Retry(w)
    <3>1. PICK n \in Messages :
               n.kind = Kind(w) /\ n.run = msg[w].run /\ queue' = queue \cup {n}
      BY <2>15, RetrySends
    <3>4. pc[w] = "raise" /\ n.run = msg[w].run /\ n.kind = Kind(w)
      BY <2>15, <3>1 DEF Retry
    <3>5. n.kind \in {"movie", "discovery"} => n.run = run[w]
      BY <3>4
    <3>2. /\ n.kind = "movie" => LockedOrComplete(n.run)
          /\ n.kind \in {"queue", "discovery"} => Locked(n.run)
      BY <3>4, <3>5
    <3>3. QED
      BY <2>15, <3>1, <3>2 DEF Retry
  <2>16. CASE GiveUp(w)
    BY <2>16 DEF GiveUp, Goto
  <2>17. CASE FailureSignal(w)
    BY <2>17 DEF FailureSignal, Goto, Finish
  <2>18. CASE Acknowledge(w)
    BY <2>18 DEF Acknowledge, Goto, Reset
  <2>19. CASE ChildDies(w)
    BY <2>19 DEF ChildDies, Goto
  <2>20. QED
    BY <1>2, <2>1, <2>2, <2>3, <2>4, <2>5, <2>6, <2>7, <2>8, <2>9, <2>10, <2>11, <2>12,
       <2>13, <2>14, <2>15, <2>16, <2>17, <2>18, <2>19
    DEF WorkerSteps, TaskStep
<1>3. CASE OtherSteps
  BY <1>3 DEF OtherSteps, vars, CallerSelects, MovieRequested, BeatTicks, Message
<1>4. QED
  BY <1>1, <1>2, <1>3, StepCases

(* A worker keeps the lock of its run until it clears it itself.           *)
LEMMA WorkersLockedKept ==
  ASSUME IInv, NoRedelivery, NoLateFailure, [Next]_vars
  PROVE  WorkersLocked'
<1> USE DEF IInv, TypeOK, RowsTyped, CallersTyped, WorkersTyped, LockCarried, Placed,
            CallersLocked, MessagesLocked, WorkersLocked, CarriedOnce, CarriedExists,
            Exists, CallerCarries, MessageCarries, WorkerCarries, Locked,
            LockedOrComplete, Kind, Addressed, Executing, Creating, Terminal, rows,
            calling, working
<1>1. ASSUME NEW c \in Callers, CallerSteps(c) PROVE WorkersLocked'
  <2>1. CASE CallerInserts(c)
    BY <2>1, KeyFacts DEF CallerInserts, CallerCreates, CallerDone, Insert
  <2>2. CASE CallerPublishes(c)
    BY <2>2, KindOfTyped DEF CallerPublishes, CallerDone, Publish, Message
  <2>3. CASE CallerCannotPublish(c)
    BY <2>3, NoStrike DEF CallerCannotPublish
  <2>4. CASE CallerFailsRun(c)
    BY <2>4 DEF CallerFailsRun, Finish, CallerDone
  <2>5. CASE CallerDies(c)
    BY <2>5 DEF CallerDies, CallerDone
  <2>6. QED
    BY <1>1, <2>1, <2>2, <2>3, <2>4, <2>5
    DEF CallerSteps, CallerStep
<1>2. ASSUME NEW w \in Workers, WorkerSteps(w) PROVE WorkersLocked'
  <2>1. ASSUME NEW m \in queue, Deliver(w, m) PROVE WorkersLocked'
    BY <2>1 DEF Deliver, Goto, FirstStep
  <2>2. CASE SelectActive(w)
    BY <2>2 DEF SelectActive, Goto, After
  <2>3. CASE InsertRun(w)
    BY <2>3, KeyFacts DEF InsertRun, Goto, Insert
  <2>4. CASE Reselect(w)
    BY <2>4 DEF Reselect, Goto, After
  <2>5. CASE ExecuteReads(w)
    BY <2>5 DEF ExecuteReads, Goto, After, Finish
  <2>6. CASE ExecuteStarts(w)
    BY <2>6 DEF ExecuteStarts, Goto, SetStatus
  <2>7. CASE ExecuteFinishes(w)
    <3>1. WorkerCarries(w, run[w]) /\ run[w] \in Runs
      BY <2>7 DEF ExecuteFinishes
    <3>2. CASE Finish(run[w], "COMPLETE") /\ Goto(w, "notify")
      BY <2>7, <3>1, <3>2 DEF ExecuteFinishes, Finish, Goto
    <3>3. CASE Finish(run[w], "FAILED") /\ Goto(w, After(w))
      BY <2>7, <3>1, <3>3 DEF ExecuteFinishes, Finish, Goto, After
    <3>4. QED
      BY <2>7, <3>2, <3>3 DEF ExecuteFinishes
  <2>8. CASE ExecuteNotifies(w)
    BY <2>8 DEF ExecuteNotifies, Goto, After
  <2>9. CASE RunnerEnds(w)
    BY <2>9 DEF RunnerEnds, Goto, Finish
  <2>10. CASE DiscoveryEnds(w)
    <3>1. WorkerCarries(w, run[w]) /\ run[w] \in Runs
      BY <2>10 DEF DiscoveryEnds
    <3>2. ASSUME NEW s \in Terminal, Finish(run[w], s), Goto(w, "return") PROVE WorkersLocked'
      BY <2>10, <3>1, <3>2 DEF DiscoveryEnds, Goto, Finish
    <3>3. CASE SetStatus(run[w], "RETRYING") /\ Goto(w, "raise")
      BY <2>10, <3>1, <3>3 DEF DiscoveryEnds, Goto, SetStatus
    <3>4. QED
      BY <2>10, <3>2, <3>3 DEF DiscoveryEnds
  <2>11. CASE ParentStarts(w)
    BY <2>11 DEF ParentStarts, Goto, SetStatus
  <2>12. CASE NextChild(w)
    BY <2>12 DEF NextChild, Goto
  <2>13. CASE ParentFinishes(w)
    <3>1. WorkerCarries(w, msg[w].run) /\ msg[w].run \in Runs
      BY <2>13 DEF ParentFinishes
    <3>2. \A v \in Workers, r \in Runs : v # w /\ WorkerCarries(v, r) =>
            lock'[r] = lock[r] /\ status'[r] = status[r]
      <4> HIDE DEF WorkerCarries, CallerCarries, MessageCarries
      <4>1. \A v \in Workers, r \in Runs : v # w /\ WorkerCarries(v, r) => r # msg[w].run
        BY <3>1
      <4>2. QED
        BY <2>13, <4>1 DEF ParentFinishes, Finish
    <3>3. ASSUME NEW v \in Workers, v # w
          PROVE  /\ pc'[v] = pc[v] /\ Kind(v)' = Kind(v) /\ run'[v] = run[v] /\ msg'[v] = msg[v]
                 /\ pc[v] \in {"read", "start", "steps"} =>
                      lock'[run[v]] = lock[run[v]] /\ status'[run[v]] = status[run[v]]
                 /\ pc[v] \notin {"idle", "ack"} /\ Kind(v) \in Addressed =>
                      /\ lock'[msg[v].run] = lock[msg[v].run]
                      /\ status'[msg[v].run] = status[msg[v].run]
      BY <2>13, <3>2, <3>3 DEF ParentFinishes, Goto
    <3>4. pc'[w] = "return"
      BY <2>13 DEF ParentFinishes, Goto
    <3>5. QED
      BY <3>3, <3>4
  <2>14. CASE Raise(w)
    BY <2>14 DEF Raise, Goto
  <2>15. CASE Retry(w)
    BY <2>15 DEF Retry, Goto
  <2>16. CASE GiveUp(w)
    BY <2>16 DEF GiveUp, Goto
  <2>17. CASE FailureSignal(w)
    BY <2>17 DEF FailureSignal, Goto, Finish
  <2>18. CASE Acknowledge(w)
    BY <2>18 DEF Acknowledge, Goto, Reset
  <2>19. CASE ChildDies(w)
    BY <2>19 DEF ChildDies, Goto
  <2>20. QED
    BY <1>2, <2>1, <2>2, <2>3, <2>4, <2>5, <2>6, <2>7, <2>8, <2>9, <2>10, <2>11, <2>12,
       <2>13, <2>14, <2>15, <2>16, <2>17, <2>18, <2>19
    DEF WorkerSteps, TaskStep
<1>3. CASE OtherSteps
  BY <1>3 DEF OtherSteps, vars, CallerSelects, MovieRequested, BeatTicks, Message
<1>4. QED
  BY <1>1, <1>2, <1>3, StepCases

(* The rows stay consistent: whoever ends or marks a run has its lock.     *)
LEMMA TableKept ==
  ASSUME IInv, NoRedelivery, NoLateFailure, [Next]_vars
  PROVE  Table'
<1>1. RowsTyped /\ Table
  BY DEF IInv, TypeOK, Table
<1>2. ASSUME NEW c \in Callers, CallerSteps(c) PROVE Table'
  <2>1. CASE CallerInserts(c)
    <3>1. ckey[c] \in Keys
      BY <2>1, KeyFacts DEF CallerInserts, IInv, TypeOK, CallersTyped
    <3>2. QED
      BY <1>1, <2>1, <3>1, TableInserted, TableUnchanged DEF CallerInserts, CallerCreates
  <2>2. CASE CallerFailsRun(c)
    <3>1. crun[c] \in Runs
      BY <2>2 DEF CallerFailsRun, IInv, CarriedExists, Exists
    <3>2. QED
      BY <1>1, <2>2, <3>1, TableFinished DEF CallerFailsRun, Terminal
  <2>3. CASE CallerPublishes(c) \/ CallerCannotPublish(c) \/ CallerDies(c)
    BY <1>1, <2>3, TableUnchanged DEF CallerPublishes, CallerCannotPublish, CallerDies
  <2>4. QED
    BY <1>2, <2>1, <2>2, <2>3 DEF CallerSteps, CallerStep
<1>3. ASSUME NEW w \in Workers, WorkerSteps(w) PROVE Table'
  <2>1. CASE InsertRun(w)
    <3>1. key[w] \in Keys
      BY <2>1 DEF InsertRun, IInv, Placed, Creating
    <3>2. QED
      BY <1>1, <2>1, <3>1, TableInserted, TableUnchanged DEF InsertRun
  <2>2. pc[w] \in {"start", "steps"} => run[w] \in Runs /\ Locked(run[w])
    BY DEF IInv, CarriedExists, Exists, LockCarried, WorkersLocked, Executing
  <2>3. pc[w] \in {"parent", "next"} => msg[w].run \in Runs /\ Locked(msg[w].run)
    BY DEF IInv, CarriedExists, Exists, LockCarried, WorkersLocked, Placed, Addressed
  <2>12. pc[w] = "read" => run[w] \in Runs
    BY DEF IInv, CarriedExists, Exists
  <2>4. CASE ExecuteStarts(w) \/ DiscoveryEnds(w) \/ ParentStarts(w)
    BY <1>1, <2>2, <2>3, <2>4, TableMarked, TableFinished
    DEF ExecuteStarts, DiscoveryEnds, ParentStarts
  <2>5. CASE ExecuteFinishes(w) \/ RunnerEnds(w) \/ ParentFinishes(w)
    BY <1>1, <2>2, <2>3, <2>5, TableFinished, TableUnchanged
    DEF ExecuteFinishes, RunnerEnds, ParentFinishes, Terminal
  <2>6. CASE FailureSignal(w)
    <3>1. Kind(w) \in Addressed => msg[w].run \in Runs
      BY <2>6 DEF FailureSignal, IInv, CarriedExists, Exists
    <3>2. QED
      BY <1>1, <2>6, <3>1, TableFinished, TableUnchanged DEF FailureSignal, Terminal
  <2>7. CASE \/ \E m \in queue : Deliver(w, m)
             \/ SelectActive(w) \/ Reselect(w) \/ ExecuteNotifies(w) \/ NextChild(w)
    BY <1>1, <2>7, TableUnchanged
    DEF Deliver, SelectActive, Reselect, ExecuteNotifies, NextChild
  <2>11. CASE ExecuteReads(w)
    BY <1>1, <2>12, <2>11, TableFinished, TableUnchanged DEF ExecuteReads, Terminal
  <2>8. CASE Raise(w) \/ Retry(w) \/ GiveUp(w) \/ Acknowledge(w) \/ ChildDies(w)
    BY <1>1, <2>8, TableUnchanged DEF Raise, Retry, GiveUp, Acknowledge, ChildDies
  <2>9. QED
    BY <1>3, <2>1, <2>4, <2>5, <2>6, <2>7, <2>8, <2>11 DEF WorkerSteps, TaskStep
<1>4. CASE OtherSteps
  BY <1>1, <1>4, TableUnchanged DEF OtherSteps, vars, CallerSelects, MovieRequested, BeatTicks
<1>5. QED
  BY <1>2, <1>3, <1>4, StepCases
-----------------------------------------------------------------------------
(* The inductive invariant and what follows from it.                       *)

LEMMA InitInv == Init => IInv
<1> SUFFICES ASSUME Init PROVE IInv
  OBVIOUS
<1>1. TypeOK
  BY InitTyped
<1>2. CarriedOnce /\ CarriedExists /\ Placed /\ LockCarried
  BY DEF Init, CarriedOnce, CarriedExists, Placed, LockCarried, CallersLocked,
     MessagesLocked, WorkersLocked, CallerCarries, WorkerCarries, Creating, Executing
<1>3. UniqueLock /\ LockIsTarget /\ AbsentUnlocked /\ UnlockedIffOver
  BY DEF Init, UniqueLock, LockIsTarget, AbsentUnlocked, UnlockedIffOver
<1>4. QED
  BY <1>1, <1>2, <1>3 DEF IInv

LEMMA NextInv ==
  ASSUME IInv, NoRedelivery, NoLateFailure, [Next]_vars
  PROVE  IInv'
<1>1. TypeOK'
  BY NextTyped DEF IInv
<1>2. CarriedOnce' /\ CarriedExists' /\ Placed'
  BY CarriedOnceKept, CarriedExistsKept, PlacedKept
<1>3. LockCarried'
  BY CallersLockedKept, MessagesLockedKept, WorkersLockedKept DEF LockCarried
<1>4. Table'
  BY TableKept
<1>5. QED
  BY <1>1, <1>2, <1>3, <1>4 DEF IInv, Table

(* Two workers in the provider steps of one key hold one lock, so they     *)
(* work on one run, and a run has one carrier.                             *)
LEMMA ExclusionFollows == IInv => MutualExclusion
<1> SUFFICES ASSUME IInv,
                    NEW v \in Workers, NEW w \in Workers, NEW k \in Keys,
                    WorkingOn(v, k), WorkingOn(w, k)
             PROVE  v = w
  BY DEF MutualExclusion
<1>1. /\ run[v] \in Runs /\ lock[run[v]] = k
      /\ run[w] \in Runs /\ lock[run[w]] = k
  BY DEF IInv, WorkingOn, CarriedExists, Exists, LockCarried, WorkersLocked, Locked,
     LockIsTarget, Executing
<1>2. run[v] = run[w]
  BY <1>1, KeyFacts DEF IInv, UniqueLock
<1>3. WorkerCarries(v, run[v]) /\ WorkerCarries(w, run[v])
  BY <1>2 DEF WorkingOn, WorkerCarries
<1>4. QED
  BY <1>1, <1>3 DEF IInv, CarriedOnce

LEMMA LockFollows == IInv => WorkUnderLock
BY DEF IInv, WorkUnderLock, CarriedExists, Exists, LockCarried, WorkersLocked, Locked,
   LockIsTarget, Executing

(* Whoever rewrites a status has the lock, and a completed run has none.   *)
LEMMA CompleteFollows ==
  ASSUME IInv, NoRedelivery, NoLateFailure, [Next]_vars, NEW r \in Runs, status[r] = "COMPLETE"
  PROVE  status'[r] = "COMPLETE"
<1>1. status \in [Runs -> Statuses]
  BY DEF IInv, TypeOK, RowsTyped
<1>2. ~Locked(r)
  BY DEF IInv, UnlockedIffOver, Terminal, Locked
<1>3. ASSUME NEW c \in Callers, CallerSteps(c) PROVE status'[r] = "COMPLETE"
  <2>1. CASE CallerInserts(c)
    BY <1>1, <2>1 DEF CallerInserts, CallerCreates, Insert, rows
  <2>2. CASE CallerFailsRun(c)
    BY <1>1, <1>2, <2>2 DEF CallerFailsRun, Finish, IInv, LockCarried, CallersLocked
  <2>3. CASE CallerPublishes(c) \/ CallerCannotPublish(c) \/ CallerDies(c)
    BY <2>3 DEF CallerPublishes, CallerCannotPublish, CallerDies, rows
  <2>4. QED
    BY <1>3, <2>1, <2>2, <2>3 DEF CallerSteps, CallerStep
<1>4. ASSUME NEW w \in Workers, WorkerSteps(w) PROVE status'[r] = "COMPLETE"
  <2>1. CASE InsertRun(w)
    BY <1>1, <2>1 DEF InsertRun, Insert, rows
  <2>2. pc[w] \in {"start", "steps"} => run[w] # r
    BY <1>2 DEF IInv, LockCarried, WorkersLocked, Executing
  <2>3. pc[w] \in {"parent", "next"} => msg[w].run # r
    BY <1>2 DEF IInv, LockCarried, WorkersLocked, Placed
  <2>4. CASE ExecuteStarts(w) \/ DiscoveryEnds(w) \/ ParentStarts(w)
    BY <1>1, <2>2, <2>3, <2>4 DEF ExecuteStarts, DiscoveryEnds, ParentStarts, SetStatus, Finish
  <2>5. CASE ExecuteFinishes(w) \/ RunnerEnds(w) \/ ParentFinishes(w)
    BY <1>1, <2>2, <2>3, <2>5 DEF ExecuteFinishes, RunnerEnds, ParentFinishes, Finish, rows
  <2>6. CASE FailureSignal(w)
    BY <1>1, <2>6 DEF FailureSignal, Finish, Terminal, rows
  <2>7. CASE \/ \E m \in queue : Deliver(w, m)
             \/ SelectActive(w) \/ Reselect(w) \/ ExecuteNotifies(w) \/ NextChild(w)
    BY <2>7 DEF Deliver, SelectActive, Reselect, ExecuteNotifies, NextChild, rows
  <2>10. CASE ExecuteReads(w)
    BY <1>1, <2>10 DEF ExecuteReads, Finish, rows
  <2>8. CASE Raise(w) \/ Retry(w) \/ GiveUp(w) \/ Acknowledge(w) \/ ChildDies(w)
    BY <2>8 DEF Raise, Retry, GiveUp, Acknowledge, ChildDies, rows
  <2>9. QED
    BY <1>4, <2>1, <2>4, <2>5, <2>6, <2>7, <2>8, <2>10 DEF WorkerSteps, TaskStep
<1>5. CASE OtherSteps
  BY <1>5 DEF OtherSteps, vars, rows, CallerSelects, MovieRequested, BeatTicks
<1>6. QED
  BY <1>3, <1>4, <1>5, StepCases

LEMMA Inductive == ASSUME NoRedelivery, NoLateFailure PROVE Safety => []IInv
<1>1. IInv /\ [Next]_vars => IInv'
  BY NextInv
<1>2. QED
  BY InitInv, <1>1, PTL DEF Safety

(* No two workers research one movie, or run one job, at the same time, as *)
(* long as no message is delivered twice and no task fails after it has    *)
(* committed its outcome (ADMIN.md: the locks "prevent concurrent          *)
(* duplicate runs").                                                       *)
THEOREM LocksExclude ==
  ASSUME NoRedelivery, NoLateFailure
  PROVE  Safety => []MutualExclusion
BY Inductive, ExclusionFollows, PTL

(* A worker in the provider steps has its lock to the end of them: under   *)
(* the two assumptions neither a failing handler nor the failure signal    *)
(* takes it away, and no retry executes a run that has lost it.            *)
THEOREM LocksCoverWork ==
  ASSUME NoRedelivery, NoLateFailure
  PROVE  Safety => []WorkUnderLock
BY Inductive, LockFollows, PTL

(* The two columns never disagree: clearing active_key and storing the     *)
(* outcome are one commit on every path through the code, and under the    *)
(* two assumptions no run that is over is executed again.                  *)
THEOREM LocksFollowStatus ==
  ASSUME NoRedelivery, NoLateFailure
  PROVE  Safety => []UnlockedIffOver
<1>1. IInv => UnlockedIffOver
  BY DEF IInv
<1>2. QED
  BY Inductive, <1>1, PTL

(* A completed run keeps its outcome: a retry, a child killed late and the *)
(* failure signal leave it alone.  Both assumptions are needed: a second   *)
(* delivery opens a queue's completed parent again, and so does the retry  *)
(* after a late failure, which also makes the handler of a scheduled job   *)
(* rewrite its completed row as FAILED.                                    *)
THEOREM CompletionFinal ==
  ASSUME NoRedelivery, NoLateFailure
  PROVE  Safety => CompleteStaysComplete
<1>1. IInv /\ [Next]_vars => [\A r \in Runs : status[r] = "COMPLETE" => status'[r] = "COMPLETE"]_vars
  BY CompleteFollows
<1>2. QED
  BY Inductive, <1>1, PTL DEF Safety, CompleteStaysComplete

-----------------------------------------------------------------------------
(* The refinement of ResearchLock.                                         *)
AtWork(w) == pc[w] = "steps"

LEMMA HolderIs ==
  ASSUME UniqueLock, NEW r \in Runs, lock[r] # NoKey
  PROVE  HolderOf(lock[r]) = r
<1>1. Active(lock[r])
  BY DEF Active
<1>2. \A s \in Runs : lock[s] = lock[r] => s = r
  BY DEF UniqueLock
<1>3. QED
  BY <1>1, <1>2 DEF HolderOf

LEMMA HolderFree ==
  ASSUME NEW k
  PROVE  (HolderOf(k) = NoRun) <=> ~Active(k)
<1>1. CASE Active(k)
  <2>1. HolderOf(k) \in Runs
    BY <1>1 DEF Active, HolderOf
  <2>2. QED
    BY <1>1, <2>1, ConstantsAssumption
<1>2. CASE ~Active(k)
  BY <1>2 DEF HolderOf
<1>3. QED
  BY <1>1, <1>2

(* The invariant, as the lemmas below use it.                              *)
WorkGood ==
  /\ MutualExclusion
  /\ UniqueLock
  /\ \A w \in Workers : AtWork(w) =>
       /\ run[w] \in Runs /\ status[run[w]] # "ABSENT"
       /\ target[run[w]] \in Keys /\ lock[run[w]] = target[run[w]]

LEMMA WorkIsGood == IInv => WorkGood
<1> SUFFICES ASSUME IInv PROVE WorkGood
  OBVIOUS
<1>1. MutualExclusion /\ UniqueLock /\ WorkUnderLock
  BY ExclusionFollows, LockFollows DEF IInv
<1>2. ASSUME NEW w \in Workers, AtWork(w)
      PROVE  /\ run[w] \in Runs /\ status[run[w]] # "ABSENT"
             /\ target[run[w]] \in Keys /\ lock[run[w]] = target[run[w]]
  <2>1. run[w] \in Runs /\ status[run[w]] # "ABSENT" /\ lock[run[w]] # NoKey
    BY <1>2 DEF AtWork, IInv, CarriedExists, Exists, LockCarried, WorkersLocked, Executing,
                Locked
  <2>2. QED
    BY <1>1, <1>2, <2>1 DEF AtWork, WorkUnderLock, IInv, TypeOK, RowsTyped
<1>3. QED
  BY <1>1, <1>2 DEF WorkGood

(* Nothing the lock shows has changed.                                     *)
LEMMA Stutters ==
  ASSUME IInv,
         UNCHANGED <<lock, target>>,
         \A r \in Runs : (status'[r] = "ABSENT") <=> (status[r] = "ABSENT"),
         \A v \in Workers : /\ AtWork(v)' <=> AtWork(v)
                            /\ AtWork(v) => run'[v] = run[v]
  PROVE  UNCHANGED Lock!vars
<1>1. \A k : HolderOf(k)' = HolderOf(k)
  BY DEF HolderOf, Active
<1>2. {r \in Runs : status[r] # "ABSENT"}' = {r \in Runs : status[r] # "ABSENT"}
  OBVIOUS
<1>3. \A v \in Workers : \A k : WorkingOn(v, k)' <=> WorkingOn(v, k)
  BY DEF WorkingOn, AtWork
<1>4. \A k : {w \in Workers : WorkingOn(w, k)}' = {w \in Workers : WorkingOn(w, k)}
  BY <1>3
<1>5. QED
  BY <1>1, <1>2, <1>4 DEF Lock!vars

(* A new row takes the lock of its key.                                    *)
LEMMA Acquires ==
  ASSUME IInv, WorkGood, WorkGood', NEW r \in Runs, NEW k \in Keys, ~Active(k), Insert(r, k),
         \A v \in Workers : /\ AtWork(v)' <=> AtWork(v)
                            /\ AtWork(v) => run'[v] = run[v]
  PROVE  Lock!Acquire(k, r)
<1>1. HolderOf(k) = NoRun
  BY HolderFree
<1>2. HolderOf(k)' = r
  <2>1. lock'[r] = k /\ k # NoKey
    BY KeyFacts DEF Insert, IInv, TypeOK, RowsTyped
  <2>2. UniqueLock'
    BY DEF WorkGood
  <2>3. QED
    BY <2>1, <2>2 DEF HolderOf, Active, UniqueLock
<1>3. ASSUME NEW x \in Keys, x # k PROVE HolderOf(x)' = HolderOf(x)
  <2>1. lock[r] # x
    BY KeyFacts DEF Insert, IInv, AbsentUnlocked
  <2>2. \A s \in Runs : (lock'[s] = x) <=> (lock[s] = x)
    BY <1>3, <2>1 DEF Insert, IInv, TypeOK, RowsTyped
  <2>3. QED
    BY <2>2 DEF HolderOf, Active
<1>4. {s \in Runs : status[s] # "ABSENT"}' = {s \in Runs : status[s] # "ABSENT"} \cup {r}
  BY DEF Insert, IInv, TypeOK, RowsTyped
<1>5. \A v \in Workers : \A x : WorkingOn(v, x)' <=> WorkingOn(v, x)
  <2>1. \A v \in Workers : AtWork(v) => run[v] \in Runs /\ run[v] # r
    BY DEF WorkGood, Insert
  <2>2. QED
    BY <2>1 DEF WorkingOn, AtWork, Insert, IInv, TypeOK, RowsTyped
<1>6. [x \in Keys |-> {w \in Workers : WorkingOn(w, x)}]'
        = [x \in Keys |-> {w \in Workers : WorkingOn(w, x)}]
  BY <1>5
<1>7. [x \in Keys |-> HolderOf(x)]' = [[x \in Keys |-> HolderOf(x)] EXCEPT ![k] = r]
  BY <1>2, <1>3
<1>8. r \notin {s \in Runs : status[s] # "ABSENT"}
  BY DEF Insert
<1>9. QED
  BY <1>1, <1>4, <1>6, <1>7, <1>8 DEF Lock!Acquire

(* A worker enters the provider steps.                                     *)
LEMMA Starts ==
  ASSUME IInv, WorkGood, WorkGood', NEW w \in Workers, ~AtWork(w), AtWork(w)',
         UNCHANGED <<lock, target>>,
         \A r \in Runs : (status'[r] = "ABSENT") <=> (status[r] = "ABSENT"),
         \A v \in Workers \ {w} : pc'[v] = pc[v] /\ run'[v] = run[v]
  PROVE  \E k \in Keys : Lock!StartWork(k, w)
<1>1. PICK k \in Keys : target[run'[w]] = k /\ run'[w] \in Runs /\ lock[run'[w]] = k
  BY DEF WorkGood
<1>2. HolderOf(k) # NoRun
  BY <1>1, HolderFree DEF Active
<1>3. \A v \in Workers : ~WorkingOn(v, k)
  <2>1. SUFFICES ASSUME NEW v \in Workers, WorkingOn(v, k) PROVE FALSE
    OBVIOUS
  <2>2. v # w /\ WorkingOn(v, k)' /\ WorkingOn(w, k)'
    BY <1>1, <2>1 DEF WorkingOn, AtWork
  <2>3. MutualExclusion'
    BY DEF WorkGood
  <2>4. QED
    BY <1>1, <2>2, <2>3 DEF MutualExclusion
<1>4. \A v \in Workers : \A x : WorkingOn(v, x)' <=> WorkingOn(v, x) \/ (v = w /\ x = k)
  BY <1>1 DEF WorkingOn, AtWork
<1>5. [x \in Keys |-> {v \in Workers : WorkingOn(v, x)}]'
        = [[x \in Keys |-> {v \in Workers : WorkingOn(v, x)}] EXCEPT ![k] = {w}]
  BY <1>3, <1>4
<1>6. [x \in Keys |-> HolderOf(x)]' = [x \in Keys |-> HolderOf(x)]
  BY DEF HolderOf, Active
<1>7. {r \in Runs : status[r] # "ABSENT"}' = {r \in Runs : status[r] # "ABSENT"}
  OBVIOUS
<1>8. Lock!StartWork(k, w)
  <2>1. [x \in Keys |-> {v \in Workers : WorkingOn(v, x)}][k] = {}
    BY <1>1, <1>3
  <2>2. [x \in Keys |-> HolderOf(x)][k] # NoRun
    BY <1>1, <1>2
  <2>3. QED
    BY <1>5, <1>6, <1>7, <2>1, <2>2 DEF Lock!StartWork
<1>9. QED
  BY <1>1, <1>8

(* A worker leaves them and keeps the lock.                                *)
LEMMA Stops ==
  ASSUME IInv, WorkGood, NEW w \in Workers, AtWork(w), ~AtWork(w)',
         UNCHANGED <<lock, target>>,
         \A r \in Runs : (status'[r] = "ABSENT") <=> (status[r] = "ABSENT"),
         \A v \in Workers \ {w} : pc'[v] = pc[v] /\ run'[v] = run[v]
  PROVE  \E k \in Keys : Lock!StopWork(k)
<1>1. PICK k \in Keys : target[run[w]] = k /\ WorkingOn(w, k)
  BY DEF WorkGood, WorkingOn, AtWork
<1>2. \A v \in Workers : WorkingOn(v, k) => v = w
  BY <1>1 DEF WorkGood, MutualExclusion
<1>3. \A v \in Workers : \A x : WorkingOn(v, x)' <=> WorkingOn(v, x) /\ v # w
  BY DEF WorkingOn, AtWork
<1>4. \A v \in Workers : \A x : WorkingOn(v, x) /\ x # k => v # w
  BY <1>1 DEF WorkingOn
<1>5. [x \in Keys |-> {v \in Workers : WorkingOn(v, x)}]'
        = [[x \in Keys |-> {v \in Workers : WorkingOn(v, x)}] EXCEPT ![k] = {}]
  <2>1. {v \in Workers : WorkingOn(v, k)}' = {}
    BY <1>2, <1>3
  <2>2. \A x \in Keys : x # k =>
          {v \in Workers : WorkingOn(v, x)}' = {v \in Workers : WorkingOn(v, x)}
    BY <1>3, <1>4
  <2>3. QED
    BY <2>1, <2>2
<1>6. [x \in Keys |-> HolderOf(x)]' = [x \in Keys |-> HolderOf(x)]
  BY DEF HolderOf, Active
<1>7. {r \in Runs : status[r] # "ABSENT"}' = {r \in Runs : status[r] # "ABSENT"}
  OBVIOUS
<1>8. [x \in Keys |-> {v \in Workers : WorkingOn(v, x)}][k] # {}
  BY <1>1
<1>9. QED
  BY <1>1, <1>5, <1>6, <1>7, <1>8 DEF Lock!StopWork

(* A run ends and gives its lock back, and with it the work under it.      *)
LEMMA Releases ==
  ASSUME IInv, WorkGood, WorkGood', NEW r \in Runs, NEW s \in Terminal, Locked(r), Finish(r, s),
         \A v \in Workers : \/ /\ AtWork(v)' <=> AtWork(v)
                               /\ AtWork(v) => run'[v] = run[v]
                            \/ AtWork(v) /\ run[v] = r /\ ~AtWork(v)'
  PROVE  \E k \in Keys : Lock!Release(k)
<1>1. PICK k \in Keys : lock[r] = k /\ lock' = [lock EXCEPT ![r] = NoKey] /\ target' = target
  BY DEF Locked, Finish, IInv, TypeOK, RowsTyped
<1>2. lock \in [Runs -> Keys \cup {NoKey}]
  BY DEF IInv, TypeOK, RowsTyped
<1>3. HolderOf(k) # NoRun
  BY <1>1, HolderFree DEF Active
<1>4. ~Active(k)'
  BY <1>1, <1>2, KeyFacts DEF Active, IInv, UniqueLock
<1>5. [x \in Keys |-> HolderOf(x)]' = [[x \in Keys |-> HolderOf(x)] EXCEPT ![k] = NoRun]
  <2>1. HolderOf(k)' = NoRun
    BY <1>4 DEF HolderOf
  <2>2. ASSUME NEW x \in Keys, x # k PROVE HolderOf(x)' = HolderOf(x)
    <3>1. \A t \in Runs : (lock'[t] = x) <=> (lock[t] = x)
      BY <1>1, <1>2, <2>2, KeyFacts
    <3>2. QED
      BY <3>1 DEF HolderOf, Active
  <2>3. QED
    BY <2>1, <2>2
<1>6. \A v \in Workers : ~WorkingOn(v, k)'
  BY <1>4 DEF WorkGood, WorkingOn, AtWork, Active
<1>7. ASSUME NEW x \in Keys, x # k, NEW v \in Workers
      PROVE  WorkingOn(v, x)' <=> WorkingOn(v, x)
  <2>1. CASE AtWork(v) /\ run[v] = r /\ ~AtWork(v)'
    BY <1>1, <1>7, <2>1 DEF WorkGood, WorkingOn, AtWork
  <2>2. CASE (AtWork(v)' <=> AtWork(v)) /\ (AtWork(v) => run'[v] = run[v])
    BY <1>1, <2>2 DEF WorkingOn, AtWork
  <2>3. QED
    BY <2>1, <2>2
<1>8. [x \in Keys |-> {v \in Workers : WorkingOn(v, x)}]'
        = [[x \in Keys |-> {v \in Workers : WorkingOn(v, x)}] EXCEPT ![k] = {}]
  <2>1. QED
    BY <1>6, <1>7
<1>9. {t \in Runs : status[t] # "ABSENT"}' = {t \in Runs : status[t] # "ABSENT"}
  BY DEF Finish, Terminal, IInv, TypeOK, RowsTyped, AbsentUnlocked, Locked
<1>10. QED
  BY <1>1, <1>3, <1>5, <1>8, <1>9 DEF Lock!Release
-----------------------------------------------------------------------------
(* The whole.                                                              *)

LEMMA InitImplements == Init => Lock!Init
<1> SUFFICES ASSUME Init PROVE Lock!Init
  OBVIOUS
<1>1. \A k \in Keys : ~Active(k)
  BY KeyFacts DEF Init, Active
<1>2. \A k \in Keys, w \in Workers : ~WorkingOn(w, k)
  BY DEF Init, WorkingOn
<1>3. {r \in Runs : status[r] # "ABSENT"} = {}
  BY DEF Init
<1>4. QED
  BY <1>1, <1>2, <1>3, HolderFree DEF Lock!Init

(* A handler of the API never works, so it takes, keeps or returns a lock. *)
LEMMA CallerImplements ==
  ASSUME IInv, WorkGood, WorkGood', NEW c \in Callers, CallerSteps(c)
  PROVE  [Lock!Next]_(Lock!vars)
<1>1. \A w \in Workers : /\ AtWork(w)' <=> AtWork(w)
                         /\ AtWork(w) => run'[w] = run[w]
  BY DEF CallerSteps, CallerStep, CallerInserts, CallerPublishes, CallerCannotPublish,
     CallerFailsRun, CallerDies, working, AtWork
<1>2. CASE CallerInserts(c)
  <2>1. ckey[c] \in Keys
    BY <1>2, KeyFacts DEF CallerInserts, IInv, TypeOK, CallersTyped
  <2>2. CASE UNCHANGED rows
    BY <1>1, <2>2, Stutters DEF rows
  <2>3. ASSUME ~Active(ckey[c]), NEW r \in Runs, Insert(r, ckey[c])
        PROVE  Lock!Next
    <3>1. Lock!Acquire(ckey[c], r)
      BY <1>1, <2>1, <2>3, Acquires
    <3>2. QED
      BY <2>1, <3>1 DEF Lock!Next
  <2>4. QED
    BY <1>2, <2>2, <2>3 DEF CallerInserts, CallerCreates
<1>3. CASE CallerFailsRun(c)
  <2>1. crun[c] \in Runs /\ Locked(crun[c])
    BY <1>3 DEF CallerFailsRun, IInv, CarriedExists, Exists, LockCarried, CallersLocked
  <2>2. \E k \in Keys : Lock!Release(k)
    BY <1>1, <1>3, <2>1, Releases DEF CallerFailsRun, Terminal
  <2>3. QED
    BY <2>2 DEF Lock!Next
<1>4. CASE CallerPublishes(c) \/ CallerCannotPublish(c) \/ CallerDies(c)
  BY <1>1, <1>4, Stutters DEF CallerPublishes, CallerCannotPublish, CallerDies, rows
<1>5. QED
  BY <1>2, <1>3, <1>4 DEF CallerSteps, CallerStep

LEMMA WorkerImplements ==
  ASSUME IInv, WorkGood, WorkGood', NEW w \in Workers, WorkerSteps(w)
  PROVE  [Lock!Next]_(Lock!vars)
<1>1. /\ pc \in [Workers -> WorkerPcs] /\ run \in [Workers -> Runs \cup {NoRun}]
      /\ status \in [Runs -> Statuses]
  BY DEF IInv, TypeOK, RowsTyped, WorkersTyped
<1>2. \A v \in Workers \ {w} : pc'[v] = pc[v] /\ run'[v] = run[v]
  BY <1>1
  DEF WorkerSteps, TaskStep, Deliver, SelectActive, InsertRun, Reselect, ExecuteReads,
      ExecuteStarts, ExecuteFinishes, ExecuteNotifies, RunnerEnds, DiscoveryEnds,
      ParentStarts, NextChild, ParentFinishes, Retry, GiveUp, FailureSignal, Acknowledge,
      Raise, ChildDies, Goto, Reset
<1>3. ASSUME UNCHANGED <<lock, target>>,
             \A r \in Runs : (status'[r] = "ABSENT") <=> (status[r] = "ABSENT"),
             AtWork(w) /\ AtWork(w)' => run'[w] = run[w]
      PROVE  [Lock!Next]_(Lock!vars)
  <2>1. CASE AtWork(w) /\ ~AtWork(w)'
    BY <1>2, <1>3, <2>1, Stops DEF Lock!Next
  <2>2. CASE ~AtWork(w) /\ AtWork(w)'
    BY <1>2, <1>3, <2>2, Starts DEF Lock!Next
  <2>3. CASE AtWork(w) <=> AtWork(w)'
    <3>1. \A v \in Workers : /\ AtWork(v)' <=> AtWork(v)
                             /\ AtWork(v) => run'[v] = run[v]
      BY <1>2, <1>3, <2>3 DEF AtWork
    <3>2. QED
      BY <1>3, <3>1, Stutters
  <2>4. QED
    BY <2>1, <2>2, <2>3
<1>4. ASSUME NEW r \in Runs, NEW s \in Terminal, Locked(r), Finish(r, s), ~AtWork(w)',
             AtWork(w) => run[w] = r
      PROVE  [Lock!Next]_(Lock!vars)
  <2>1. \A v \in Workers : \/ /\ AtWork(v)' <=> AtWork(v)
                              /\ AtWork(v) => run'[v] = run[v]
                           \/ AtWork(v) /\ run[v] = r /\ ~AtWork(v)'
    BY <1>2, <1>4 DEF AtWork
  <2>2. QED
    BY <1>4, <2>1, Releases DEF Lock!Next
<1>5. CASE UNCHANGED rows
  <2>1. AtWork(w) /\ AtWork(w)' => run'[w] = run[w]
    BY <1>1, <1>5
    DEF WorkerSteps, TaskStep, Deliver, SelectActive, InsertRun, Reselect, ExecuteReads,
        ExecuteStarts, ExecuteFinishes, ExecuteNotifies, RunnerEnds, DiscoveryEnds,
        ParentStarts, NextChild, ParentFinishes, Retry, GiveUp, FailureSignal, Acknowledge,
        Raise, ChildDies, Goto, Reset, AtWork
  <2>2. QED
    BY <1>3, <1>5, <2>1 DEF rows
<1>6. pc[w] \in {"start", "steps"} => run[w] \in Runs /\ status[run[w]] # "ABSENT"
                                      /\ Locked(run[w])
  BY DEF IInv, CarriedExists, Exists, LockCarried, WorkersLocked, Executing
<1>7. pc[w] \in {"parent", "next"} => msg[w].run \in Runs /\ status[msg[w].run] # "ABSENT"
                                      /\ Locked(msg[w].run)
  BY DEF IInv, CarriedExists, Exists, LockCarried, WorkersLocked, Placed, Addressed
<1>8. CASE InsertRun(w)
  <2>1. key[w] \in Keys
    BY <1>8 DEF InsertRun, IInv, Placed, Creating
  <2>2. ASSUME ~Active(key[w]), NEW r \in Runs, Insert(r, key[w]) PROVE Lock!Next
    <3>1. \A v \in Workers : /\ AtWork(v)' <=> AtWork(v)
                             /\ AtWork(v) => run'[v] = run[v]
      BY <1>1, <1>2, <1>8 DEF InsertRun, Goto, AtWork
    <3>2. Lock!Acquire(key[w], r)
      BY <2>1, <2>2, <3>1, Acquires
    <3>3. QED
      BY <2>1, <3>2 DEF Lock!Next
  <2>3. QED
    BY <1>5, <1>8, <2>2 DEF InsertRun
<1>9. CASE ExecuteStarts(w) \/ ParentStarts(w)
  <2>1. \A r \in Runs : (status'[r] = "ABSENT") <=> (status[r] = "ABSENT")
    BY <1>1, <1>6, <1>7, <1>9 DEF ExecuteStarts, ParentStarts, SetStatus
  <2>2. QED
    BY <1>3, <1>9, <2>1 DEF ExecuteStarts, ParentStarts, SetStatus, AtWork
<1>10. CASE DiscoveryEnds(w)
  <2>1. ~AtWork(w)' /\ AtWork(w)
    BY <1>1, <1>10 DEF DiscoveryEnds, Goto, AtWork
  <2>2. CASE SetStatus(run[w], "RETRYING")
    <3>1. \A r \in Runs : (status'[r] = "ABSENT") <=> (status[r] = "ABSENT")
      BY <1>1, <1>6, <2>1, <2>2 DEF SetStatus, AtWork
    <3>2. QED
      BY <1>3, <2>1, <2>2, <3>1 DEF SetStatus
  <2>3. CASE \E s \in Terminal : Finish(run[w], s)
    BY <1>4, <1>6, <2>1, <2>3 DEF AtWork
  <2>4. QED
    BY <1>10, <2>2, <2>3 DEF DiscoveryEnds
<1>11. CASE ExecuteFinishes(w) \/ RunnerEnds(w)
  <2>1. ~AtWork(w)' /\ AtWork(w)
    BY <1>1, <1>11 DEF ExecuteFinishes, RunnerEnds, Goto, AtWork, After
  <2>2. QED
    BY <1>4, <1>5, <1>6, <1>11, <2>1 DEF ExecuteFinishes, RunnerEnds, AtWork, Terminal
<1>12. CASE ParentFinishes(w)
  <2>1. ~AtWork(w)' /\ ~AtWork(w)
    BY <1>1, <1>12 DEF ParentFinishes, Goto, AtWork
  <2>2. QED
    BY <1>4, <1>7, <1>12, <2>1 DEF ParentFinishes, Terminal
<1>13. CASE FailureSignal(w)
  <2>1. ~AtWork(w)' /\ ~AtWork(w)
    BY <1>1, <1>13 DEF FailureSignal, Goto, AtWork
  <2>2. Kind(w) \in Addressed /\ status[msg[w].run] \notin Terminal =>
          msg[w].run \in Runs /\ Locked(msg[w].run)
    BY <1>13 DEF FailureSignal, IInv, CarriedExists, Exists, UnlockedIffOver, Locked
  <2>3. QED
    BY <1>4, <1>5, <1>13, <2>1, <2>2 DEF FailureSignal, Terminal
<1>14. CASE \/ \E m \in queue : Deliver(w, m)
            \/ SelectActive(w) \/ Reselect(w) \/ ExecuteNotifies(w) \/ NextChild(w)
  BY <1>5, <1>14 DEF Deliver, SelectActive, Reselect, ExecuteNotifies, NextChild
<1>15. CASE Raise(w) \/ Retry(w) \/ GiveUp(w) \/ Acknowledge(w) \/ ChildDies(w)
  BY <1>5, <1>15 DEF Raise, Retry, GiveUp, Acknowledge, ChildDies
<1>16. CASE ExecuteReads(w)
  <2>1. ~AtWork(w)' /\ ~AtWork(w)
    BY <1>1, <1>16 DEF ExecuteReads, Goto, AtWork, After
  <2>2. run[w] \in Runs
    BY <1>16 DEF ExecuteReads, IInv, CarriedExists, Exists
  <2>4. LockedOrComplete(run[w])
    BY <1>16 DEF ExecuteReads, IInv, LockCarried, WorkersLocked
  <2>3. QED
    BY <1>4, <1>5, <1>16, <2>1, <2>2, <2>4 DEF ExecuteReads, Terminal, LockedOrComplete
<1>17. QED
  BY <1>8, <1>9, <1>10, <1>11, <1>12, <1>13, <1>14, <1>15, <1>16 DEF WorkerSteps, TaskStep

LEMMA NextImplements ==
  ASSUME IInv, WorkGood, WorkGood', NoRedelivery, NoLateFailure, [Next]_vars
  PROVE  [Lock!Next]_(Lock!vars)
<1>1. CASE OtherSteps
  <2>1. \A w \in Workers : /\ AtWork(w)' <=> AtWork(w)
                           /\ AtWork(w) => run'[w] = run[w]
    BY <1>1 DEF OtherSteps, vars, CallerSelects, MovieRequested, BeatTicks, working, AtWork
  <2>2. UNCHANGED rows
    BY <1>1 DEF OtherSteps, vars, CallerSelects, MovieRequested, BeatTicks
  <2>3. QED
    BY <2>1, <2>2, Stutters DEF rows
<1>2. QED
  BY <1>1, StepCases, CallerImplements, WorkerImplements

(* research_runs is a lock for each key: under the two assumptions all that *)
(* the handlers, the workers and the failure signal do to its rows is a    *)
(* step of ResearchLock.                                                   *)
THEOREM RunsImplementLock ==
  ASSUME NoRedelivery, NoLateFailure
  PROVE  Safety => ImplementsLock
<1>1. Safety => []IInv
  BY Inductive
<1>2. Safety => []WorkGood
  BY <1>1, WorkIsGood, PTL
<1>3. IInv /\ WorkGood /\ WorkGood' /\ [Next]_vars => [Lock!Next]_(Lock!vars)
  BY NextImplements
<1>4. QED
  BY <1>1, <1>2, <1>3, InitImplements, PTL DEF Safety, ImplementsLock, Lock!Spec
=============================================================================
