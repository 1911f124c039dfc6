-------------------------------- MODULE Notices --------------------------------
(***************************************************************************)
(* Administrator notices: NotificationService.notify with its fingerprint  *)
(* cool-down (app/services/notification_service.py), its caller check_sla  *)
(* (app/services/movie_requests.py).  notify looks for an earlier success, *)
(* delivers to the channels and then commits what it delivered.            *)
(***************************************************************************)
EXTENDS Integers, FiniteSets

CONSTANTS
  Workers, Channels,
  MaxOpen,      \* requests are numbered by created_at, all of them open
  SlaBatch,     \* batch_size of check_sla
  MaxLostWorkers  \* bound on the workers that die

ASSUME NoticeAssumption ==
  /\ IsFiniteSet(Workers)
  /\ MaxOpen \in Nat /\ SlaBatch \in Nat \ {0} /\ MaxLostWorkers \in Nat

VARIABLES
  open,     \* requests with an active status
  age,      \* hours since created_at: 0, 36 or 48
  marked,   \* per notice: sla_36_notified_at or sla_48_notified_at is set
  logged,   \* per notice: a notification_logs row with last_notified_at
  worker,   \* what a worker is at
  sent,     \* history: deliveries of a notice that reached some channel
  doubtful,  \* history: notices with two senders or a dead one
  lostWorkers

noticeVars == <<open, age, marked, logged, worker, sent, doubtful, lostWorkers>>

Asked == 1 .. MaxOpen
Levels == {36, 48}
SlaNotices == Asked \X Levels
OffDuty == [at |-> "rest", notice |-> <<0, 0>>, took |-> FALSE]

NoticeTypeOK ==
  /\ open \subseteq Asked
  /\ age \in [Asked -> {0} \cup Levels]
  /\ marked \subseteq SlaNotices
  /\ logged \subseteq SlaNotices
  /\ worker \in [Workers -> [at : {"rest", "deliver", "log", "mark"}, notice : SlaNotices \cup {<<0, 0>>}, took : BOOLEAN]]
  /\ sent \in [SlaNotices -> 0 .. Cardinality(Workers) + MaxLostWorkers]
  /\ doubtful \subseteq SlaNotices
  /\ lostWorkers \in 0 .. MaxLostWorkers

NoticeInit ==
  /\ open = Asked
  /\ age = [r \in Asked |-> 0]
  /\ marked = {} /\ logged = {}
  /\ worker = [w \in Workers |-> OffDuty]
  /\ sent = [n \in SlaNotices |-> 0]
  /\ doubtful = {} /\ lostWorkers = 0

At(w, place) == worker[w].at = place
Company(w, n) == \E v \in Workers \ {w} : ~At(v, "rest") /\ worker[v].notice = n

(* The oldest requests past 36 hours, as many as the batch holds.          *)
Overdue == {r \in open : age[r] >= 36}
Batch == {r \in Overdue : Cardinality({q \in Overdue : q < r}) < SlaBatch}

(* notify up to the channels: a success within the cool-down ends it; the  *)
(* variant has no cool-down.                                               *)
NeverCools(n) == FALSE
Cools(n) == n \in logged
Notify(w, n) ==
  /\ At(w, "rest")
  /\ worker' = [worker EXCEPT ![w] = [at |-> IF Cools(n) THEN "mark" ELSE "deliver",
                                      notice |-> n, took |-> FALSE]]
  /\ doubtful' = IF ~Cools(n) /\ Company(w, n) THEN doubtful \cup {n} ELSE doubtful

CheckSla(w, r, level) ==
  /\ r \in Batch /\ age[r] >= level
  /\ <<r, level>> \notin marked
  /\ level = 48 => <<r, 36>> \in marked
  /\ Notify(w, <<r, level>>)
  /\ UNCHANGED <<open, age, marked, logged, sent, lostWorkers>>

(* Each configured channel is tried; took is that one of them accepted.  A *)
(* channel that raises may have delivered all the same, unseen.            *)
Send(w) ==
  /\ At(w, "deliver")
  /\ \E took, unseen \in SUBSET Channels :
       /\ worker' = [worker EXCEPT ![w].at = "log", ![w].took = took # {}]
       /\ sent' = [sent EXCEPT ![worker[w].notice] = IF took \cup unseen = {} THEN @ ELSE @ + 1]
  /\ UNCHANGED <<open, age, marked, logged, doubtful, lostWorkers>>

Log(w) ==
  /\ At(w, "log")
  /\ worker' = [worker EXCEPT ![w].at = "mark"]
  /\ logged' = IF worker[w].took THEN logged \cup {worker[w].notice} ELSE logged
  /\ UNCHANGED <<open, age, marked, sent, doubtful, lostWorkers>>

(* The request is marked whether or not a channel took the notice; the     *)
(* variant marks a success only.                                           *)
Successes(w) == IF worker[w].took THEN {worker[w].notice} ELSE {}
Attempts(w) == {worker[w].notice}
Mark(w) ==
  /\ At(w, "mark")
  /\ marked' = marked \cup Attempts(w)
  /\ worker' = [worker EXCEPT ![w] = OffDuty]
  /\ UNCHANGED <<open, age, logged, sent, doubtful, lostWorkers>>

OnRecord(n) == n \in logged \/ sent[n] = 0
WorkerDies(w) ==
  /\ ~At(w, "rest") /\ lostWorkers < MaxLostWorkers
  /\ lostWorkers' = lostWorkers + 1
  /\ worker' = [worker EXCEPT ![w] = OffDuty]
  /\ doubtful' = IF OnRecord(worker[w].notice) THEN doubtful ELSE doubtful \cup {worker[w].notice}
  /\ UNCHANGED <<open, age, marked, logged, sent>>

(* The request is answered; time passes, oldest first.  The ten years of   *)
(* the cool-down and the ninety days of the cleanup are not reached here.  *)
Close(r) ==
  /\ r \in open
  /\ open' = open \ {r}
  /\ UNCHANGED <<age, marked, logged, worker, sent, doubtful, lostWorkers>>

Older(r) ==
  /\ age[r] < 48
  /\ \A q \in Asked : q < r => age[q] > age[r]
  /\ age' = [age EXCEPT ![r] = IF @ = 0 THEN 36 ELSE 48]
  /\ UNCHANGED <<open, marked, logged, worker, sent, doubtful, lostWorkers>>

WorkerStep(w) == Send(w) \/ Log(w) \/ Mark(w)

NoticeNext ==
  \/ \E w \in Workers :
       \/ \E r \in Asked, level \in Levels : CheckSla(w, r, level)
       \/ WorkerStep(w) \/ WorkerDies(w)
  \/ \E r \in Asked : Close(r) \/ Older(r)

(* operations.movie_requests runs every half hour, and a worker that lives *)
(* finishes what it is at.                                                 *)
NoticeFairness ==
  /\ \A w \in Workers : WF_noticeVars(WorkerStep(w))
  /\ WF_noticeVars(\E w \in Workers, r \in Asked, level \in Levels : CheckSla(w, r, level))

NoticeSpec == NoticeInit /\ [][NoticeNext]_noticeVars /\ NoticeFairness

-----------------------------------------------------------------------------
(* A notice is delivered once, also when a channel takes it and reports a  *)
(* failure, unless two workers were at it together, or one died with the   *)
(* delivery not in the log.                                                *)
NoticeOnce == \A n \in SlaNotices \ doubtful : sent[n] <= 1

(* A request that stays open for two days is escalated if it is among the  *)
(* oldest of the batch.                                                    *)
Escalated ==
  \A r \in Asked :
    (r \in Batch /\ age[r] = 48) ~> (<<r, 48>> \in marked \/ r \notin Batch)
=============================================================================
