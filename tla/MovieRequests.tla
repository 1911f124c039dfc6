----------------------------- MODULE MovieRequests -----------------------------
(***************************************************************************)
(* Movie requests and the mail about them: submission and the request part *)
(* of operations.py, the maintenance, completion and mail services of      *)
(* app/services/movie_requests.py, the administrator's request handlers,   *)
(* and what research and imports do to a request.  A mail takes its time:  *)
(* its status is read, it is delivered, and only then committed as SENT or *)
(* FAILED, with other processes at work in between.                        *)
(***************************************************************************)
EXTENDS Integers, Sequences, FiniteSets

CONSTANTS
  Processes,   \* web handlers and workers
  MaxRequests, \* requests are numbered by created_at
  Movies, About, From,   \* movie and requester of a request
  MaxFaults,   \* bound on processes lost and on failures that were none
  MaxActs      \* bound on the administrator's acts

Requests == 1 .. MaxRequests
Active == {"PENDING", "REVIEWING", "FOUND"}   \* ACTIVE_REQUEST_STATUSES
Statuses == {"NONE", "ADDED", "REJECTED"} \cup Active
MailKinds == {"confirmation", "completion", "rejection", "MATCHED"}

ASSUME RequestAssumption ==
  /\ MaxRequests \in Nat /\ MaxFaults \in Nat /\ MaxActs \in Nat
  /\ About \in [Requests -> Movies]
  /\ DOMAIN From = Requests

VARIABLES
  request,   \* status, and movie_existed_at_submission
  mail,      \* per request and kind: PENDING, SENT or FAILED
  catalogue, \* movies in the catalogue
  tasks,     \* research tasks on the queue
  process,   \* what a process has before it: jobs, and the mail it is at
  copies,    \* history: copies delivered
  unseen,    \* history: copies delivered by an attempt that was taken for failed
  suspect,   \* history: mails whose sender died or had company
  refused,   \* history: requests rejected with nobody at work on them
  faults, acts

requestVars == <<request, mail, catalogue, tasks, process, copies, unseen, suspect, refused, faults, acts>>

Mails == Requests \X MailKinds
Job == [do : {"complete", "mail"}, request : Requests, kind : MailKinds]
Free == [jobs |-> <<>>, at |-> "none"]

RequestTypeOK ==
  /\ request \in [Requests -> [status : Statuses, existed : BOOLEAN]]
  /\ mail \in [Mails -> {"PENDING", "SENT", "FAILED"}]
  /\ catalogue \subseteq Movies
  /\ tasks \subseteq Requests
  /\ \A p \in Processes :
       /\ process[p].at \in {"none", "deliver", "SENT", "FAILED"}
       /\ \A i \in DOMAIN process[p].jobs : process[p].jobs[i] \in Job
  /\ copies \in [Mails -> Nat] /\ unseen \in [Mails -> Nat]
  /\ suspect \subseteq Mails
  /\ refused \subseteq Requests
  /\ faults \in 0 .. MaxFaults /\ acts \in 0 .. MaxActs

RequestInit ==
  /\ request = [r \in Requests |-> [status |-> "NONE", existed |-> FALSE]]
  /\ mail = [m \in Mails |-> "PENDING"]
  /\ catalogue = {}
  /\ tasks = {}
  /\ process = [p \in Processes |-> Free]
  /\ copies = [m \in Mails |-> 0] /\ unseen = [m \in Mails |-> 0]
  /\ suspect = {} /\ refused = {} /\ faults = 0 /\ acts = 0

Letter(r, k) == [do |-> "mail", request |-> r, kind |-> k]
Completion(r) == [do |-> "complete", request |-> r, kind |-> "completion"]

IsFree(p) == process[p] = Free
Give(p, jobs) == process' = [process EXCEPT ![p] = [jobs |-> jobs, at |-> "none"]]
AtWorkOn(r) == \E p \in Processes : \E i \in DOMAIN process[p].jobs : process[p].jobs[i].request = r
IsActive(r) == request[r].status \in Active

(* The unique index over requester and movie of the active requests.       *)
Unique(r) == \A q \in Requests \ {r} : ~(IsActive(q) /\ About[q] = About[r] /\ From[q] = From[r])

(* The requests of S by created_at: of these lists there is one.           *)
InOrder(S) == {s \in [1 .. Cardinality(S) -> S] : \A i, j \in DOMAIN s : i < j => s[i] < s[j]}
GiveCompletions(p, S) == \E s \in InOrder(S) : Give(p, [i \in DOMAIN s |-> Completion(s[i])])

-----------------------------------------------------------------------------
(* request_movie: the saved request is not undone by what follows it.      *)
Submit(p, r) ==
  /\ IsFree(p) /\ request[r].status = "NONE"
  /\ \A q \in Requests : q < r => request[q].status # "NONE"
  /\ Unique(r)
  /\ request' = [request EXCEPT ![r].status = "PENDING", ![r].existed = About[r] \in catalogue]
  /\ tasks' = tasks \cup {r}
  /\ Give(p, <<Letter(r, "confirmation")>>)
  /\ UNCHANGED <<mail, catalogue, copies, unseen, suspect, refused, faults, acts>>

(* research.movie_request: prepare_request imports the movie, links it and *)
(* tells the requester.                                                    *)
Prepare(p, r) ==
  /\ IsFree(p) /\ r \in tasks
  /\ tasks' = tasks \ {r}
  /\ catalogue' = catalogue \cup {About[r]}
  /\ IF request[r].status = "PENDING"
       THEN /\ request' = [request EXCEPT ![r].status = "REVIEWING"]
            /\ Give(p, <<Letter(r, "MATCHED")>>)
       ELSE UNCHANGED <<request, process>>
  /\ UNCHANGED <<mail, copies, unseen, suspect, refused, faults, acts>>

(* The requests an imported movie completes; the variant takes every       *)
(* request that is not done.                                               *)
WaitingUndone(m) ==
  {r \in Requests : request[r].status \notin {"NONE", "ADDED"} /\ ~request[r].existed /\ About[r] = m}
Waiting(m) == {r \in Requests : IsActive(r) /\ ~request[r].existed /\ About[r] = m}

(* reconcile: the rows are read at once and completed one by one.          *)
Maintain(p) ==
  LET rows == UNION {Waiting(m) : m \in catalogue} IN
  /\ IsFree(p) /\ rows # {}
  /\ GiveCompletions(p, rows)
  /\ UNCHANGED <<request, mail, catalogue, tasks, copies, unseen, suspect, refused, faults, acts>>

(* import_deep_search_movie, with reconcile_for_movie.                     *)
Import(p, m) ==
  /\ IsFree(p)
  /\ m \notin catalogue \/ Waiting(m) # {}
  /\ catalogue' = catalogue \cup {m}
  /\ GiveCompletions(p, Waiting(m))
  /\ UNCHANGED <<request, mail, tasks, copies, unseen, suspect, refused, faults, acts>>

Job1(p) == process[p].jobs[1]
AtJob(p, do) == process[p].at = "none" /\ process[p].jobs # <<>> /\ Job1(p).do = do
NextJob(p) == Give(p, Tail(process[p].jobs))

(* _complete: ADDED is committed before the mail.  The row is not asked    *)
(* for its status again.                                                   *)
Complete(p) ==
  LET r == Job1(p).request IN
  /\ AtJob(p, "complete")
  /\ request' = [request EXCEPT ![r].status = "ADDED"]
  /\ Give(p, <<Letter(r, "completion")>> \o Tail(process[p].jobs))
  /\ UNCHANGED <<mail, catalogue, tasks, copies, unseen, suspect, refused, faults, acts>>

Mail(p) == <<Job1(p).request, Job1(p).kind>>

(* What send asks before it delivers; the variant does not look for an     *)
(* earlier success.                                                        *)
DueAgain(p) ==
  LET r == Job1(p).request IN
  /\ Job1(p).kind = "completion" => request[r].status = "ADDED"
  /\ Job1(p).kind = "rejection" => request[r].status = "REJECTED"
Due(p) ==
  LET r == Job1(p).request IN
  /\ Job1(p).kind = "completion" => request[r].status = "ADDED"
  /\ Job1(p).kind = "rejection" => request[r].status = "REJECTED"
  /\ mail[Mail(p)] # "SENT"

SendingToo(p) == \E q \in Processes \ {p} : process[q].at # "none" /\ Mail(q) = Mail(p)

(* send: skipped, or within the cool-down after a failed attempt.          *)
Skip(p) ==
  /\ AtJob(p, "mail")
  /\ ~Due(p) \/ mail[Mail(p)] = "FAILED"
  /\ NextJob(p)
  /\ UNCHANGED <<request, mail, catalogue, tasks, copies, unseen, suspect, refused, faults, acts>>

Address(p) ==
  /\ AtJob(p, "mail") /\ Due(p)
  /\ process' = [process EXCEPT ![p].at = "deliver"]
  /\ suspect' = IF SendingToo(p) THEN suspect \cup {Mail(p)} ELSE suspect
  /\ UNCHANGED <<request, mail, catalogue, tasks, copies, unseen, refused, faults, acts>>

(* Any exception is a failure, also one that comes after the server has    *)
(* taken the message: a reply that times out, or the goodbye.              *)
Deliver(p, outcome) ==
  /\ process[p].at = "deliver"
  /\ process' = [process EXCEPT ![p].at = outcome]
  /\ copies' = [copies EXCEPT ![Mail(p)] = IF outcome = "SENT" THEN @ + 1 ELSE @]
  /\ UNCHANGED <<request, mail, catalogue, tasks, unseen, suspect, refused, faults, acts>>

DeliverUnseen(p) ==
  /\ process[p].at = "deliver" /\ faults < MaxFaults
  /\ faults' = faults + 1
  /\ process' = [process EXCEPT ![p].at = "FAILED"]
  /\ copies' = [copies EXCEPT ![Mail(p)] = @ + 1]
  /\ unseen' = [unseen EXCEPT ![Mail(p)] = @ + 1]
  /\ UNCHANGED <<request, mail, catalogue, tasks, suspect, refused, acts>>

Report(p) ==
  /\ process[p].at \in {"SENT", "FAILED"}
  /\ mail' = [mail EXCEPT ![Mail(p)] = process[p].at]
  /\ NextJob(p)
  /\ UNCHANGED <<request, catalogue, tasks, copies, unseen, suspect, refused, faults, acts>>

ProcessDies(p) ==
  /\ ~IsFree(p) /\ faults < MaxFaults
  /\ faults' = faults + 1
  /\ Give(p, <<>>)
  /\ suspect' = IF process[p].at # "none" THEN suspect \cup {Mail(p)} ELSE suspect
  /\ UNCHANGED <<request, mail, catalogue, tasks, copies, unseen, refused, acts>>

-----------------------------------------------------------------------------
(* The administrator: update_request, retry_request_email and              *)
(* retry_failed_email.                                                     *)
Acts == acts < MaxActs /\ acts' = acts + 1

SetStatus(p, r, status) ==
  /\ IsFree(p) /\ Acts
  /\ request[r].status # "NONE"
  /\ status \in Active => Unique(r)
  /\ request' = [request EXCEPT ![r].status = status]
  /\ Give(p, IF status = "REJECTED" THEN <<Letter(r, "rejection")>> ELSE <<>>)
  /\ refused' = IF status = "REJECTED" /\ ~AtWorkOn(r) THEN refused \cup {r} ELSE refused \ {r}
  /\ UNCHANGED <<mail, catalogue, tasks, copies, unseen, suspect, faults>>

SetAdded(p, r) ==
  /\ IsFree(p) /\ Acts
  /\ request[r].status # "NONE" /\ About[r] \in catalogue
  /\ Give(p, <<Completion(r)>>)
  /\ refused' = refused \ {r}
  /\ UNCHANGED <<request, mail, catalogue, tasks, copies, unseen, suspect, faults>>

RetryMail(p, r, kind) ==
  /\ IsFree(p) /\ Acts
  /\ request[r].status # "NONE"
  /\ kind = "completion" => request[r].status = "ADDED"
  /\ kind = "rejection" => request[r].status = "REJECTED"
  /\ Give(p, <<Letter(r, kind)>>)
  /\ UNCHANGED <<request, mail, catalogue, tasks, copies, unseen, suspect, refused, faults>>

(* EMAIL_KINDS, without the administrator's own: MATCHED is no column of   *)
(* the row.  The failed ones are sent again row by row.                    *)
EmailKinds == [confirmation |-> 1, completion |-> 2, rejection |-> 3]
Failed == {m \in Mails : m[2] \in DOMAIN EmailKinds /\ mail[m] = "FAILED"}
RowByRow(m, n) == m[1] < n[1] \/ (m[1] = n[1] /\ EmailKinds[m[2]] < EmailKinds[n[2]])

RetryFailed(p) ==
  /\ IsFree(p) /\ Acts /\ Failed # {}
  /\ \E s \in [1 .. Cardinality(Failed) -> Failed] :
       /\ \A i, j \in DOMAIN s : i < j => RowByRow(s[i], s[j])
       /\ Give(p, [i \in DOMAIN s |-> Letter(s[i][1], s[i][2])])
  /\ UNCHANGED <<request, mail, catalogue, tasks, copies, unseen, suspect, refused, faults>>

RequestNext ==
  \/ \E p \in Processes :
       \/ \E r \in Requests :
            \/ Submit(p, r) \/ Prepare(p, r) \/ SetAdded(p, r)
            \/ \E s \in {"REVIEWING", "REJECTED"} : SetStatus(p, r, s)
            \/ \E k \in MailKinds : RetryMail(p, r, k)
       \/ \E m \in Movies : Import(p, m)
       \/ Maintain(p) \/ Complete(p) \/ Skip(p) \/ Address(p)
       \/ \E o \in {"SENT", "FAILED"} : Deliver(p, o)
       \/ DeliverUnseen(p)
       \/ Report(p) \/ ProcessDies(p) \/ RetryFailed(p)

RequestSpec == RequestInit /\ [][RequestNext]_requestVars

-----------------------------------------------------------------------------
(* A mail goes out once, and once more for every attempt that was taken    *)
(* for failed after the server had the message; it is SENT exactly when an *)
(* attempt went out and was seen to.  Excepted is a mail whose sender died *)
(* at it or that two senders were at together.                             *)
MailOnce ==
  \A m \in Mails \ suspect :
    /\ copies[m] <= 1 + unseen[m]
    /\ copies[m] = 1 + unseen[m] <=>
         \/ mail[m] = "SENT"
         \/ \E p \in Processes : process[p].at = "SENT" /\ Mail(p) = m

(* No automation completes a request that was rejected while nobody worked *)
(* on it: only a pass that had read it before does.                        *)
RejectionRespected == \A r \in refused : request[r].status = "REJECTED"
=============================================================================
