---------------------------- MODULE ImportProofs ----------------------------
(*****************************************************************************)
(* Theorems about how films come into the catalogue: asked for              *)
(* (MovieRequests, for any number of processes and requests), discovered    *)
(* (Discovery, for any runs, languages and titles), imported and enriched   *)
(* (Catalogue, for any pages, importers and enrichers). A mail goes out     *)
(* once, a rejection and a dismissal stand, a film is imported once, a      *)
(* checkpoint trails the work and a credit is stored once.                  *)
(*****************************************************************************)
EXTENDS MovieRequests, Discovery, Catalogue, FiniteSetTheorems, SequenceTheorems, TLAPS

-----------------------------------------------------------------------------
(* Movie requests.  A process at a mail has it first on its list.          *)
Stages == {"none", "deliver", "SENT", "FAILED"}

ProcessTyped ==
  /\ process \in [Processes -> [jobs : Seq(Job), at : Stages]]
  /\ \A p \in Processes : process[p].at # "none" => process[p].jobs # <<>> /\ Job1(p).do = "mail"

RequestTyped ==
  /\ request \in [Requests -> [status : Statuses, existed : BOOLEAN]]
  /\ mail \in [Mails -> {"PENDING", "SENT", "FAILED"}]
  /\ catalogue \subseteq Movies /\ tasks \subseteq Requests
  /\ ProcessTyped
  /\ copies \in [Mails -> Nat] /\ unseen \in [Mails -> Nat]
  /\ suspect \subseteq Mails /\ refused \subseteq Requests
  /\ faults \in 0 .. MaxFaults /\ acts \in 0 .. MaxActs

(* A mail that is not suspect has at most one sender; while it has one it  *)
(* is not SENT and has gone out when that sender delivered it; without one *)
(* it has gone out when it is SENT; the attempts taken for failed after    *)
(* the server had the message come on top.                                 *)
Sends(p, m) == process[p].at # "none" /\ Mail(p) = m

MailAccounted(m) ==
  /\ \A p, q \in Processes : Sends(p, m) /\ Sends(q, m) => p = q
  /\ \A p \in Processes : Sends(p, m) =>
       /\ mail[m] # "SENT"
       /\ copies[m] = IF process[p].at = "SENT" THEN 1 + unseen[m] ELSE unseen[m]
  /\ (\A p \in Processes : ~Sends(p, m)) =>
       copies[m] = IF mail[m] = "SENT" THEN 1 + unseen[m] ELSE unseen[m]

(* Nobody is about to complete a refused request.                          *)
Completes(p, r) ==
  \E i \in DOMAIN process[p].jobs : process[p].jobs[i].do = "complete" /\ process[p].jobs[i].request = r
StaysRejected(r) == request[r].status = "REJECTED" /\ \A p \in Processes : ~Completes(p, r)

RequestInv ==
  /\ RequestTyped
  /\ \A m \in Mails \ suspect : MailAccounted(m)
  /\ \A r \in refused : StaysRejected(r)

-----------------------------------------------------------------------------
(* Lists of jobs.                                                          *)
LEMMA JobTyped ==
  ASSUME NEW r \in Requests, NEW k \in MailKinds
  PROVE  Letter(r, k) \in Job /\ Completion(r) \in Job /\ <<r, k>> \in Mails
BY DEF Letter, Completion, Job, MailKinds, Mails

LEMMA OneJob ==
  ASSUME NEW j \in Job
  PROVE  /\ <<j>> \in Seq(Job) /\ DOMAIN <<j>> = {1} /\ <<j>>[1] = j
OBVIOUS

LEMMA OneLetter ==
  ASSUME NEW r \in Requests, NEW k \in MailKinds
  PROVE  /\ <<Letter(r, k)>> \in Seq(Job)
         /\ \A i \in DOMAIN <<Letter(r, k)>> : <<Letter(r, k)>>[i].do # "complete"
<1>1. Letter(r, k) \in Job /\ Letter(r, k).do # "complete"
  BY JobTyped DEF Letter
<1> HIDE DEF Letter
<1> QED
  BY <1>1, OneJob

LEMMA NoJob == <<>> \in Seq(Job) /\ DOMAIN <<>> = {}
OBVIOUS

LEMMA RequestsFinite ==
  /\ \A S \in SUBSET Requests : Cardinality(S) \in Nat
  /\ Cardinality(Failed) \in Nat
<1>1. IsFiniteSet(Requests)
  BY RequestAssumption, FS_Interval DEF Requests
<1>2. IsFiniteSet(MailKinds)
  <2>1. MailKinds = {} \cup {"confirmation"} \cup {"completion"} \cup {"rejection"} \cup {"MATCHED"}
    BY DEF MailKinds
  <2> QED
    BY <2>1, FS_EmptySet, FS_AddElement
<1>3. IsFiniteSet(Mails)
  BY <1>1, <1>2, FS_Product DEF Mails
<1>4. Failed \in SUBSET Mails
  BY DEF Failed
<1> QED
  BY <1>1, <1>3, <1>4, FS_Subset, FS_CardinalityType

(* The completions of a set of requests are jobs about them.               *)
LEMMA CompletionsTyped ==
  ASSUME NEW S \in SUBSET Requests, NEW s \in InOrder(S)
  PROVE  LET jobs == [i \in DOMAIN s |-> Completion(s[i])]
         IN  jobs \in Seq(Job) /\ \A i \in DOMAIN jobs : jobs[i].request \in S
<1>1. Cardinality(S) \in Nat /\ s \in [1 .. Cardinality(S) -> S]
  BY RequestsFinite DEF InOrder
<1>2. \A i \in 1 .. Cardinality(S) : Completion(s[i]) \in Job /\ Completion(s[i]).request \in S
  BY <1>1, JobTyped DEF Completion, MailKinds
<1>3. [i \in DOMAIN s |-> Completion(s[i])] \in [1 .. Cardinality(S) -> Job]
  BY <1>1, <1>2
<1> QED
  BY <1>1, <1>2, <1>3, SeqDef

-----------------------------------------------------------------------------
(* The mail of a process that is at none is in no danger from a new list.  *)
LEMMA GivenJobs ==
  ASSUME RequestInv, NEW p \in Processes, process[p].at = "none",
         NEW jobs \in Seq(Job), Give(p, jobs), UNCHANGED <<mail, copies, unseen, suspect>>
  PROVE  /\ ProcessTyped'
         /\ process'[p].jobs = jobs
         /\ \A q \in Processes \ {p} : process'[q] = process[q]
         /\ \A m \in Mails \ suspect' : MailAccounted(m)'
<1>1. /\ process' \in [Processes -> [jobs : Seq(Job), at : Stages]]
      /\ process'[p] = [jobs |-> jobs, at |-> "none"]
      /\ \A q \in Processes \ {p} : process'[q] = process[q]
  BY DEF Give, RequestInv, RequestTyped, ProcessTyped, Stages
<1>2. ProcessTyped'
  <2>1. ASSUME NEW q \in Processes, process'[q].at # "none"
        PROVE  process'[q].jobs # <<>> /\ Job1(q)'.do = "mail"
    <3>1. q # p /\ process'[q] = process[q]
      BY <1>1, <2>1
    <3> QED
      BY <2>1, <3>1 DEF RequestInv, RequestTyped, ProcessTyped, Job1
  <2> QED
    BY <1>1, <2>1 DEF ProcessTyped
<1>3. \A q \in Processes, m \in Mails : Sends(q, m)' <=> Sends(q, m)
  BY <1>1 DEF Sends, Mail, Job1
<1>4. \A q \in Processes : process'[q].at = process[q].at
  BY <1>1
<1>5. ASSUME NEW m \in Mails \ suspect' PROVE MailAccounted(m)'
  <2>1. MailAccounted(m) /\ m \in Mails
    BY DEF RequestInv
  <2> QED
    BY <1>3, <1>4, <2>1 DEF MailAccounted
<1> QED
  BY <1>1, <1>2, <1>5

(* A step that gives p jobs which complete no refused request.             *)
LEMMA GivenHarmless ==
  ASSUME RequestInv, NEW p \in Processes, process[p].at = "none",
         NEW jobs \in Seq(Job), Give(p, jobs), UNCHANGED <<mail, copies, unseen, suspect>>,
         \A i \in DOMAIN jobs : jobs[i].do = "complete" => jobs[i].request \notin refused',
         refused' \subseteq refused,
         \A r \in refused' : request'[r].status = "REJECTED"
  PROVE  /\ ProcessTyped'
         /\ \A m \in Mails \ suspect' : MailAccounted(m)'
         /\ \A r \in refused' : StaysRejected(r)'
<1>1. /\ process'[p].jobs = jobs
      /\ \A q \in Processes \ {p} : process'[q] = process[q]
  BY GivenJobs
<1>2. ASSUME NEW r \in refused' PROVE StaysRejected(r)'
  <2>1. StaysRejected(r)
    BY DEF RequestInv
  <2>2. \A q \in Processes : ~Completes(q, r)'
    BY <1>1, <2>1 DEF StaysRejected, Completes
  <2> QED
    BY <2>2 DEF StaysRejected
<1> QED
  BY <1>2, GivenJobs

LEMMA RequestInvInit == RequestInit => RequestInv
<1> SUFFICES ASSUME RequestInit PROVE RequestInv
  OBVIOUS
<1>1. Free \in [jobs : Seq(Job), at : Stages] /\ Free.at = "none" /\ DOMAIN Free.jobs = {}
  BY NoJob DEF Free, Stages
<1>2. RequestTyped
  BY <1>1, RequestAssumption DEF RequestInit, RequestTyped, ProcessTyped, Statuses
<1>3. \A m \in Mails : MailAccounted(m)
  BY <1>1 DEF RequestInit, MailAccounted, Sends
<1> QED
  BY <1>2, <1>3 DEF RequestInit, RequestInv

LEMMA FreeHasNoMail == ASSUME NEW p \in Processes, IsFree(p) PROVE process[p].at = "none"
BY DEF IsFree, Free

(* A new request is no refused one.                                        *)
LEMMA SubmitStep ==
  ASSUME RequestInv, NEW p \in Processes, NEW r \in Requests, Submit(p, r) PROVE RequestInv'
<1> DEFINE jobs == <<Letter(r, "confirmation")>>
<1>1. jobs \in Seq(Job) /\ \A i \in DOMAIN jobs : jobs[i].do # "complete"
  BY OneLetter DEF MailKinds
<1>2. Give(p, jobs) /\ IsFree(p) /\ request[r].status = "NONE"
      /\ request' = [request EXCEPT ![r].status = "PENDING", ![r].existed = About[r] \in catalogue]
      /\ tasks' = tasks \cup {r}
      /\ UNCHANGED <<mail, catalogue, copies, unseen, suspect, refused, faults, acts>>
  BY DEF Submit
<1> HIDE DEF jobs
<1>3. request' \in [Requests -> [status : Statuses, existed : BOOLEAN]]
  <2> DEFINE there == About[r] \in catalogue
  <2>1. there \in BOOLEAN /\ request' = [request EXCEPT ![r].status = "PENDING", ![r].existed = there]
    BY <1>2
  <2> HIDE DEF there
  <2>2. "PENDING" \in Statuses
    BY DEF Statuses, Active
  <2> QED
    BY <2>1, <2>2 DEF RequestInv, RequestTyped
<1>4. \A q \in refused' : request'[q].status = "REJECTED"
  BY <1>2 DEF RequestInv, RequestTyped, StaysRejected
<1>5. /\ ProcessTyped'
      /\ \A m \in Mails \ suspect' : MailAccounted(m)'
      /\ \A q \in refused' : StaysRejected(q)'
  BY <1>1, <1>2, <1>4, FreeHasNoMail, GivenHarmless
<1>6. RequestTyped'
  BY <1>2, <1>3, <1>5 DEF RequestInv, RequestTyped
<1> QED
  BY <1>5, <1>6 DEF RequestInv

(* prepare_request moves a pending request on, and no other.               *)
LEMMA PrepareStep ==
  ASSUME RequestInv, NEW p \in Processes, NEW r \in Requests, Prepare(p, r) PROVE RequestInv'
<1>1. /\ catalogue' = catalogue \cup {About[r]} /\ tasks' = tasks \ {r} /\ IsFree(p)
      /\ UNCHANGED <<mail, copies, unseen, suspect, refused, faults, acts>>
  BY DEF Prepare
<1>2. catalogue' \subseteq Movies
  BY <1>1, RequestAssumption DEF RequestInv, RequestTyped
<1>3. CASE request[r].status = "PENDING"
  <2> DEFINE jobs == <<Letter(r, "MATCHED")>>
  <2>1. jobs \in Seq(Job) /\ \A i \in DOMAIN jobs : jobs[i].do # "complete"
    BY OneLetter DEF MailKinds
  <2>2. Give(p, jobs) /\ request' = [request EXCEPT ![r].status = "REVIEWING"]
    BY <1>3 DEF Prepare
  <2> HIDE DEF jobs
  <2>3. request' \in [Requests -> [status : Statuses, existed : BOOLEAN]]
    BY <2>2 DEF RequestInv, RequestTyped, Statuses, Active
  <2>4. \A q \in refused' : request'[q].status = "REJECTED"
    BY <1>1, <1>3, <2>2 DEF RequestInv, RequestTyped, StaysRejected
  <2>5. /\ ProcessTyped'
        /\ \A m \in Mails \ suspect' : MailAccounted(m)'
        /\ \A q \in refused' : StaysRejected(q)'
    BY <1>1, <2>1, <2>2, <2>4, FreeHasNoMail, GivenHarmless
  <2>6. RequestTyped'
    BY <1>1, <1>2, <2>3, <2>5 DEF RequestInv, RequestTyped
  <2> QED
    BY <2>5, <2>6 DEF RequestInv
<1>4. CASE request[r].status # "PENDING"
  <2>1. UNCHANGED <<request, process>>
    BY <1>4 DEF Prepare
  <2>2. RequestTyped'
    BY <1>1, <1>2, <2>1 DEF RequestInv, RequestTyped, ProcessTyped, Job1
  <2> QED
    BY <1>1, <2>1, <2>2 DEF RequestInv, MailAccounted, Sends, Mail, Job1, StaysRejected, Completes
<1> QED
  BY <1>3, <1>4

(* What an import or the maintenance completes is active when it is read,  *)
(* and so not refused.                                                     *)
LEMMA GivenCompletions ==
  ASSUME RequestInv, NEW p \in Processes, IsFree(p), NEW S \in SUBSET Requests,
         \A r \in S : IsActive(r), GiveCompletions(p, S),
         UNCHANGED <<request, mail, tasks, copies, unseen, suspect, refused, faults, acts>>,
         catalogue' \subseteq Movies
  PROVE  RequestInv'
<1>1. PICK s \in InOrder(S) : Give(p, [i \in DOMAIN s |-> Completion(s[i])])
  BY DEF GiveCompletions
<1> DEFINE jobs == [i \in DOMAIN s |-> Completion(s[i])]
<1>2. jobs \in Seq(Job) /\ \A i \in DOMAIN jobs : jobs[i].request \in S
  BY CompletionsTyped
<1>3. \A r \in S : r \notin refused
  BY DEF RequestInv, StaysRejected, IsActive, Active
<1>4. \A r \in refused' : request'[r].status = "REJECTED"
  BY DEF RequestInv, StaysRejected
<1>5. /\ ProcessTyped'
      /\ \A m \in Mails \ suspect' : MailAccounted(m)'
      /\ \A q \in refused' : StaysRejected(q)'
  <2> HIDE DEF jobs
  <2> QED
    BY <1>1, <1>2, <1>3, <1>4, FreeHasNoMail, GivenHarmless DEF jobs
<1>6. RequestTyped'
  BY <1>5 DEF RequestInv, RequestTyped
<1> QED
  BY <1>5, <1>6 DEF RequestInv

LEMMA MaintainStep == ASSUME RequestInv, NEW p \in Processes, Maintain(p) PROVE RequestInv'
<1> DEFINE waiters == UNION {Waiting(m) : m \in catalogue}
<1>1. waiters \in SUBSET Requests /\ \A r \in waiters : IsActive(r)
  BY DEF Waiting
<1>2. /\ IsFree(p) /\ GiveCompletions(p, waiters)
      /\ UNCHANGED <<request, mail, catalogue, tasks, copies, unseen, suspect, refused, faults, acts>>
  BY DEF Maintain
<1>3. catalogue' \subseteq Movies
  BY <1>2 DEF RequestInv, RequestTyped
<1> HIDE DEF waiters
<1> QED
  BY <1>1, <1>2, <1>3, GivenCompletions

LEMMA ImportStep ==
  ASSUME RequestInv, NEW p \in Processes, NEW m \in Movies, Import(p, m) PROVE RequestInv'
<1>1. Waiting(m) \in SUBSET Requests /\ \A r \in Waiting(m) : IsActive(r)
  BY DEF Waiting
<1>2. /\ IsFree(p) /\ GiveCompletions(p, Waiting(m)) /\ catalogue' = catalogue \cup {m}
      /\ UNCHANGED <<request, mail, tasks, copies, unseen, suspect, refused, faults, acts>>
  BY DEF Import
<1>3. catalogue' \subseteq Movies
  BY <1>2 DEF RequestInv, RequestTyped
<1> QED
  BY <1>1, <1>2, <1>3, GivenCompletions

-----------------------------------------------------------------------------
LEMMA FirstJob ==
  ASSUME RequestInv, NEW p \in Processes, process[p].jobs # <<>>
  PROVE  LET rest == Tail(process[p].jobs)
         IN  /\ process[p].jobs \in Seq(Job) /\ 1 \in DOMAIN process[p].jobs
             /\ Job1(p) \in Job /\ Mail(p) \in Mails
             /\ rest \in Seq(Job)
             /\ \A i \in DOMAIN rest : i + 1 \in DOMAIN process[p].jobs /\ rest[i] = process[p].jobs[i + 1]
<1> DEFINE jobs == process[p].jobs
<1>1. jobs \in Seq(Job)
  BY DEF RequestInv, RequestTyped, ProcessTyped
<1>2. /\ Len(jobs) \in Nat /\ DOMAIN jobs = 1 .. Len(jobs) /\ Len(jobs) # 0
  BY <1>1, LenProperties, EmptySeq
<1>3. /\ Tail(jobs) \in Seq(Job) /\ Len(Tail(jobs)) = Len(jobs) - 1
      /\ \A i \in 1 .. Len(Tail(jobs)) : Tail(jobs)[i] = jobs[i + 1]
  BY <1>1, HeadTailProperties
<1>4. DOMAIN Tail(jobs) = 1 .. Len(Tail(jobs))
  BY <1>3, LenProperties
<1>5. jobs[1] \in Job
  BY <1>1, <1>2, ElementOfSeq
<1>6. Job1(p) \in Job /\ Mail(p) \in Mails
  BY <1>5 DEF Job1, Mail, Mails, Job
<1> QED
  BY <1>1, <1>2, <1>3, <1>4, <1>6

(* What is left of a list completes nothing the list did not.              *)
LEMMA RestHarmless ==
  ASSUME RequestInv, NEW p \in Processes, process[p].jobs # <<>>
  PROVE  \A i \in DOMAIN Tail(process[p].jobs) :
           Tail(process[p].jobs)[i].do = "complete" => Tail(process[p].jobs)[i].request \notin refused
<1> SUFFICES ASSUME NEW i \in DOMAIN Tail(process[p].jobs), Tail(process[p].jobs)[i].do = "complete"
             PROVE  Tail(process[p].jobs)[i].request \notin refused
  OBVIOUS
<1>1. i + 1 \in DOMAIN process[p].jobs /\ Tail(process[p].jobs)[i] = process[p].jobs[i + 1]
  BY FirstJob
<1>2. Completes(p, Tail(process[p].jobs)[i].request)
  BY <1>1 DEF Completes
<1> QED
  BY <1>2 DEF RequestInv, StaysRejected

(* _complete: the request is not a refused one.                            *)
LEMMA CompleteStep == ASSUME RequestInv, NEW p \in Processes, Complete(p) PROVE RequestInv'
<1> DEFINE r == Job1(p).request
<1> DEFINE rest == Tail(process[p].jobs)
<1> DEFINE letter == <<Letter(r, "completion")>>
<1>1. /\ process[p].at = "none" /\ process[p].jobs # <<>> /\ Job1(p).do = "complete"
      /\ request' = [request EXCEPT ![r].status = "ADDED"]
      /\ Give(p, letter \o rest)
      /\ UNCHANGED <<mail, catalogue, tasks, copies, unseen, suspect, refused, faults, acts>>
  BY DEF Complete, AtJob
<1>2. /\ r \in Requests /\ rest \in Seq(Job) /\ 1 \in DOMAIN process[p].jobs
  BY <1>1, FirstJob DEF Job
<1>3. r \notin refused
  BY <1>1, <1>2 DEF RequestInv, StaysRejected, Completes, Job1
<1>4. letter \in Seq(Job) /\ \A i \in DOMAIN letter : letter[i].do # "complete"
  BY <1>2, OneLetter DEF MailKinds
<1>5. \A i \in DOMAIN rest : rest[i].do = "complete" => rest[i].request \notin refused
  BY <1>1, RestHarmless
<1> HIDE DEF r, rest, letter
<1>6. request' \in [Requests -> [status : Statuses, existed : BOOLEAN]]
  BY <1>1, <1>2 DEF RequestInv, RequestTyped, Statuses
<1>7. \A q \in refused' : request'[q].status = "REJECTED"
  BY <1>1, <1>2, <1>3 DEF RequestInv, RequestTyped, StaysRejected
<1> DEFINE jobs == letter \o rest
<1>8. /\ jobs \in Seq(Job)
      /\ \A i \in DOMAIN jobs : jobs[i].do = "complete" => jobs[i].request \notin refused'
  <2>1. /\ jobs \in Seq(Job) /\ Len(jobs) = Len(letter) + Len(rest)
        /\ \A i \in 1 .. Len(letter) + Len(rest) :
             jobs[i] = IF i <= Len(letter) THEN letter[i] ELSE rest[i - Len(letter)]
    BY <1>2, <1>4, ConcatProperties
  <2>2. /\ Len(letter) \in Nat /\ DOMAIN letter = 1 .. Len(letter)
        /\ Len(rest) \in Nat /\ DOMAIN rest = 1 .. Len(rest)
        /\ DOMAIN jobs = 1 .. Len(jobs)
    BY <1>2, <1>4, <2>1, LenProperties
  <2>3. ASSUME NEW i \in DOMAIN jobs
        PROVE  \/ i \in DOMAIN letter /\ jobs[i] = letter[i]
               \/ i - Len(letter) \in DOMAIN rest /\ jobs[i] = rest[i - Len(letter)]
    <3> HIDE DEF jobs
    <3> QED
      BY <2>1, <2>2
  <2> QED
    BY <1>1, <1>4, <1>5, <2>1, <2>3
<1> HIDE DEF jobs
<1>9. /\ ProcessTyped'
      /\ \A m \in Mails \ suspect' : MailAccounted(m)'
      /\ \A q \in refused' : StaysRejected(q)'
  BY <1>1, <1>7, <1>8, GivenHarmless DEF jobs
<1>10. RequestTyped'
  BY <1>1, <1>6, <1>9 DEF RequestInv, RequestTyped
<1> QED
  BY <1>9, <1>10 DEF RequestInv

LEMMA SkipStep == ASSUME RequestInv, NEW p \in Processes, Skip(p) PROVE RequestInv'
<1> DEFINE rest == Tail(process[p].jobs)
<1>1. /\ process[p].at = "none" /\ process[p].jobs # <<>> /\ Give(p, rest)
      /\ UNCHANGED <<request, mail, catalogue, tasks, copies, unseen, suspect, refused, faults, acts>>
  BY DEF Skip, AtJob, NextJob
<1>2. /\ rest \in Seq(Job)
      /\ \A i \in DOMAIN rest : rest[i].do = "complete" => rest[i].request \notin refused
  BY <1>1, FirstJob, RestHarmless
<1> HIDE DEF rest
<1>3. \A q \in refused' : request'[q].status = "REJECTED"
  BY <1>1 DEF RequestInv, StaysRejected
<1>4. /\ ProcessTyped'
      /\ \A m \in Mails \ suspect' : MailAccounted(m)'
      /\ \A q \in refused' : StaysRejected(q)'
  BY <1>1, <1>2, <1>3, GivenHarmless
<1> QED
  BY <1>1, <1>4 DEF RequestInv, RequestTyped

-----------------------------------------------------------------------------
(* A step that only moves p along at its mail.                             *)
LEMMA SameJobs ==
  ASSUME RequestInv, NEW p \in Processes, process[p].jobs # <<>>, Job1(p).do = "mail",
         NEW at \in Stages, process' = [process EXCEPT ![p].at = at],
         UNCHANGED <<request, refused>>
  PROVE  /\ ProcessTyped'
         /\ process'[p].at = at
         /\ \A q \in Processes : process'[q].jobs = process[q].jobs /\ Mail(q)' = Mail(q)
         /\ \A q \in Processes \ {p} : process'[q] = process[q]
         /\ \A r \in refused' : StaysRejected(r)'
<1>1. /\ process' \in [Processes -> [jobs : Seq(Job), at : Stages]]
      /\ process'[p].at = at
      /\ \A q \in Processes : process'[q].jobs = process[q].jobs
      /\ \A q \in Processes \ {p} : process'[q] = process[q]
  BY DEF RequestInv, RequestTyped, ProcessTyped
<1>2. \A q \in Processes : Job1(q)' = Job1(q) /\ Mail(q)' = Mail(q)
  BY <1>1 DEF Job1, Mail
<1>3. ProcessTyped'
  BY <1>1, <1>2 DEF RequestInv, RequestTyped, ProcessTyped
<1>4. \A r \in refused' : StaysRejected(r)'
  BY <1>1 DEF RequestInv, StaysRejected, Completes
<1> QED
  BY <1>1, <1>2, <1>3, <1>4

(* send: whoever comes to a mail alone finds it neither SENT nor gone out. *)
LEMMA AddressStep == ASSUME RequestInv, NEW p \in Processes, Address(p) PROVE RequestInv'
<1>1. /\ process[p].at = "none" /\ process[p].jobs # <<>> /\ Job1(p).do = "mail"
      /\ mail[Mail(p)] # "SENT"
      /\ process' = [process EXCEPT ![p].at = "deliver"]
      /\ suspect' = IF SendingToo(p) THEN suspect \cup {Mail(p)} ELSE suspect
      /\ UNCHANGED <<request, mail, catalogue, tasks, copies, unseen, refused, faults, acts>>
  BY DEF Address, AtJob, Due
<1>2. /\ ProcessTyped' /\ process'[p].at = "deliver"
      /\ \A q \in Processes : Mail(q)' = Mail(q)
      /\ \A q \in Processes \ {p} : process'[q] = process[q]
      /\ \A r \in refused' : StaysRejected(r)'
  BY <1>1, SameJobs DEF Stages
<1>3. Mail(p) \in Mails
  BY <1>1, FirstJob
<1>4. RequestTyped'
  BY <1>1, <1>2, <1>3 DEF RequestInv, RequestTyped
<1>5. ASSUME NEW m \in Mails \ suspect' PROVE MailAccounted(m)'
  <2>1. MailAccounted(m)
    BY <1>1, <1>5 DEF RequestInv
  <2>2. CASE m # Mail(p)
    <3>1. \A q \in Processes : (Sends(q, m)' <=> Sends(q, m)) /\ (Sends(q, m) => process'[q] = process[q])
      BY <1>1, <1>2, <2>2 DEF Sends
    <3> QED
      BY <1>1, <2>1, <3>1 DEF MailAccounted
  <2>3. CASE m = Mail(p)
    <3>1. \A q \in Processes : ~Sends(q, m)
      BY <1>1, <1>5, <2>3 DEF Sends, SendingToo
    <3>2. copies[m] = unseen[m] /\ mail[m] # "SENT"
      BY <1>1, <2>1, <2>3, <3>1 DEF MailAccounted
    <3>3. \A q \in Processes : Sends(q, m)' => q = p
      BY <1>2, <3>1 DEF Sends
    <3>4. Sends(p, m)'
      BY <1>2, <2>3 DEF Sends
    <3> QED
      BY <1>1, <1>2, <3>2, <3>3, <3>4 DEF MailAccounted
  <2> QED
    BY <2>2, <2>3
<1> QED
  BY <1>2, <1>4, <1>5 DEF RequestInv

(* A copy goes out or not, and the sender takes it for the one or the      *)
(* other; what it takes for a success went out.                            *)
LEMMA Attempted ==
  ASSUME RequestInv, NEW p \in Processes, NEW outcome \in {"SENT", "FAILED"}, NEW out \in BOOLEAN,
         process[p].at = "deliver",
         process' = [process EXCEPT ![p].at = outcome],
         outcome = "SENT" => out,
         copies' = [copies EXCEPT ![Mail(p)] = IF out THEN @ + 1 ELSE @],
         unseen' = [unseen EXCEPT ![Mail(p)] = IF out /\ outcome = "FAILED" THEN @ + 1 ELSE @],
         faults' \in 0 .. MaxFaults,
         UNCHANGED <<request, mail, catalogue, tasks, suspect, refused, acts>>
  PROVE  RequestInv'
<1>1. process[p].jobs # <<>> /\ Job1(p).do = "mail"
  BY DEF RequestInv, RequestTyped, ProcessTyped
<1>2. /\ ProcessTyped' /\ process'[p].at = outcome
      /\ \A q \in Processes : Mail(q)' = Mail(q)
      /\ \A q \in Processes \ {p} : process'[q] = process[q]
      /\ \A r \in refused' : StaysRejected(r)'
  BY <1>1, SameJobs DEF Stages
<1>3. /\ Mail(p) \in Mails /\ copies' \in [Mails -> Nat] /\ unseen' \in [Mails -> Nat]
      /\ \A m \in Mails \ {Mail(p)} : copies'[m] = copies[m] /\ unseen'[m] = unseen[m]
      /\ copies'[Mail(p)] = IF out THEN copies[Mail(p)] + 1 ELSE copies[Mail(p)]
      /\ unseen'[Mail(p)] = IF out /\ outcome = "FAILED" THEN unseen[Mail(p)] + 1 ELSE unseen[Mail(p)]
  <2>1. Mail(p) \in Mails /\ copies \in [Mails -> Nat] /\ unseen \in [Mails -> Nat]
    BY <1>1, FirstJob DEF RequestInv, RequestTyped
  <2> QED
    BY <2>1
<1>4. RequestTyped'
  BY <1>2, <1>3 DEF RequestInv, RequestTyped
<1>5. ASSUME NEW m \in Mails \ suspect' PROVE MailAccounted(m)'
  <2>1. MailAccounted(m)
    BY <1>5 DEF RequestInv
  <2>2. \A q \in Processes : Sends(q, m)' <=> Sends(q, m)
    BY <1>1, <1>2 DEF Sends
  <2>3. CASE m # Mail(p)
    <3>1. \A q \in Processes : Sends(q, m) => process'[q] = process[q]
      BY <1>2, <2>3 DEF Sends
    <3>2. copies'[m] = copies[m] /\ unseen'[m] = unseen[m] /\ mail' = mail
      BY <1>1, <1>3, <1>5, <2>3
    <3> QED
      BY <2>1, <2>2, <3>1, <3>2 DEF MailAccounted
  <2>4. CASE m = Mail(p)
    <3>1. Sends(p, m)
      BY <2>4 DEF Sends
    <3>2. mail[m] # "SENT" /\ copies[m] = unseen[m] /\ \A q \in Processes : Sends(q, m) => q = p
      BY <2>1, <3>1 DEF MailAccounted
    <3>3. copies'[m] = IF outcome = "SENT" THEN 1 + unseen'[m] ELSE unseen'[m]
      <4>1. unseen[m] \in Nat
        BY <1>5 DEF RequestInv, RequestTyped
      <4>2. CASE outcome = "SENT"
        BY <1>3, <2>4, <3>2, <4>1, <4>2
      <4>3. CASE outcome = "FAILED"
        BY <1>3, <2>4, <3>2, <4>1, <4>3
      <4> QED
        BY <4>2, <4>3
    <3> QED
      BY <1>2, <2>2, <3>1, <3>2, <3>3 DEF MailAccounted
  <2> QED
    BY <2>3, <2>4
<1> QED
  BY <1>2, <1>4, <1>5 DEF RequestInv

LEMMA DeliverStep ==
  ASSUME RequestInv, NEW p \in Processes, NEW outcome \in {"SENT", "FAILED"}, Deliver(p, outcome)
  PROVE  RequestInv'
<1>1. PICK out \in BOOLEAN : out <=> outcome = "SENT"
  OBVIOUS
<1>2. /\ process[p].at = "deliver"
      /\ process' = [process EXCEPT ![p].at = outcome]
      /\ copies' = [copies EXCEPT ![Mail(p)] = IF out THEN @ + 1 ELSE @]
      /\ UNCHANGED <<request, mail, catalogue, tasks, unseen, suspect, refused, faults, acts>>
  BY <1>1 DEF Deliver
<1>3. unseen' = [unseen EXCEPT ![Mail(p)] = IF out /\ outcome = "FAILED" THEN @ + 1 ELSE @]
  BY <1>1, <1>2 DEF RequestInv, RequestTyped
<1>4. faults' \in 0 .. MaxFaults
  BY <1>2 DEF RequestInv, RequestTyped
<1> QED
  BY <1>1, <1>2, <1>3, <1>4, Attempted

LEMMA DeliverUnseenStep ==
  ASSUME RequestInv, NEW p \in Processes, DeliverUnseen(p)
  PROVE  RequestInv'
<1>1. /\ process[p].at = "deliver" /\ faults < MaxFaults /\ faults' = faults + 1
      /\ process' = [process EXCEPT ![p].at = "FAILED"]
      /\ copies' = [copies EXCEPT ![Mail(p)] = IF TRUE THEN @ + 1 ELSE @]
      /\ unseen' = [unseen EXCEPT ![Mail(p)] = IF TRUE /\ "FAILED" = "FAILED" THEN @ + 1 ELSE @]
      /\ UNCHANGED <<request, mail, catalogue, tasks, suspect, refused, acts>>
  BY DEF DeliverUnseen
<1>2. faults' \in 0 .. MaxFaults
  BY <1>1, RequestAssumption DEF RequestInv, RequestTyped
<1> QED
  BY <1>1, <1>2, Attempted

(* Whoever leaves its mail, with a result or lost, leaves the others at    *)
(* theirs.                                                                 *)
LEMMA LeftMail ==
  ASSUME RequestInv, NEW p \in Processes, NEW jobs \in Seq(Job), Give(p, jobs),
         \A i \in DOMAIN jobs : jobs[i].do = "complete" => jobs[i].request \notin refused,
         UNCHANGED <<request, refused>>
  PROVE  /\ ProcessTyped'
         /\ \A q \in Processes, m \in Mails : Sends(q, m)' <=> q # p /\ Sends(q, m)
         /\ \A q \in Processes \ {p} : process'[q] = process[q]
         /\ \A r \in refused' : StaysRejected(r)'
<1>1. /\ process' \in [Processes -> [jobs : Seq(Job), at : Stages]]
      /\ process'[p] = [jobs |-> jobs, at |-> "none"]
      /\ \A q \in Processes \ {p} : process'[q] = process[q]
  BY DEF Give, RequestInv, RequestTyped, ProcessTyped, Stages
<1>2. ProcessTyped'
  <2>1. ASSUME NEW q \in Processes, process'[q].at # "none"
        PROVE  process'[q].jobs # <<>> /\ Job1(q)'.do = "mail"
    <3>1. q # p /\ process'[q] = process[q]
      BY <1>1, <2>1
    <3> QED
      BY <2>1, <3>1 DEF RequestInv, RequestTyped, ProcessTyped, Job1
  <2> QED
    BY <1>1, <2>1 DEF ProcessTyped
<1>3. \A q \in Processes, m \in Mails : Sends(q, m)' <=> q # p /\ Sends(q, m)
  BY <1>1 DEF Sends, Mail, Job1
<1>4. ASSUME NEW r \in refused' PROVE StaysRejected(r)'
  <2>1. StaysRejected(r)
    BY DEF RequestInv
  <2>2. \A q \in Processes : ~Completes(q, r)'
    BY <1>1, <2>1 DEF StaysRejected, Completes
  <2> QED
    BY <2>1, <2>2 DEF StaysRejected
<1> QED
  BY <1>1, <1>2, <1>3, <1>4

(* send commits what became of the delivery it made.                       *)
LEMMA ReportStep == ASSUME RequestInv, NEW p \in Processes, Report(p) PROVE RequestInv'
<1>1. /\ process[p].at \in {"SENT", "FAILED"}
      /\ mail' = [mail EXCEPT ![Mail(p)] = process[p].at]
      /\ Give(p, Tail(process[p].jobs))
      /\ UNCHANGED <<request, catalogue, tasks, copies, unseen, suspect, refused, faults, acts>>
  BY DEF Report, NextJob
<1>2. process[p].jobs # <<>>
  BY <1>1 DEF RequestInv, RequestTyped, ProcessTyped
<1>3. /\ ProcessTyped'
      /\ \A q \in Processes, m \in Mails : Sends(q, m)' <=> q # p /\ Sends(q, m)
      /\ \A q \in Processes \ {p} : process'[q] = process[q]
      /\ \A r \in refused' : StaysRejected(r)'
  BY <1>1, <1>2, FirstJob, RestHarmless, LeftMail
<1>4. /\ Mail(p) \in Mails /\ mail' \in [Mails -> {"PENDING", "SENT", "FAILED"}]
      /\ mail'[Mail(p)] = process[p].at
      /\ \A m \in Mails \ {Mail(p)} : mail'[m] = mail[m]
  BY <1>1, <1>2, FirstJob DEF RequestInv, RequestTyped
<1>5. RequestTyped'
  BY <1>1, <1>3, <1>4 DEF RequestInv, RequestTyped
<1>6. ASSUME NEW m \in Mails \ suspect' PROVE MailAccounted(m)'
  <2>1. MailAccounted(m)
    BY <1>1, <1>6 DEF RequestInv
  <2>2. CASE m # Mail(p)
    <3>1. \A q \in Processes : (Sends(q, m)' <=> Sends(q, m)) /\ (Sends(q, m) => process'[q] = process[q])
      BY <1>3, <2>2 DEF Sends
    <3> QED
      BY <1>1, <1>4, <2>1, <2>2, <3>1 DEF MailAccounted
  <2>3. CASE m = Mail(p)
    <3>1. Sends(p, m)
      BY <1>1, <2>3 DEF Sends
    <3>2. copies[m] = (IF process[p].at = "SENT" THEN 1 + unseen[m] ELSE unseen[m]) /\ \A q \in Processes : Sends(q, m) => q = p
      BY <2>1, <3>1 DEF MailAccounted
    <3>3. \A q \in Processes : ~Sends(q, m)'
      BY <1>3, <3>2
    <3> QED
      BY <1>1, <1>4, <2>3, <3>2, <3>3 DEF MailAccounted
  <2> QED
    BY <2>2, <2>3
<1> QED
  BY <1>3, <1>5, <1>6 DEF RequestInv

LEMMA ProcessDiesStep == ASSUME RequestInv, NEW p \in Processes, ProcessDies(p) PROVE RequestInv'
<1>1. /\ faults < MaxFaults /\ faults' = faults + 1 /\ Give(p, <<>>)
      /\ suspect' = IF process[p].at # "none" THEN suspect \cup {Mail(p)} ELSE suspect
      /\ UNCHANGED <<request, mail, catalogue, tasks, copies, unseen, refused, acts>>
  BY DEF ProcessDies
<1>2. /\ ProcessTyped'
      /\ \A q \in Processes, m \in Mails : Sends(q, m)' <=> q # p /\ Sends(q, m)
      /\ \A q \in Processes \ {p} : process'[q] = process[q]
      /\ \A r \in refused' : StaysRejected(r)'
  BY <1>1, NoJob, LeftMail
<1>3. faults' \in 0 .. MaxFaults
  BY <1>1, RequestAssumption DEF RequestInv, RequestTyped
<1>4. process[p].at # "none" => Mail(p) \in Mails
  BY FirstJob DEF RequestInv, RequestTyped, ProcessTyped
<1>5. RequestTyped'
  BY <1>1, <1>2, <1>3, <1>4 DEF RequestInv, RequestTyped
<1>6. ASSUME NEW m \in Mails \ suspect' PROVE MailAccounted(m)'
  <2>1. MailAccounted(m) /\ ~Sends(p, m)
    BY <1>1, <1>6 DEF RequestInv, Sends
  <2>2. \A q \in Processes : (Sends(q, m)' <=> Sends(q, m)) /\ (Sends(q, m) => process'[q] = process[q])
    BY <1>2, <2>1
  <2> QED
    BY <1>1, <2>1, <2>2 DEF MailAccounted
<1> QED
  BY <1>2, <1>5, <1>6 DEF RequestInv

-----------------------------------------------------------------------------
(* The administrator.  A rejection counts as respected from here on only   *)
(* when nobody is at work on the request.                                  *)
LEMMA SetStatusStep ==
  ASSUME RequestInv, NEW p \in Processes, NEW r \in Requests,
         NEW status \in {"REVIEWING", "REJECTED"}, SetStatus(p, r, status)
  PROVE  RequestInv'
<1> DEFINE jobs == IF status = "REJECTED" THEN <<Letter(r, "rejection")>> ELSE <<>>
<1>1. /\ IsFree(p) /\ acts < MaxActs /\ acts' = acts + 1
      /\ request' = [request EXCEPT ![r].status = status]
      /\ Give(p, jobs)
      /\ refused' = IF status = "REJECTED" /\ ~AtWorkOn(r) THEN refused \cup {r} ELSE refused \ {r}
      /\ UNCHANGED <<mail, catalogue, tasks, copies, unseen, suspect, faults>>
  BY DEF SetStatus, Acts
<1>2. jobs \in Seq(Job) /\ \A i \in DOMAIN jobs : jobs[i].do # "complete"
  BY NoJob, OneLetter DEF MailKinds
<1> HIDE DEF jobs
<1>3. request' \in [Requests -> [status : Statuses, existed : BOOLEAN]]
  BY <1>1 DEF RequestInv, RequestTyped, Statuses, Active
<1>4. acts' \in 0 .. MaxActs
  BY <1>1, RequestAssumption DEF RequestInv, RequestTyped
<1>5. /\ ProcessTyped'
      /\ process'[p].jobs = jobs
      /\ \A q \in Processes \ {p} : process'[q] = process[q]
      /\ \A m \in Mails \ suspect' : MailAccounted(m)'
  BY <1>1, <1>2, FreeHasNoMail, GivenJobs
<1>6. RequestTyped'
  BY <1>1, <1>3, <1>4, <1>5 DEF RequestInv, RequestTyped
<1>7. ASSUME NEW x \in refused' PROVE StaysRejected(x)'
  <2>1. /\ request'[x].status = "REJECTED"
        /\ \A q \in Processes : ~Completes(q, x)
    <3>1. CASE x = r
      <4>1. status = "REJECTED" /\ ~AtWorkOn(r)
        BY <1>1, <1>7, <3>1
      <4> QED
        BY <1>1, <3>1, <4>1 DEF Completes, AtWorkOn, RequestInv, RequestTyped
    <3>2. CASE x # r
      <4>1. x \in refused
        BY <1>1, <1>7, <3>2
      <4> QED
        BY <1>1, <3>2, <4>1 DEF RequestInv, RequestTyped, StaysRejected
    <3> QED
      BY <3>1, <3>2
  <2>2. \A q \in Processes : ~Completes(q, x)'
    BY <1>2, <1>5, <2>1 DEF Completes
  <2> QED
    BY <2>1, <2>2 DEF StaysRejected
<1> QED
  BY <1>5, <1>6, <1>7 DEF RequestInv

(* The other acts give a free process jobs and change no status.           *)
LEMMA ActedOn ==
  ASSUME RequestInv, NEW p \in Processes, IsFree(p), Acts, NEW jobs \in Seq(Job), Give(p, jobs),
         \A i \in DOMAIN jobs : jobs[i].do = "complete" => jobs[i].request \notin refused',
         refused' \subseteq refused,
         UNCHANGED <<request, mail, catalogue, tasks, copies, unseen, suspect, faults>>
  PROVE  RequestInv'
<1>1. acts' \in 0 .. MaxActs
  BY RequestAssumption DEF Acts, RequestInv, RequestTyped
<1>2. \A q \in refused' : request'[q].status = "REJECTED"
  BY DEF RequestInv, StaysRejected
<1>3. /\ ProcessTyped'
      /\ \A m \in Mails \ suspect' : MailAccounted(m)'
      /\ \A q \in refused' : StaysRejected(q)'
  BY <1>2, FreeHasNoMail, GivenHarmless
<1>4. RequestTyped'
  BY <1>1, <1>3 DEF RequestInv, RequestTyped
<1> QED
  BY <1>3, <1>4 DEF RequestInv

LEMMA SetAddedStep ==
  ASSUME RequestInv, NEW p \in Processes, NEW r \in Requests, SetAdded(p, r) PROVE RequestInv'
<1>1. /\ IsFree(p) /\ Acts /\ Give(p, <<Completion(r)>>) /\ refused' = refused \ {r}
      /\ UNCHANGED <<request, mail, catalogue, tasks, copies, unseen, suspect, faults>>
  BY DEF SetAdded
<1>2. Completion(r) \in Job /\ Completion(r).request = r
  BY JobTyped DEF Completion, MailKinds
<1> HIDE DEF Completion
<1>3. /\ <<Completion(r)>> \in Seq(Job)
      /\ \A i \in DOMAIN <<Completion(r)>> : <<Completion(r)>>[i].request \notin refused'
  BY <1>1, <1>2, OneJob
<1> QED
  BY <1>1, <1>3, ActedOn

LEMMA RetryMailStep ==
  ASSUME RequestInv, NEW p \in Processes, NEW r \in Requests, NEW kind \in MailKinds, RetryMail(p, r, kind)
  PROVE  RequestInv'
<1>1. /\ IsFree(p) /\ Acts /\ Give(p, <<Letter(r, kind)>>)
      /\ UNCHANGED <<request, mail, catalogue, tasks, copies, unseen, suspect, refused, faults>>
  BY DEF RetryMail
<1> QED
  BY <1>1, OneLetter, ActedOn

LEMMA RetryFailedStep == ASSUME RequestInv, NEW p \in Processes, RetryFailed(p) PROVE RequestInv'
<1>1. /\ IsFree(p) /\ Acts
      /\ UNCHANGED <<request, mail, catalogue, tasks, copies, unseen, suspect, refused, faults>>
  BY DEF RetryFailed
<1>2. PICK s \in [1 .. Cardinality(Failed) -> Failed] :
        Give(p, [i \in DOMAIN s |-> Letter(s[i][1], s[i][2])])
  BY DEF RetryFailed
<1> DEFINE jobs == [i \in DOMAIN s |-> Letter(s[i][1], s[i][2])]
<1>3. Cardinality(Failed) \in Nat
  BY RequestsFinite
<1>4. \A i \in 1 .. Cardinality(Failed) :
        Letter(s[i][1], s[i][2]) \in Job /\ Letter(s[i][1], s[i][2]).do = "mail"
  <2>1. \A m \in Failed : Letter(m[1], m[2]) \in Job /\ Letter(m[1], m[2]).do = "mail"
    BY JobTyped DEF Failed, Mails, Letter
  <2> QED
    BY <1>2, <2>1
<1>5. jobs \in [1 .. Cardinality(Failed) -> Job] /\ \A i \in DOMAIN jobs : jobs[i].do = "mail"
  BY <1>4
<1>6. jobs \in Seq(Job)
  BY <1>3, <1>5, SeqDef
<1> HIDE DEF jobs
<1>7. \A i \in DOMAIN jobs : jobs[i].do = "complete" => jobs[i].request \notin refused'
  BY <1>5
<1>8. Give(p, jobs)
  BY <1>2 DEF jobs
<1> QED
  BY <1>1, <1>6, <1>7, <1>8, ActedOn

LEMMA RequestInvStep == RequestInv /\ [RequestNext]_requestVars => RequestInv'
<1> SUFFICES ASSUME RequestInv, [RequestNext]_requestVars PROVE RequestInv'
  OBVIOUS
<1>1. ASSUME NEW p \in Processes, NEW r \in Requests,
             \/ Submit(p, r) \/ Prepare(p, r) \/ SetAdded(p, r)
             \/ \E s \in {"REVIEWING", "REJECTED"} : SetStatus(p, r, s)
             \/ \E k \in MailKinds : RetryMail(p, r, k)
      PROVE  RequestInv'
  BY <1>1, SubmitStep, PrepareStep, SetAddedStep, SetStatusStep, RetryMailStep
<1>2. ASSUME NEW p \in Processes,
             \/ \E m \in Movies : Import(p, m)
             \/ Maintain(p) \/ Complete(p) \/ Skip(p) \/ RetryFailed(p)
      PROVE  RequestInv'
  BY <1>2, ImportStep, MaintainStep, CompleteStep, SkipStep, RetryFailedStep
<1>3. ASSUME NEW p \in Processes,
             \/ \E o \in {"SENT", "FAILED"} : Deliver(p, o)
             \/ DeliverUnseen(p) \/ Address(p) \/ Report(p) \/ ProcessDies(p)
      PROVE  RequestInv'
  BY <1>3, DeliverStep, DeliverUnseenStep, AddressStep, ReportStep, ProcessDiesStep
<1>4. CASE UNCHANGED requestVars
  BY <1>4 DEF requestVars, RequestInv, RequestTyped, ProcessTyped, Job1, MailAccounted, Sends, Mail,
              StaysRejected, Completes
<1> QED
  BY <1>1, <1>2, <1>3, <1>4 DEF RequestNext

LEMMA RequestInvHolds == RequestSpec => []RequestInv
<1>1. RequestInit => RequestInv
  BY RequestInvInit
<1>2. RequestInv /\ [RequestNext]_requestVars => RequestInv'
  BY RequestInvStep
<1> QED
  BY <1>1, <1>2, PTL DEF RequestSpec

(* Every request, mail and process is in a state the code knows            *)
(* (models.movie_request's columns and the services' steps).               *)
THEOREM RequestsTyped == RequestSpec => []RequestTypeOK
<1>1. RequestInv => RequestTypeOK
  <2> SUFFICES ASSUME RequestInv PROVE RequestTypeOK
    OBVIOUS
  <2>1. ASSUME NEW p \in Processes
        PROVE  /\ process[p].at \in Stages
               /\ \A i \in DOMAIN process[p].jobs : process[p].jobs[i] \in Job
    <3>1. process[p].at \in Stages /\ process[p].jobs \in Seq(Job)
      BY DEF RequestInv, RequestTyped, ProcessTyped
    <3> QED
      BY <3>1, ElementOfSeq, LenProperties
  <2> QED
    BY <2>1 DEF RequestInv, RequestTyped, RequestTypeOK, Stages
<1> QED
  BY <1>1, RequestInvHolds, PTL

(* A mail about a request goes out once, and once more for every failure   *)
(* that was none; the row says SENT exactly when a success was seen, unless *)
(* two processes were at it together or one died at it (send of            *)
(* movie_requests.py: read, deliver, commit).                              *)
THEOREM MailsGoOutOnce == RequestSpec => []MailOnce
<1>1. RequestInv => MailOnce
  <2> SUFFICES ASSUME RequestInv, NEW m \in Mails \ suspect
               PROVE  /\ copies[m] <= 1 + unseen[m]
                      /\ copies[m] = 1 + unseen[m] <=>
                           \/ mail[m] = "SENT"
                           \/ \E p \in Processes : process[p].at = "SENT" /\ Mail(p) = m
    BY DEF MailOnce
  <2> unseen[m] \in Nat
    BY DEF RequestInv, RequestTyped
  <2>1. MailAccounted(m)
    BY DEF RequestInv
  <2>2. CASE \E p \in Processes : Sends(p, m)
    <3>1. PICK p \in Processes : Sends(p, m)
      BY <2>2
    <3>2. mail[m] # "SENT" /\ copies[m] = (IF process[p].at = "SENT" THEN 1 + unseen[m] ELSE unseen[m])
          /\ \A q \in Processes : Sends(q, m) => q = p
      BY <2>1, <3>1 DEF MailAccounted
    <3>3. (\E q \in Processes : process[q].at = "SENT" /\ Mail(q) = m) <=> process[p].at = "SENT"
      BY <3>1, <3>2 DEF Sends
    <3> QED
      BY <3>2, <3>3
  <2>3. CASE \A p \in Processes : ~Sends(p, m)
    BY <2>1, <2>3 DEF MailAccounted, Sends
  <2> QED
    BY <2>2, <2>3
<1> QED
  BY <1>1, RequestInvHolds, PTL

(* What was rejected while nobody worked on it stays rejected: imports and *)
(* the maintenance read the active requests only (reconcile,               *)
(* reconcile_for_movie, _complete).                                        *)
THEOREM RejectionsRespected == RequestSpec => []RejectionRespected
<1>1. RequestInv => RejectionRespected
  BY DEF RequestInv, StaysRejected, RejectionRespected
<1> QED
  BY <1>1, RequestInvHolds, PTL

-----------------------------------------------------------------------------
(* Discovery.                                                              *)
Places == {"idle", "language", "item", "details", "import", "mark", "sources", "finish"}
InHand == {"details", "import", "mark"}

(* A run works on a title exactly where it has one in hand.                *)
ScansTyped ==
  scan \in [Scans -> [at : Places, todo : SUBSET Languages, left : SUBSET Titles,
                      title : Titles \cup {NoTitle}, read : CandidateStatuses]]
HandsFull == \A s \in Scans : scan[s].at \in InHand => scan[s].title \in Titles

(* DiscoveryTypeOK with every field of a run.                              *)
DiscoveryTyped ==
  /\ ScansTyped /\ HandsFull
  /\ candidate \in [Candidates -> CandidateStatuses]
  /\ matched \subseteq Candidates /\ imported \subseteq Titles \cup Others
  /\ runRow \in [Scans -> {"NONE", "RUNNING", "OVER"}]
  /\ dismissals \subseteq Candidates /\ unsettled \subseteq Candidates
  /\ contested \subseteq {FilmOf[t] : t \in Titles \cup Others}

LEMMA RunsGoOn ==
  ASSUME ScansTyped, NEW s \in Scans, NEW place \in Places, Go(s, place)
  PROVE  /\ ScansTyped'
         /\ scan'[s].at = place /\ scan'[s].title = scan[s].title
         /\ \A q \in Scans \ {s} : scan'[q] = scan[q]
BY DEF ScansTyped, Go

LEMMA RunsTakeTheNext ==
  ASSUME ScansTyped, NEW s \in Scans, scan' = [scan EXCEPT ![s] = NextItem(s)]
  PROVE  /\ ScansTyped'
         /\ scan'[s].at = "item" /\ scan'[s].title = NoTitle
         /\ \A q \in Scans \ {s} : scan'[q] = scan[q]
BY DEF ScansTyped, NextItem, Places, CandidateStatuses

LEMMA TypedAtFirst == DiscoveryInit => DiscoveryTyped
BY DEF DiscoveryInit, DiscoveryTyped, ScansTyped, HandsFull, Scan0, Places, InHand, CandidateStatuses

LEMMA TypedBegin ==
  ASSUME DiscoveryTyped, NEW s \in Scans, BeginScan(s)
  PROVE  DiscoveryTyped'
<1>1. "language" \in Places
  BY DEF Places
<1>2. ScansTyped' /\ scan'[s].at = "language" /\ \A q \in Scans \ {s} : scan'[q] = scan[q]
  BY <1>1, RunsGoOn DEF BeginScan, DiscoveryTyped
<1>3. HandsFull'
  BY <1>2 DEF HandsFull, DiscoveryTyped, InHand
<1> QED
  BY <1>2, <1>3 DEF BeginScan, DiscoveryTyped

LEMMA TypedStep == DiscoveryTyped /\ [DiscoveryNext]_discoveryVars => DiscoveryTyped'
<1> SUFFICES ASSUME DiscoveryTyped, [DiscoveryNext]_discoveryVars
             PROVE  DiscoveryTyped'
  OBVIOUS
<1>a. /\ "language" \in Places /\ "item" \in Places /\ "import" \in Places
      /\ "mark" \in Places /\ "finish" \in Places
  BY DEF Places
<1>b. \A k \in Candidates : candidate[k] \in CandidateStatuses
  BY DEF DiscoveryTyped
<1>1. ASSUME NEW s \in Scans, BeginScan(s) \/ RunDiscoveryNow(s)
      PROVE  DiscoveryTyped'
  BY <1>1, TypedBegin DEF RunDiscoveryNow
<1>2. ASSUME NEW s \in Scans, ListLanguage(s)
      PROVE  DiscoveryTyped'
  <2> DEFINE Run == [at : Places, todo : SUBSET Languages, left : SUBSET Titles,
                     title : Titles \cup {NoTitle}, read : CandidateStatuses]
  <2>0. PICK l \in scan[s].todo :
          \E offered \in SUBSET {t \in Titles : LanguageOf[t] = l} :
            scan' = [scan EXCEPT ![s].at = "item", ![s].todo = @ \ {l}, ![s].left = offered]
    BY <1>2 DEF ListLanguage
  <2>1. PICK offered \in SUBSET {t \in Titles : LanguageOf[t] = l} :
          scan' = [scan EXCEPT ![s].at = "item", ![s].todo = @ \ {l}, ![s].left = offered]
    BY <2>0
  <2>2. ScansTyped'
    <3>1. scan \in [Scans -> Run] /\ offered \subseteq Titles
      BY DEF DiscoveryTyped, ScansTyped
    <3>2. [scan[s] EXCEPT !.at = "item", !.todo = scan[s].todo \ {l}, !.left = offered] \in Run
      BY <3>1, <1>a
    <3>3. scan' = [scan EXCEPT ![s] = [scan[s] EXCEPT !.at = "item", !.todo = scan[s].todo \ {l},
                                                      !.left = offered]]
      BY <3>1, <2>1
    <3> HIDE DEF Run
    <3>4. scan' \in [Scans -> Run]
      BY <3>1, <3>2, <3>3
    <3> QED
      BY <3>4 DEF ScansTyped, Run
  <2>3. HandsFull'
    BY <2>1 DEF DiscoveryTyped, ScansTyped, HandsFull, InHand
  <2> QED
    BY <1>2, <2>2, <2>3 DEF ListLanguage, DiscoveryTyped
<1>3. ASSUME NEW s \in Scans, NEW t \in Titles, TakeTitle(s, t)
      PROVE  DiscoveryTyped'
  <2>1. t \in Candidates
    BY DEF Candidates
  <2>2. ScansTyped' /\ HandsFull'
    <3>1. PICK row \in CandidateStatuses :
            \/ scan' = [scan EXCEPT ![s].left = @ \ {t}]
            \/ scan' = [scan EXCEPT ![s].at = "details", ![s].title = t, ![s].read = row]
      BY <1>3, <1>b, <2>1 DEF TakeTitle, CandidateStatuses
    <3>2. "details" \in Places
      BY DEF Places
    <3>3. scan[s].at = "item"
      BY <1>3 DEF TakeTitle, ScanAt
    <3>4. CASE scan' = [scan EXCEPT ![s].left = @ \ {t}]
      <4>1. ScansTyped'
        BY <3>3, <3>4 DEF DiscoveryTyped, ScansTyped
      <4>2. \A q \in Scans : scan'[q].at = scan[q].at /\ scan'[q].title = scan[q].title
        BY <3>4 DEF DiscoveryTyped, ScansTyped
      <4> QED
        BY <4>1, <4>2 DEF DiscoveryTyped, HandsFull
    <3>5. CASE scan' = [scan EXCEPT ![s].at = "details", ![s].title = t, ![s].read = row]
      <4> DEFINE Run == [at : Places, todo : SUBSET Languages, left : SUBSET Titles,
                         title : Titles \cup {NoTitle}, read : CandidateStatuses]
                 taken == [scan[s] EXCEPT !.at = "details", !.title = t, !.read = row]
      <4>0. scan \in [Scans -> Run]
        BY DEF DiscoveryTyped, ScansTyped
      <4>a. taken \in Run
        BY <3>2, <4>0
      <4>b. scan' = [scan EXCEPT ![s] = taken]
        BY <3>5, <4>0
      <4>1. ScansTyped'
        <5> HIDE DEF Run, taken
        <5>1. scan' \in [Scans -> Run]
          BY <4>0, <4>a, <4>b
        <5> QED
          BY <5>1 DEF ScansTyped, Run
      <4>2. /\ scan'[s].title = t
            /\ \A q \in Scans \ {s} : scan'[q] = scan[q]
        BY <3>5 DEF DiscoveryTyped, ScansTyped
      <4> QED
        BY <4>1, <4>2 DEF DiscoveryTyped, HandsFull
    <3> QED
      BY <3>1, <3>4, <3>5
  <2>3. candidate' \in [Candidates -> CandidateStatuses] /\ matched' \subseteq Candidates
    BY <1>3, <1>b, <2>1 DEF TakeTitle, DiscoveryTyped, CandidateStatuses
  <2> QED
    BY <1>3, <2>2, <2>3 DEF TakeTitle, DiscoveryTyped
<1>4. ASSUME NEW s \in Scans, DecideTitle(s)
      PROVE  DiscoveryTyped'
  <2>1. scan[s].title \in Titles
    BY <1>4 DEF DecideTitle, ScanAt, DiscoveryTyped, HandsFull, InHand
  <2>2. scan[s].title \in Candidates
    BY <2>1 DEF Candidates
  <2>3. ScansTyped' /\ HandsFull'
    <3>1. CASE Go(s, "import")
      <4>1. ScansTyped' /\ scan'[s].title \in Titles /\ \A q \in Scans \ {s} : scan'[q] = scan[q]
        BY <3>1, <2>1, <1>a, RunsGoOn DEF DiscoveryTyped
      <4> QED
        BY <4>1 DEF DiscoveryTyped, HandsFull
    <3>2. CASE scan' = [scan EXCEPT ![s] = NextItem(s)]
      <4>1. /\ ScansTyped' /\ scan'[s].at = "item"
            /\ \A q \in Scans \ {s} : scan'[q] = scan[q]
        BY <3>2, RunsTakeTheNext DEF DiscoveryTyped
      <4> QED
        BY <4>1 DEF DiscoveryTyped, HandsFull, InHand
    <3> QED
      BY <3>1, <3>2, <1>4 DEF DecideTitle
  <2>4. candidate' \in [Candidates -> CandidateStatuses] /\ matched' \subseteq Candidates
    BY <1>4, <1>b, <2>2 DEF DecideTitle, MarkStale, DiscoveryTyped, CandidateStatuses
  <2>5. contested' \subseteq {FilmOf[t] : t \in Titles \cup Others}
    BY <1>4, <2>1 DEF DecideTitle, DiscoveryTyped
  <2> QED
    BY <1>4, <2>3, <2>4, <2>5 DEF DecideTitle, DiscoveryTyped
<1>5. ASSUME NEW s \in Scans, ImportTitle(s)
      PROVE  DiscoveryTyped'
  <2>1. scan[s].title \in Titles
    BY <1>5 DEF ImportTitle, ScanAt, DiscoveryTyped, HandsFull, InHand
  <2>2. ScansTyped' /\ HandsFull'
    <3>1. ScansTyped' /\ scan'[s].title \in Titles /\ \A q \in Scans \ {s} : scan'[q] = scan[q]
      BY <1>5, <2>1, <1>a, RunsGoOn DEF ImportTitle, DiscoveryTyped
    <3> QED
      BY <3>1 DEF DiscoveryTyped, HandsFull
  <2> QED
    BY <1>5, <2>1, <2>2 DEF ImportTitle, DiscoveryTyped
<1>6. ASSUME NEW s \in Scans, MarkImported(s) \/ FailTitle(s)
      PROVE  DiscoveryTyped'
  <2>1. scan[s].title \in Titles
    BY <1>6 DEF MarkImported, FailTitle, ScanAt, DiscoveryTyped, HandsFull, InHand
  <2>2. scan[s].title \in Candidates
    BY <2>1 DEF Candidates
  <2>3. ScansTyped' /\ HandsFull'
    BY <1>6, RunsTakeTheNext DEF MarkImported, FailTitle, DiscoveryTyped, HandsFull, InHand
  <2> QED
    BY <1>6, <2>2, <2>3 DEF MarkImported, FailTitle, DiscoveryTyped, CandidateStatuses
<1>7. ASSUME NEW s \in Scans, EndLanguage(s)
      PROVE  DiscoveryTyped'
  <2>1. PICK place \in {"sources", "language"} :
          scan' = [scan EXCEPT ![s] = [scan[s] EXCEPT !.at = place, !.left = {}]]
    BY <1>7 DEF EndLanguage
  <2>2. place \in Places
    BY DEF Places
  <2>3. ScansTyped' /\ HandsFull'
    BY <2>1, <2>2 DEF DiscoveryTyped, ScansTyped, HandsFull, InHand
  <2> QED
    BY <1>7, <2>3 DEF EndLanguage, DiscoveryTyped
<1>8. ASSUME NEW s \in Scans, ScanSources(s)
      PROVE  DiscoveryTyped'
  <2>1. ScansTyped' /\ HandsFull'
    <3>1. /\ ScansTyped' /\ scan'[s].at = "finish"
          /\ \A q \in Scans \ {s} : scan'[q] = scan[q]
      BY <1>8, <1>a, RunsGoOn DEF ScanSources, DiscoveryTyped
    <3> QED
      BY <3>1 DEF DiscoveryTyped, HandsFull, InHand
  <2>2. candidate' \in [Candidates -> CandidateStatuses] /\ matched' \subseteq Candidates
    BY <1>8, <1>b DEF ScanSources, DiscoveryTyped, CandidateStatuses
  <2> QED
    BY <1>8, <2>1, <2>2 DEF ScanSources, DiscoveryTyped
<1>9. ASSUME NEW s \in Scans, FinishScan(s) \/ ScanDies(s)
      PROVE  DiscoveryTyped'
  BY <1>9 DEF FinishScan, ScanDies, Scan0, DiscoveryTyped, ScansTyped, HandsFull, Places, InHand, CandidateStatuses
<1>10. ASSUME NEW k \in Candidates, DismissCandidate(k) \/ MatchCandidate(k)
       PROVE  DiscoveryTyped'
  <2>1. ScansTyped' /\ HandsFull'
    BY <1>10 DEF DismissCandidate, MatchCandidate, DiscoveryTyped, ScansTyped, HandsFull
  <2> QED
    BY <1>10, <2>1 DEF DismissCandidate, MatchCandidate, Held, DiscoveryTyped, CandidateStatuses
<1>11. ASSUME NEW u \in Others, ImportElsewhere(u)
       PROVE  DiscoveryTyped'
  BY <1>11 DEF ImportElsewhere, DiscoveryTyped, ScansTyped, HandsFull
<1>12. CASE UNCHANGED discoveryVars
  BY <1>12 DEF discoveryVars, DiscoveryTyped, ScansTyped, HandsFull
<1> QED
  BY <1>1, <1>2, <1>3, <1>4, <1>5, <1>6, <1>7, <1>8, <1>9, <1>10, <1>11, <1>12 DEF DiscoveryNext

(* Every row, every run and every film keeps its type.                     *)
THEOREM DiscoveryTypesHold == DiscoverySpec => []DiscoveryTypeOK
<1>1. DiscoveryTyped => DiscoveryTypeOK
  BY DEF DiscoveryTyped, ScansTyped, DiscoveryTypeOK, Places
<1> QED
  BY <1>1, TypedAtFirst, TypedStep, PTL DEF DiscoverySpec

-----------------------------------------------------------------------------
(* A dismissed title that no run had in hand is in no hand later either:   *)
(* the filter refuses it, and no other step gives a run a title.           *)
Stands ==
  \A t \in (Titles \cap dismissals) \ unsettled :
    candidate[t] = "IGNORED" /\ \A s \in Scans : ~Handles(s, t)

LEMMA StandsStep ==
  DiscoveryTyped /\ Stands /\ [DiscoveryNext]_discoveryVars => Stands'
<1> SUFFICES ASSUME DiscoveryTyped, Stands, [DiscoveryNext]_discoveryVars
             PROVE  Stands'
  OBVIOUS
<1> USE DEF Stands, Handles
<1>d. Titles \cap Releases = {} /\ NoTitle \notin Titles
  BY DiscoveryAssumption
<1>1. ASSUME NEW s \in Scans, BeginScan(s) \/ RunDiscoveryNow(s)
      PROVE  Stands'
  <2>1. BeginScan(s)
    BY <1>1 DEF RunDiscoveryNow
  <2>2. \A q \in Scans : scan'[q].title = scan[q].title
    BY <2>1 DEF BeginScan, Go, DiscoveryTyped, ScansTyped
  <2> QED
    BY <2>1, <2>2 DEF BeginScan
<1>2. ASSUME NEW s \in Scans, ListLanguage(s) \/ EndLanguage(s) \/ ScanSources(s)
      PROVE  Stands'
  <2>1. \A q \in Scans : scan'[q].title = scan[q].title
    <3>1. CASE ListLanguage(s)
      BY <3>1 DEF ListLanguage, DiscoveryTyped, ScansTyped
    <3>2. CASE EndLanguage(s)
      BY <3>2 DEF EndLanguage, DiscoveryTyped, ScansTyped
    <3>3. CASE ScanSources(s)
      BY <3>3 DEF ScanSources, Go, DiscoveryTyped, ScansTyped
    <3> QED
      BY <1>2, <3>1, <3>2, <3>3
  <2>2. \A t \in Titles : candidate'[t] = candidate[t]
    BY <1>2, <1>d DEF ListLanguage, EndLanguage, ScanSources, DiscoveryTyped, Candidates
  <2> QED
    BY <1>2, <2>1, <2>2 DEF ListLanguage, EndLanguage, ScanSources
<1>3. ASSUME NEW s \in Scans, NEW t \in Titles, TakeTitle(s, t)
      PROVE  Stands'
  <2>1. CASE Refused(t)
    <3>1. \A q \in Scans : scan'[q].title = scan[q].title
      BY <1>3, <2>1 DEF TakeTitle, DiscoveryTyped, ScansTyped
    <3> QED
      BY <1>3, <2>1, <3>1 DEF TakeTitle
  <2>2. CASE ~Refused(t)
    <3>1. \A q \in Scans : scan'[q].title = scan[q].title \/ scan'[q].title = t
      BY <1>3 DEF TakeTitle, DiscoveryTyped, ScansTyped
    <3>2. \A u \in Titles \ {t} : candidate'[u] = candidate[u]
      BY <1>3 DEF TakeTitle, DiscoveryTyped, Candidates
    <3>3. t \notin dismissals \ unsettled
      BY <2>2 DEF Refused
    <3> QED
      BY <1>3, <3>1, <3>2, <3>3 DEF TakeTitle
  <2> QED
    BY <2>1, <2>2
<1>4. ASSUME NEW s \in Scans, DecideTitle(s)
      PROVE  Stands'
  <2> DEFINE t == scan[s].title
  <2>1. t \in Titles
    BY <1>4 DEF DecideTitle, ScanAt, DiscoveryTyped, HandsFull, InHand
  <2>2. \A q \in Scans : scan'[q].title = scan[q].title \/ scan'[q].title = NoTitle
    <3>1. CASE Go(s, "import")
      BY <3>1 DEF Go, DiscoveryTyped, ScansTyped
    <3>2. CASE scan' = [scan EXCEPT ![s] = NextItem(s)]
      <4>1. scan'[s].title = NoTitle /\ \A q \in Scans \ {s} : scan'[q] = scan[q]
        BY <3>2, RunsTakeTheNext DEF DiscoveryTyped
      <4> QED
        BY <4>1
    <3> QED
      BY <1>4, <3>1, <3>2 DEF DecideTitle
  <2>3. \A u \in Titles \ {t} : candidate'[u] = candidate[u]
    BY <1>4, <2>1 DEF DecideTitle, MarkStale, DiscoveryTyped, Candidates
  <2>4. t \notin dismissals \ unsettled
    BY <2>1
  <2> QED
    BY <1>4, <2>2, <2>3, <2>4, <1>d DEF DecideTitle
<1>5. ASSUME NEW s \in Scans, ImportTitle(s)
      PROVE  Stands'
  <2>1. \A q \in Scans : scan'[q].title = scan[q].title
    BY <1>5 DEF ImportTitle, Go, DiscoveryTyped, ScansTyped
  <2> QED
    BY <1>5, <2>1 DEF ImportTitle
<1>6. ASSUME NEW s \in Scans, MarkImported(s) \/ FailTitle(s)
      PROVE  Stands'
  <2> DEFINE t == scan[s].title
  <2>1. t \in Titles
    BY <1>6 DEF MarkImported, FailTitle, ScanAt, DiscoveryTyped, HandsFull, InHand
  <2>2. \A q \in Scans : scan'[q].title = scan[q].title \/ scan'[q].title = NoTitle
    <3>1. scan'[s].title = NoTitle /\ \A q \in Scans \ {s} : scan'[q] = scan[q]
      BY <1>6, RunsTakeTheNext DEF MarkImported, FailTitle, DiscoveryTyped
    <3> QED
      BY <3>1
  <2>3. \A u \in Titles \ {t} : candidate'[u] = candidate[u]
    BY <1>6, <2>1 DEF MarkImported, FailTitle, DiscoveryTyped, Candidates
  <2>4. t \notin dismissals \ unsettled
    BY <2>1
  <2> QED
    BY <1>6, <2>2, <2>3, <2>4, <1>d DEF MarkImported, FailTitle
<1>7. ASSUME NEW s \in Scans, FinishScan(s) \/ ScanDies(s)
      PROVE  Stands'
  <2>1. \A q \in Scans : scan'[q].title = scan[q].title \/ scan'[q].title = NoTitle
    BY <1>7 DEF FinishScan, ScanDies, Scan0, DiscoveryTyped, ScansTyped
  <2> QED
    BY <1>7, <2>1, <1>d DEF FinishScan, ScanDies
<1>8. ASSUME NEW k \in Candidates, DismissCandidate(k)
      PROVE  Stands'
  <2>1. \A u \in Candidates : candidate'[u] = IF u = k THEN "IGNORED" ELSE candidate[u]
    BY <1>8 DEF DismissCandidate, DiscoveryTyped
  <2>2. k \in unsettled' \/ \A s \in Scans : ~Handles(s, k)
    BY <1>8 DEF DismissCandidate, Held
  <2> QED
    BY <1>8, <2>1, <2>2 DEF DismissCandidate, Candidates
<1>9. ASSUME NEW k \in Candidates, MatchCandidate(k)
      PROVE  Stands'
  <2>1. \A u \in Candidates \ {k} : candidate'[u] = candidate[u]
    BY <1>9 DEF MatchCandidate, DiscoveryTyped
  <2> QED
    BY <1>9, <2>1 DEF MatchCandidate, Candidates
<1>10. ASSUME NEW u \in Others, ImportElsewhere(u)
       PROVE  Stands'
  BY <1>10 DEF ImportElsewhere
<1>11. CASE UNCHANGED discoveryVars
  BY <1>11 DEF discoveryVars
<1> QED
  BY <1>1, <1>2, <1>3, <1>4, <1>5, <1>6, <1>7, <1>8, <1>9, <1>10, <1>11 DEF DiscoveryNext

(* What an administrator dismissed stays dismissed through every later     *)
(* scan, unless a run had the title in hand (_process_tmdb_candidate).     *)
THEOREM DismissalsStand == DiscoverySpec => []DismissalStands
<1>1. DiscoveryInit => Stands
  BY DEF DiscoveryInit, Stands
<1>2. Stands => DismissalStands
  BY DEF Stands, DismissalStands
<1> QED
  BY <1>1, <1>2, TypedAtFirst, TypedStep, StandsStep, PTL DEF DiscoverySpec

-----------------------------------------------------------------------------
(* Of a film nobody contested, one title at most is in the catalogue or    *)
(* about to be, as long as one look takes its shelf; several runs may be   *)
(* about to import that same title.                                        *)
ToImport(s) == scan[s].at = "import"
InSight(t) == Cardinality(Shelf(t)) <= MatchWindow
OneTitlePerFilm ==
  /\ FilmImportedOnce
  /\ \A s \in Scans : ToImport(s) /\ scan[s].title \notin imported
                                   /\ FilmOf[scan[s].title] \notin contested =>
       /\ InSight(scan[s].title) => Matches(imported, scan[s].title) = {}
       /\ \A q \in Scans : ToImport(q) /\ FilmOf[scan[q].title] = FilmOf[scan[s].title]
                             => scan[q].title = scan[s].title

(* Shelves only fill up.                                                   *)
LEMMA ShelvesGrow ==
  ASSUME DiscoveryTyped, DiscoveryTyped', imported \subseteq imported', NEW t
  PROVE  /\ Cardinality(Shelf(t)) \in Nat /\ Cardinality(Shelf(t) \ {t}) \in Nat
         /\ InSight(t)' => InSight(t)
         /\ Cardinality(Shelf(t) \ {t})' <= MatchWindow => Cardinality(Shelf(t) \ {t}) <= MatchWindow
<1>1. IsFiniteSet(Shelf(t)') /\ IsFiniteSet((Shelf(t) \ {t})')
  <2>1. Shelf(t)' \subseteq Titles \cup Others /\ (Shelf(t) \ {t})' \subseteq Titles \cup Others
    BY DEF Shelf, DiscoveryTyped
  <2> QED
    BY <2>1, DiscoveryAssumption, FS_Subset
<1>2. Shelf(t) \subseteq Shelf(t)' /\ (Shelf(t) \ {t}) \subseteq (Shelf(t) \ {t})'
  BY DEF Shelf
<1>3. /\ IsFiniteSet(Shelf(t)) /\ Cardinality(Shelf(t)) <= Cardinality(Shelf(t)')
      /\ IsFiniteSet(Shelf(t) \ {t}) /\ Cardinality(Shelf(t) \ {t}) <= Cardinality((Shelf(t) \ {t})')
  BY <1>1, <1>2, FS_Subset
<1>4. /\ Cardinality(Shelf(t)) \in Nat /\ Cardinality(Shelf(t)') \in Nat
      /\ Cardinality(Shelf(t) \ {t}) \in Nat /\ Cardinality((Shelf(t) \ {t})') \in Nat
  BY <1>1, <1>3, FS_CardinalityType
<1> QED
  BY <1>3, <1>4, DiscoveryAssumption DEF InSight

(* A film known by one title at most is known by none, unless one look     *)
(* finds the one.                                                          *)
LEMMA NoneOrOne ==
  ASSUME DiscoveryTyped, FilmImportedOnce, NEW t \in Titles, t \notin imported,
         FilmOf[t] \notin contested, InSight(t),
         NEW seen \in Looks(t), Cardinality(Matches(seen, t)) # 1
  PROVE  Matches(imported, t) = {}
<1>1. seen = Shelf(t)
  BY DEF InSight, Looks
<1>2. ASSUME NEW u \in Matches(imported, t)
      PROVE  FALSE
  <2>1. u \in Titles \cup Others /\ FilmOf[u] = FilmOf[t] /\ ShelfOf[u] = ShelfOf[t] /\ u \in imported
    BY <1>2, DiscoveryAssumption DEF Matches, DiscoveryTyped
  <2>2. ASSUME NEW v \in imported, FilmOf[v] = FilmOf[t] PROVE v = u
    <3>1. ShelfOf[v] = ShelfOf[t] /\ v \in Titles \cup Others
      BY <2>2, DiscoveryAssumption DEF DiscoveryTyped
    <3>2. Shelf(v) = Shelf(t)
      BY <3>1 DEF Shelf
    <3>3. Cardinality(Shelf(t) \ {v}) <= MatchWindow
      <4>1. IsFiniteSet(Shelf(t))
        BY DiscoveryAssumption, FS_Subset DEF Shelf, DiscoveryTyped
      <4>2. /\ IsFiniteSet(Shelf(t) \ {v}) /\ Cardinality(Shelf(t) \ {v}) <= Cardinality(Shelf(t))
        BY <4>1, FS_Subset
      <4>3. Cardinality(Shelf(t) \ {v}) \in Nat /\ Cardinality(Shelf(t)) \in Nat
        BY <4>1, <4>2, FS_CardinalityType
      <4> QED
        BY <4>2, <4>3, DiscoveryAssumption DEF InSight
    <3> QED
      BY <2>1, <2>2, <3>2, <3>3 DEF FilmImportedOnce
  <2>3. Matches(seen, t) = {u}
    BY <1>1, <2>1, <2>2 DEF Matches, Shelf
  <2> QED
    BY <2>3, FS_Singleton
<1> QED
  BY <1>2

LEMMA OneTitleKept ==
  ASSUME DiscoveryTyped, OneTitlePerFilm, imported' = imported, contested' = contested,
         \A q \in Scans : ToImport(q)' => ToImport(q) /\ scan'[q].title = scan[q].title
  PROVE  OneTitlePerFilm'
<1>1. \A t : Shelf(t)' = Shelf(t) /\ InSight(t)' = InSight(t)
  BY DEF Shelf, InSight
<1>2. FilmImportedOnce'
  BY <1>1 DEF OneTitlePerFilm, FilmImportedOnce, Shelf
<1> QED
  BY <1>1, <1>2 DEF OneTitlePerFilm, Matches

LEMMA OneTitleDecide ==
  ASSUME DiscoveryTyped, OneTitlePerFilm, NEW s \in Scans, DecideTitle(s)
  PROVE  OneTitlePerFilm'
<1> DEFINE t == scan[s].title
<1>1. t \in Titles
  BY DEF DecideTitle, ScanAt, DiscoveryTyped, HandsFull, InHand
<1>2. contested \subseteq contested' /\ imported' = imported
  BY DEF DecideTitle
<1>3. FilmImportedOnce'
  BY <1>2 DEF OneTitlePerFilm, FilmImportedOnce, Shelf
<1>4. \A q \in Scans \ {s} : scan'[q] = scan[q]
  BY DEF DecideTitle, Go, DiscoveryTyped, ScansTyped
<1>5. ~ToImport(s)
  BY DEF DecideTitle, ScanAt, ToImport
<1>a. \A v : (InSight(v)' <=> InSight(v)) /\ Matches(imported, v)' = Matches(imported, v)
  BY <1>2 DEF InSight, Shelf, Matches
<1>6. CASE scan' = [scan EXCEPT ![s] = NextItem(s)]
  <2>1. ~ToImport(s)'
    BY <1>6, RunsTakeTheNext DEF DiscoveryTyped, ToImport
  <2> QED
    BY <1>2, <1>3, <1>4, <1>a, <2>1 DEF OneTitlePerFilm, ToImport
<1>7. CASE Go(s, "import") /\ \E seen \in Looks(t) : Cardinality(Matches(seen, t)) # 1
  <2>1. scan'[s].title = t
    BY <1>7 DEF Go, DiscoveryTyped, ScansTyped
  <2>2. CASE FilmOf[t] \in contested' \/ t \in imported
    <3>1. ASSUME NEW q \in Scans, ToImport(q)', scan'[q].title \notin imported',
                 FilmOf[scan'[q].title] \notin contested'
          PROVE  /\ q # s /\ scan'[q] = scan[q] /\ ToImport(q)
                 /\ scan[q].title \notin imported /\ FilmOf[scan[q].title] \notin contested
      BY <1>2, <1>4, <2>1, <2>2, <3>1 DEF ToImport
    <3>2. CASE FilmOf[t] \in contested'
      BY <1>2, <1>3, <1>4, <1>a, <2>1, <3>1, <3>2 DEF OneTitlePerFilm, ToImport
    <3>3. CASE FilmOf[t] \notin contested' /\ t \in imported
      <4>1. Rivals(s, t) = {}
        BY <3>3 DEF DecideTitle
      <4>2. \A q \in Scans \ {s} : ToImport(q) /\ FilmOf[scan[q].title] = FilmOf[t] => scan[q].title = t
        BY <4>1 DEF Rivals, ScanAt, ToImport
      <4> QED
        BY <1>2, <1>3, <1>4, <1>a, <2>1, <3>1, <3>3, <4>2 DEF OneTitlePerFilm, ToImport
    <3> QED
      BY <2>2, <3>2, <3>3
  <2>3. CASE FilmOf[t] \notin contested' /\ t \notin imported
    <3>1. Rivals(s, t) = {}
      BY <2>3 DEF DecideTitle
    <3>2. \A q \in Scans \ {s} : ToImport(q) /\ FilmOf[scan[q].title] = FilmOf[t] => scan[q].title = t
      BY <3>1 DEF Rivals, ScanAt, ToImport
    <3>3. InSight(t) => Matches(imported, t) = {}
      BY <1>1, <1>2, <1>7, <2>3, NoneOrOne DEF OneTitlePerFilm
    <3> QED
      BY <1>2, <1>3, <1>4, <1>a, <2>1, <3>2, <3>3 DEF OneTitlePerFilm, ToImport
  <2> QED
    BY <2>2, <2>3
<1> QED
  BY <1>6, <1>7 DEF DecideTitle

LEMMA OneTitleImport ==
  ASSUME DiscoveryTyped, DiscoveryTyped', OneTitlePerFilm, NEW s \in Scans, ImportTitle(s)
  PROVE  OneTitlePerFilm'
<1>t. PICK t \in Titles : t = scan[s].title
  BY DEF ImportTitle, ScanAt, DiscoveryTyped, HandsFull, InHand
<1>1. /\ ToImport(s) /\ t \notin imported /\ imported' = imported \cup {t}
      /\ contested' = contested
  BY <1>t DEF ImportTitle, ScanAt, ToImport
<1>2. \A q \in Scans \ {s} : scan'[q] = scan[q]
  BY DEF ImportTitle, Go, DiscoveryTyped, ScansTyped
<1>3. ~ToImport(s)'
  BY DEF ImportTitle, Go, ToImport, DiscoveryTyped, ScansTyped
<1>4. FilmOf[t] \notin contested /\ InSight(t) => Matches(imported, t) = {}
  BY <1>1, <1>t DEF OneTitlePerFilm
<1>a. \A v : /\ InSight(v)' => InSight(v)
             /\ Cardinality(Shelf(v) \ {v})' <= MatchWindow => Cardinality(Shelf(v) \ {v}) <= MatchWindow
  BY <1>1, ShelvesGrow
<1>5. FilmImportedOnce'
  <2>0. imported' \subseteq Titles \cup Others
    BY DEF DiscoveryTyped
  <2> SUFFICES ASSUME NEW v \in Titles \cup Others, NEW u \in Titles \cup Others,
                      v \in imported', u \in imported', FilmOf[v] = FilmOf[u],
                      FilmOf[v] \notin contested', Cardinality(Shelf(v) \ {v})' <= MatchWindow
               PROVE  v = u
    BY <2>0 DEF FilmImportedOnce
  <2>1. CASE v \in imported /\ u \in imported
    BY <1>1, <1>a, <2>1 DEF OneTitlePerFilm, FilmImportedOnce
  <2>2. CASE v = t /\ u \in imported
    <3>1. (Shelf(t) \ {t})' = Shelf(t)
      BY <1>1 DEF Shelf
    <3>2. InSight(t)
      BY <2>2, <3>1 DEF InSight
    <3> QED
      BY <1>1, <1>4, <2>2, <3>2 DEF Matches
  <2>3. CASE u = t /\ v \in imported
    <3>1. v \in Titles \cup Others /\ ShelfOf[v] = ShelfOf[t]
      BY <1>t, <2>3, DiscoveryAssumption DEF DiscoveryTyped
    <3>2. v \in Shelf(t) /\ t \notin Shelf(t) /\ (Shelf(v) \ {v})' = (Shelf(t) \ {v}) \cup {t}
      BY <1>1, <2>3, <3>1 DEF Shelf
    <3>3. IsFiniteSet(Shelf(t))
      BY DiscoveryAssumption, FS_Subset DEF Shelf, DiscoveryTyped
    <3>4. IsFiniteSet(Shelf(t) \ {v}) /\ Cardinality(Shelf(t) \ {v}) = Cardinality(Shelf(t)) - 1
      BY <3>2, <3>3, FS_RemoveElement
    <3>5. Cardinality((Shelf(t) \ {v}) \cup {t}) = Cardinality(Shelf(t) \ {v}) + 1
      BY <3>2, <3>4, FS_AddElement
    <3>6. InSight(t)
      <4>1. Cardinality(Shelf(t)) \in Nat
        BY <3>3, FS_CardinalityType
      <4>2. Cardinality((Shelf(v) \ {v})') = Cardinality(Shelf(t))
        <5>1. Cardinality((Shelf(v) \ {v})') = Cardinality((Shelf(t) \ {v}) \cup {t})
          BY <3>2
        <5> QED
          BY <3>4, <3>5, <4>1, <5>1
      <4>3. Cardinality((Shelf(v) \ {v})') <= MatchWindow
        OBVIOUS
      <4> QED
        BY <4>2, <4>3 DEF InSight
    <3> QED
      BY <1>1, <1>4, <2>3, <3>6 DEF Matches
  <2> QED
    BY <1>1, <2>1, <2>2, <2>3
<1>6. ASSUME NEW q \in Scans, ToImport(q)', NEW y, y = scan'[q].title, y \notin imported',
             FilmOf[y] \notin contested'
      PROVE  /\ InSight(y)' => Matches(imported, y)' = {}
             /\ \A o \in Scans : ToImport(o)' /\ FilmOf[scan'[o].title] = FilmOf[y]
                                   => scan'[o].title = y
  <2>1. q # s /\ scan'[q] = scan[q] /\ ToImport(q) /\ y = scan[q].title
    BY <1>2, <1>3, <1>6 DEF ToImport
  <2>2. y \notin imported /\ y # t
    BY <1>1, <1>6
  <2>3. /\ InSight(y) => Matches(imported, y) = {}
        /\ \A o \in Scans : ToImport(o) /\ FilmOf[scan[o].title] = FilmOf[y] => scan[o].title = y
    BY <1>1, <1>6, <2>1, <2>2 DEF OneTitlePerFilm
  <2>4. FilmOf[y] # FilmOf[t]
    BY <1>1, <1>t, <2>2, <2>3
  <2>5. Matches(imported, y)' = Matches(imported, y)
    BY <1>1, <2>4 DEF Matches
  <2>6. \A o \in Scans : ToImport(o)' => ToImport(o) /\ scan'[o] = scan[o]
    BY <1>2, <1>3 DEF ToImport
  <2> QED
    BY <1>a, <2>3, <2>5, <2>6
<1>7. \A q \in Scans : ToImport(q)' /\ scan'[q].title \notin imported'
                         /\ FilmOf[scan'[q].title] \notin contested' =>
        /\ (InSight(scan[q].title) => Matches(imported, scan[q].title) = {})'
        /\ \A o \in Scans : ToImport(o)' /\ FilmOf[scan'[o].title] = FilmOf[scan'[q].title]
                              => scan'[o].title = scan'[q].title
  BY <1>6 DEF InSight, Shelf, Matches
<1> QED
  BY <1>5, <1>7 DEF OneTitlePerFilm

(* What another importer brings contests its film.                         *)
LEMMA OneTitleElsewhere ==
  ASSUME DiscoveryTyped, DiscoveryTyped', OneTitlePerFilm, NEW u \in Others, ImportElsewhere(u)
  PROVE  OneTitlePerFilm'
<1>1. /\ imported' = imported \cup {u} /\ contested' = contested \cup {FilmOf[u]} /\ scan' = scan
  BY DEF ImportElsewhere
<1>a. \A v : /\ InSight(v)' => InSight(v)
             /\ Cardinality(Shelf(v) \ {v})' <= MatchWindow => Cardinality(Shelf(v) \ {v}) <= MatchWindow
  BY <1>1, ShelvesGrow
<1>2. FilmImportedOnce'
  BY <1>1, <1>a DEF OneTitlePerFilm, FilmImportedOnce
<1>3. \A v : FilmOf[v] \notin contested' => Matches(imported, v)' = Matches(imported, v)
  BY <1>1 DEF Matches
<1> QED
  BY <1>1, <1>2, <1>3, <1>a DEF OneTitlePerFilm, ToImport

LEMMA OneTitleStep ==
  DiscoveryTyped /\ OneTitlePerFilm /\ [DiscoveryNext]_discoveryVars => OneTitlePerFilm'
<1> SUFFICES ASSUME DiscoveryTyped, OneTitlePerFilm, [DiscoveryNext]_discoveryVars
             PROVE  OneTitlePerFilm'
  OBVIOUS
<1> DEFINE Calm == /\ imported' = imported /\ contested' = contested
                   /\ \A q \in Scans : ToImport(q)' => ToImport(q) /\ scan'[q].title = scan[q].title
<1>a. Calm => OneTitlePerFilm'
  BY OneTitleKept
<1>1. ASSUME NEW s \in Scans, BeginScan(s) \/ RunDiscoveryNow(s)
      PROVE  Calm
  BY <1>1 DEF BeginScan, RunDiscoveryNow, Go, ToImport, DiscoveryTyped, ScansTyped
<1>2. ASSUME NEW s \in Scans, ListLanguage(s) \/ EndLanguage(s) \/ ScanSources(s)
      PROVE  Calm
  <2>1. CASE ListLanguage(s)
    BY <2>1 DEF ListLanguage, ToImport, DiscoveryTyped, ScansTyped
  <2>2. CASE EndLanguage(s)
    BY <2>2 DEF EndLanguage, ToImport, DiscoveryTyped, ScansTyped
  <2>3. CASE ScanSources(s)
    BY <2>3 DEF ScanSources, Go, ToImport, DiscoveryTyped, ScansTyped
  <2> QED
    BY <1>2, <2>1, <2>2, <2>3
<1>3. ASSUME NEW s \in Scans, NEW t \in Titles, TakeTitle(s, t)
      PROVE  Calm
  BY <1>3 DEF TakeTitle, ScanAt, ToImport, DiscoveryTyped, ScansTyped
<1>4. ASSUME NEW s \in Scans, MarkImported(s) \/ FailTitle(s)
      PROVE  Calm
  <2>1. scan'[s].at = "item" /\ \A q \in Scans \ {s} : scan'[q] = scan[q]
    BY <1>4, RunsTakeTheNext DEF MarkImported, FailTitle, DiscoveryTyped
  <2> QED
    BY <1>4, <2>1 DEF MarkImported, FailTitle, ToImport
<1>5. ASSUME NEW s \in Scans, FinishScan(s) \/ ScanDies(s)
      PROVE  Calm
  BY <1>5 DEF FinishScan, ScanDies, Scan0, ToImport, DiscoveryTyped, ScansTyped
<1>6. ASSUME NEW k \in Candidates, DismissCandidate(k) \/ MatchCandidate(k)
      PROVE  Calm
  BY <1>6 DEF DismissCandidate, MatchCandidate, ToImport
<1>7. ASSUME NEW u \in Others, ImportElsewhere(u)
      PROVE  OneTitlePerFilm'
  <2>1. DiscoveryTyped'
    BY <1>7, TypedStep DEF DiscoveryNext
  <2> QED
    BY <1>7, <2>1, OneTitleElsewhere
<1>8. CASE UNCHANGED discoveryVars
  <2>1. Calm
    BY <1>8 DEF discoveryVars, ToImport
  <2> QED
    BY <2>1, <1>a
<1> QED
  BY <1>a, <1>1, <1>2, <1>3, <1>4, <1>5, <1>6, <1>7, <1>8, TypedStep, OneTitleDecide, OneTitleImport DEF DiscoveryNext

(* Runs import a film under one TMDB id, whatever their number and the     *)
(* number of titles (_title_identity_match), unless two were about to      *)
(* import it together, another importer brought it too, or its language    *)
(* and year hold more movies than one look takes.                          *)
THEOREM FilmsImportedOnce == DiscoverySpec => []FilmImportedOnce
<1>1. DiscoveryInit => OneTitlePerFilm
  BY DEF DiscoveryInit, OneTitlePerFilm, FilmImportedOnce, ToImport, Scan0
<1>2. OneTitlePerFilm => FilmImportedOnce
  BY DEF OneTitlePerFilm
<1> QED
  BY <1>1, <1>2, TypedAtFirst, TypedStep, OneTitleStep, PTL DEF DiscoverySpec
-----------------------------------------------------------------------------
(* The catalogue.  Ids are given out once and stay with their film, and of *)
(* the rows that are committed or held by an importer no two are one film. *)
Enriching == [at : {"rest", "fetch", "save", "close"}, id : Nat, todo : SUBSET Nat, before : Nat,
              task : BOOLEAN, absent : BOOLEAN, free : BOOLEAN]
Importing == [at : {"rest", "choose", "block", "newest", "full"}, block : Blocks \cup {"none"},
              page : Nat, left : SUBSET Films, held : SUBSET Nat, done : SUBSET Blocks]

Flushed == visible \cup UNION {importer[i].held : i \in Importers}
RowsTyped ==
  /\ rows \in Seq(Films) /\ Flushed \subseteq DOMAIN rows /\ late \subseteq visible
  /\ \A m, n \in Flushed : rows[m] = rows[n] => m = n

(* What a session has before it is committed, in the order of the ids.     *)
EnricherPlaced(t) ==
  /\ t \in Enriching
  /\ t.at = "rest" => t = Resting
  /\ t.todo \subseteq visible /\ {t.id, t.before} \subseteq visible \cup {0}
  /\ \A n \in t.todo : t.before < n /\ (t.at = "save" => t.id <= n)
  /\ t.at = "save" => t.id \in t.todo
  /\ t.at = "close" => t.todo = {} /\ t.before # 0
  /\ ~t.task => t.before = 0

EnrichTyped ==
  /\ enricher \in [Enrichers -> Enriching] /\ \A e \in Enrichers : EnricherPlaced(enricher[e])
  /\ cursor \in 0 .. Len(rows)
  /\ identified \subseteq Stored /\ enriched \subseteq Stored /\ shared \subseteq Films
  /\ credits \in [Films -> Nat]

(* The credits stored and the sessions that will store one.                *)
Storing(f) == {e \in Enrichers : enricher[e].at = "save" /\ enricher[e].absent /\ FilmAt(e) = f}
CreditsCounted ==
  \A f \in Films : credits[f] + Cardinality(Storing(f)) <= Cardinality(Enrichers)

ImporterPlaced(t) ==
  /\ t \in Importing
  /\ t.at \in {"rest", "choose"} => t.left = {} /\ t.held = {}
  /\ t.at = "block" => t.block \in Blocks /\ t.page \in Nat \ {0}
  /\ t.at \in {"newest", "full"} => t.page \in DOMAIN Newest
  /\ t.held \cap visible = {} /\ t.left \cap FilmsOf(t.held) = {}

ImportTyped ==
  /\ importer \in [Importers -> Importing] /\ \A i \in Importers : ImporterPlaced(importer[i])
  /\ \A i, j \in Importers : i # j => importer[i].held \cap importer[j].held = {}
  /\ checkpoint \subseteq Blocks /\ torn \subseteq Blocks
  /\ imports \in 0 .. MaxImports

CatalogueTyped == RowsTyped /\ EnrichTyped /\ CreditsCounted /\ ImportTyped

(* What a run of the task has passed and what the cursor has passed was    *)
(* enriched, but for what came late.                                       *)
Enriched(t) ==
  t.task => \A id \in visible \ late, n \in t.todo \cup {t.before} :
              id <= n => rows[id] \in enriched \/ id \in t.todo
EnrichWork ==
  /\ \A id \in visible \ late : id <= cursor => rows[id] \in enriched
  /\ \A e \in Enrichers : Enriched(enricher[e])

(* What an importer passed is stored, and what it passed on its page is    *)
(* stored or held, unless the block lost a page.                           *)
BlockStored(b) == \A p \in DOMAIN Pages[b] : Pages[b][p] \subseteq Stored
Imported(t) ==
  /\ \A b \in t.done \ torn : BlockStored(b)
  /\ t.at = "block" /\ t.block \notin torn =>
       \A p \in DOMAIN Pages[t.block] :
         /\ p < t.page => Pages[t.block][p] \subseteq Stored
         /\ p = t.page => Pages[t.block][p] \subseteq t.left \cup Stored \cup FilmsOf(t.held)
ImportWork ==
  /\ \A b \in checkpoint \ torn : BlockStored(b)
  /\ \A i \in Importers : Imported(importer[i])

(* One session at most is about to store the credits of a movie.           *)
OneStores ==
  \A f \in Films \ shared :
    /\ credits[f] <= 1
    /\ \A e \in Enrichers : enricher[e].at = "save" /\ FilmAt(e) = f =>
         /\ enricher[e].absent => credits[f] = 0
         /\ \A d \in Enrichers : enricher[d].at = "save" /\ FilmAt(d) = f => d = e

CatalogueInv == CatalogueTyped /\ EnrichWork /\ ImportWork /\ OneStores

LEMMA RowsFacts ==
  ASSUME RowsTyped
  PROVE  /\ DOMAIN rows = 1 .. Len(rows) /\ Len(rows) \in Nat
         /\ visible \subseteq DOMAIN rows /\ visible \subseteq Nat \ {0} /\ visible \subseteq Flushed
         /\ \A i \in DOMAIN rows : rows[i] \in Films
         /\ \A id \in visible : rows[id] \in Stored /\ rows[id] \in Films
<1>1. DOMAIN rows = 1 .. Len(rows) /\ Len(rows) \in Nat /\ \A i \in DOMAIN rows : rows[i] \in Films
  BY DEF RowsTyped
<1>2. visible \subseteq DOMAIN rows /\ visible \subseteq Flushed
  BY DEF RowsTyped, Flushed
<1> QED
  BY <1>1, <1>2 DEF Stored, FilmsOf

LEMMA StoringSome ==
  ASSUME NEW f, NEW S \in SUBSET Enrichers
  PROVE  /\ IsFiniteSet(S) /\ Cardinality(S) \in Nat /\ Cardinality(S) <= Cardinality(Enrichers)
         /\ Cardinality(Enrichers) \in Nat
         /\ \A T \in SUBSET S : Cardinality(T) \in Nat /\ Cardinality(T) <= Cardinality(S)
BY CatalogueAssumption, FS_Subset, FS_CardinalityType

LEMMA FilmsHeld ==
  ASSUME RowsTyped, EnrichTyped
  PROVE  \A e \in Enrichers : enricher[e].at = "save" =>
           enricher[e].id \in visible /\ FilmAt(e) \in Stored /\ FilmAt(e) \in Films
BY RowsFacts DEF EnrichTyped, EnricherPlaced, FilmAt

LEMMA CatalogueInvInit == CatalogueInit => CatalogueInv
<1> SUFFICES ASSUME CatalogueInit PROVE CatalogueInv
  OBVIOUS
<1>1. /\ rows = <<>> /\ visible = {} /\ late = {} /\ DOMAIN rows = {} /\ Len(rows) = 0
      /\ cursor = 0 /\ checkpoint = {} /\ torn = {} /\ identified = {} /\ enriched = {} /\ shared = {}
      /\ credits = [f \in Films |-> 0] /\ imports = 0
      /\ enricher = [e \in Enrichers |-> Resting] /\ importer = [i \in Importers |-> NoImport]
  BY DEF CatalogueInit
<1>2. Flushed = {}
  BY <1>1 DEF Flushed, NoImport
<1>3. RowsTyped
  BY <1>1, <1>2 DEF RowsTyped
<1>4. EnrichTyped
  BY <1>1 DEF EnrichTyped, EnricherPlaced, Resting, Enriching
<1>5. CreditsCounted
  <2>1. \A f \in Films : Storing(f) = {} /\ credits[f] = 0
    BY <1>1 DEF Storing, Resting
  <2>2. Cardinality({}) = 0 /\ Cardinality(Enrichers) \in Nat
    BY CatalogueAssumption, FS_EmptySet, FS_CardinalityType
  <2> QED
    BY <2>1, <2>2 DEF CreditsCounted
<1>6. ImportTyped
  BY <1>1, CatalogueAssumption DEF ImportTyped, ImporterPlaced, NoImport, Importing
<1>7. EnrichWork /\ ImportWork /\ OneStores
  BY <1>1 DEF EnrichWork, Enriched, ImportWork, Imported, OneStores, Resting, NoImport
<1> QED
  BY <1>3, <1>4, <1>5, <1>6, <1>7 DEF CatalogueInv, CatalogueTyped

-----------------------------------------------------------------------------
(* A session moves on; the importers are where they were.                  *)
LEMMA SessionMoves ==
  ASSUME CatalogueInv, NEW e \in Enrichers, NEW task, EnricherPlaced(task),
         enricher' = [enricher EXCEPT ![e] = task],
         UNCHANGED <<rows, visible, importer, checkpoint, imports, late, torn>>,
         cursor' \in 0 .. Len(rows), identified' \subseteq Stored,
         enriched \subseteq enriched', enriched' \subseteq Stored,
         shared' \subseteq Films, credits' \in [Films -> Nat],
         \A id \in visible \ late : id <= cursor' => rows[id] \in enriched',
         task.task => \A id \in visible \ late, n \in task.todo \cup {task.before} :
                        id <= n => rows[id] \in enriched' \/ id \in task.todo,
         CreditsCounted', OneStores'
  PROVE  CatalogueInv'
<1>1. /\ enricher' \in [Enrichers -> Enriching] /\ enricher'[e] = task
      /\ \A d \in Enrichers \ {e} : enricher'[d] = enricher[d]
  BY DEF CatalogueInv, CatalogueTyped, EnrichTyped, EnricherPlaced
<1>2. Stored' = Stored /\ Flushed' = Flushed /\ \A S : FilmsOf(S)' = FilmsOf(S)
  BY DEF Stored, Flushed, FilmsOf
<1>3. RowsTyped'
  BY <1>2 DEF CatalogueInv, CatalogueTyped, RowsTyped
<1>4. \A d \in Enrichers : EnricherPlaced(enricher[d])'
  BY <1>1 DEF CatalogueInv, CatalogueTyped, EnrichTyped, EnricherPlaced
<1>5. EnrichTyped'
  BY <1>1, <1>2, <1>4 DEF EnrichTyped
<1>6. ImportTyped'
  BY <1>2 DEF CatalogueInv, CatalogueTyped, ImportTyped, ImporterPlaced
<1>7. ImportWork'
  BY <1>2 DEF CatalogueInv, ImportWork, Imported, BlockStored
<1>8. ASSUME NEW d \in Enrichers PROVE Enriched(enricher[d])'
  <2>1. CASE d = e
    BY <1>1, <2>1 DEF Enriched
  <2>2. CASE d # e
    <3>1. Enriched(enricher[d]) /\ enricher'[d] = enricher[d]
      BY <1>1, <2>2 DEF CatalogueInv, EnrichWork
    <3> QED
      BY <3>1 DEF Enriched
  <2> QED
    BY <2>1, <2>2
<1>9. EnrichWork'
  BY <1>8 DEF EnrichWork
<1> QED
  BY <1>3, <1>5, <1>6, <1>7, <1>9 DEF CatalogueInv, CatalogueTyped

(* A session that is not about to store a credit after its step.           *)
LEMMA OneStoresFewer ==
  ASSUME CatalogueInv, NEW e \in Enrichers, NEW task, task.at # "save",
         enricher' = [enricher EXCEPT ![e] = task], UNCHANGED <<rows, credits, shared>>
  PROVE  CreditsCounted' /\ OneStores'
<1>1. \A d \in Enrichers : enricher'[d].at = "save" =>
        d # e /\ enricher'[d] = enricher[d] /\ FilmAt(d)' = FilmAt(d)
  BY DEF CatalogueInv, CatalogueTyped, EnrichTyped, FilmAt
<1>2. OneStores'
  BY <1>1 DEF CatalogueInv, OneStores
<1>3. ASSUME NEW f \in Films PROVE credits[f] + Cardinality(Storing(f)') <= Cardinality(Enrichers)
  <2>1. Storing(f) \subseteq Enrichers /\ Storing(f)' \subseteq Storing(f)
    BY <1>1 DEF Storing
  <2>2. credits[f] \in Nat /\ credits[f] + Cardinality(Storing(f)) <= Cardinality(Enrichers)
    BY DEF CatalogueInv, CatalogueTyped, EnrichTyped, CreditsCounted
  <2> QED
    BY <2>1, <2>2, StoringSome
<1> QED
  BY <1>2, <1>3 DEF CreditsCounted

LEMMA TakeBatchStep == ASSUME CatalogueInv, NEW e \in Enrichers, TakeBatch(e) PROVE CatalogueInv'
<1> DEFINE ahead == {id \in visible : id > cursor}
<1>1. /\ enricher[e].at = "rest"
      /\ UNCHANGED <<rows, visible, identified, credits, importer, checkpoint, imports, enriched,
                     shared, torn>>
  BY DEF TakeBatch
<1>2. /\ visible \subseteq Nat \ {0} /\ cursor \in 0 .. Len(rows) /\ Len(rows) \in Nat
      /\ identified \subseteq Stored /\ enriched \subseteq Stored /\ shared \subseteq Films
      /\ credits \in [Films -> Nat] /\ enricher \in [Enrichers -> Enriching]
      /\ enricher[e] = Resting
  BY <1>1, RowsFacts DEF CatalogueInv, CatalogueTyped, EnrichTyped, EnricherPlaced
<1>3. CASE ahead = {}
  <2>1. /\ cursor' = 0 /\ UNCHANGED enricher /\ late' \subseteq late
        /\ (\E d \in Enrichers : enricher[d].task) => late' = late
    BY <1>3 DEF TakeBatch
  <2>2. Stored' = Stored /\ Flushed' = Flushed /\ \A S : FilmsOf(S)' = FilmsOf(S)
    BY <1>1 DEF Stored, Flushed, FilmsOf
  <2>3. RowsTyped' /\ EnrichTyped' /\ ImportTyped' /\ ImportWork'
    <3>1. RowsTyped'
      BY <1>1, <2>1, <2>2 DEF CatalogueInv, CatalogueTyped, RowsTyped
    <3>2. EnrichTyped'
      BY <1>1, <1>2, <2>1, <2>2 DEF CatalogueInv, CatalogueTyped, EnrichTyped, EnricherPlaced
    <3>3. ImportTyped'
      BY <1>1, <2>2 DEF CatalogueInv, CatalogueTyped, ImportTyped, ImporterPlaced
    <3>4. ImportWork'
      BY <1>1, <2>2 DEF CatalogueInv, ImportWork, Imported, BlockStored
    <3> QED
      BY <3>1, <3>2, <3>3, <3>4
  <2>4. CreditsCounted' /\ OneStores'
    BY <1>1, <2>1 DEF CatalogueInv, CatalogueTyped, CreditsCounted, OneStores, Storing, FilmAt
  <2>5. EnrichWork'
    <3>1. \A id \in visible' : ~(id <= cursor')
      BY <1>1, <1>2, <2>1
    <3>2. ASSUME NEW d \in Enrichers PROVE Enriched(enricher[d])'
      BY <1>1, <2>1 DEF CatalogueInv, EnrichWork, Enriched
    <3> QED
      BY <3>1, <3>2 DEF EnrichWork
  <2> QED
    BY <2>3, <2>4, <2>5 DEF CatalogueInv, CatalogueTyped
<1>4. CASE ahead # {}
  <2>1. PICK batch \in FirstOf(ahead) :
          enricher' = [enricher EXCEPT ![e] = [Resting EXCEPT !.at = "fetch", !.todo = batch, !.task = TRUE]]
    BY <1>4 DEF TakeBatch
  <2>2. UNCHANGED <<cursor, late>>
    BY <1>4 DEF TakeBatch
  <2>3. batch \subseteq ahead /\ \A m \in batch, n \in ahead \ batch : m < n
    BY DEF FirstOf
  <2> DEFINE task == [Resting EXCEPT !.at = "fetch", !.todo = batch, !.task = TRUE]
  <2>4. batch \subseteq visible /\ batch \subseteq Nat /\ \A n \in batch : 0 < n
    BY <1>2, <2>3
  <2>5. EnricherPlaced(task) /\ task.at # "save" /\ task.todo = batch /\ task.before = 0
    BY <2>4 DEF EnricherPlaced, Enriching, Resting
  <2>6. \A id \in visible \ late : id <= cursor' => rows[id] \in enriched'
    BY <1>1, <2>2 DEF CatalogueInv, EnrichWork
  <2>7. ASSUME NEW id \in visible \ late, NEW n \in batch \cup {0}, id <= n
        PROVE  rows[id] \in enriched' \/ id \in batch
    <3>1. id \in Nat /\ id # 0
      BY <1>2
    <3>2. n \in batch
      BY <2>7, <3>1
    <3>3. CASE id <= cursor
      BY <2>6, <3>3, <2>2
    <3>4. CASE ~(id <= cursor)
      <4>1. id \in ahead
        BY <1>2, <3>1, <3>4
      <4> HIDE DEF ahead
      <4>2. id \notin batch => n < id
        BY <2>3, <3>2, <4>1
      <4> QED
        BY <2>4, <2>7, <3>1, <3>2, <4>2
    <3> QED
      BY <3>3, <3>4
  <2>8. CreditsCounted' /\ OneStores'
    BY <1>1, <2>1, <2>5, OneStoresFewer
  <2> HIDE DEF task
  <2>9. enricher' = [enricher EXCEPT ![e] = task]
    BY <2>1 DEF task
  <2> QED
    BY <1>1, <1>2, <2>2, <2>5, <2>6, <2>7, <2>8, <2>9, SessionMoves
<1> QED
  BY <1>3, <1>4

LEMMA TakeOneStep ==
  ASSUME CatalogueInv, NEW e \in Enrichers, NEW id \in visible, TakeOne(e, id)
  PROVE  CatalogueInv'
<1> DEFINE task == [Resting EXCEPT !.at = "fetch", !.todo = {id}]
<1>1. /\ enricher' = [enricher EXCEPT ![e] = task]
      /\ UNCHANGED <<rows, visible, identified, credits, cursor, importer, checkpoint, imports,
                     enriched, late, shared, torn>>
  BY DEF TakeOne
<1>2. /\ id \in Nat \ {0} /\ cursor \in 0 .. Len(rows)
      /\ identified \subseteq Stored /\ enriched \subseteq Stored /\ shared \subseteq Films
      /\ credits \in [Films -> Nat]
      /\ \A n \in visible \ late : n <= cursor => rows[n] \in enriched
  BY RowsFacts DEF CatalogueInv, CatalogueTyped, EnrichTyped, EnrichWork
<1>3. EnricherPlaced(task) /\ task.at # "save" /\ ~task.task
  <2>1. /\ task \in Enriching /\ task.at = "fetch" /\ task.todo = {id} /\ task.id = 0
        /\ task.before = 0 /\ task.task = FALSE
    BY <1>2 DEF Enriching, Resting
  <2> HIDE DEF task
  <2> QED
    BY <1>2, <2>1 DEF EnricherPlaced
<1> HIDE DEF task
<1>4. CreditsCounted' /\ OneStores'
  BY <1>1, <1>3, OneStoresFewer
<1> QED
  BY <1>1, <1>2, <1>3, <1>4, SessionMoves

LEMMA LeaveStep ==
  ASSUME CatalogueInv, NEW e \in Enrichers, CloseBatch(e) \/ EnricherStops(e)
  PROVE  CatalogueInv'
<1>1. /\ enricher' = [enricher EXCEPT ![e] = Resting]
      /\ UNCHANGED <<rows, visible, identified, credits, importer, checkpoint, imports,
                     enriched, late, shared, torn>>
  BY DEF CloseBatch, EnricherStops
<1>2. /\ identified \subseteq Stored /\ enriched \subseteq Stored /\ shared \subseteq Films
      /\ credits \in [Films -> Nat] /\ EnricherPlaced(enricher[e]) /\ cursor \in 0 .. Len(rows)
      /\ visible \subseteq 1 .. Len(rows) /\ Len(rows) \in Nat
  BY RowsFacts DEF CatalogueInv, CatalogueTyped, EnrichTyped
<1>3. EnricherPlaced(Resting) /\ Resting.at # "save" /\ ~Resting.task
  BY DEF EnricherPlaced, Enriching, Resting
<1>4. cursor' \in 0 .. Len(rows) /\ \A id \in visible \ late : id <= cursor' => rows[id] \in enriched
  <2>1. CASE EnricherStops(e)
    BY <1>2, <2>1 DEF EnricherStops, CatalogueInv, EnrichWork
  <2>2. CASE CloseBatch(e)
    <3>1. cursor' = enricher[e].before /\ enricher[e].at = "close"
      BY <2>2 DEF CloseBatch
    <3>2. enricher[e].task /\ enricher[e].todo = {}
      BY <1>2, <3>1 DEF EnricherPlaced
    <3>3. Enriched(enricher[e])
      BY DEF CatalogueInv, EnrichWork
    <3>4. \A id \in visible \ late, n \in enricher[e].todo \cup {enricher[e].before} :
            id <= n => rows[id] \in enriched \/ id \in enricher[e].todo
      BY <3>2, <3>3, Zenon DEF Enriched
    <3>5. \A id \in visible \ late : id <= enricher[e].before => rows[id] \in enriched
      BY <3>2, <3>4
    <3>6. enricher[e].before \in 0 .. Len(rows)
      <4>1. enricher[e].before \in visible \cup {0}
        BY <1>2 DEF EnricherPlaced
      <4>2. visible \cup {0} \subseteq 0 .. Len(rows)
        BY <1>2
      <4> QED
        BY <4>1, <4>2
    <3> QED
      BY <3>1, <3>5, <3>6
  <2> QED
    BY <2>1, <2>2
<1>5. CreditsCounted' /\ OneStores'
  BY <1>1, <1>3, OneStoresFewer
<1> QED
  BY <1>1, <1>2, <1>3, <1>4, <1>5, SessionMoves

(* A session looks for what is stored, beside another that has not         *)
(* committed: then the film is shared from here on.                        *)
LEMMA LookUpStep == ASSUME CatalogueInv, NEW e \in Enrichers, LookUp(e) PROVE CatalogueInv'
<1>1. PICK id \in enricher[e].todo :
        /\ \A n \in enricher[e].todo : id <= n
        /\ enricher' = [enricher EXCEPT ![e].at = "save", ![e].id = id,
                          ![e].absent = Absent(rows[id]), ![e].free = Unclaimed(rows[id])]
        /\ shared' = IF \E d \in Enrichers \ {e} : enricher[d].at = "save" /\ enricher[d].id = id
                       THEN shared \cup {rows[id]} ELSE shared
  BY DEF LookUp
<1>2. /\ enricher[e].at = "fetch"
      /\ UNCHANGED <<rows, visible, identified, credits, cursor, importer, checkpoint, imports,
                     enriched, late, torn>>
  BY DEF LookUp
<1>3. /\ RowsTyped /\ EnrichTyped /\ EnricherPlaced(enricher[e]) /\ enricher \in [Enrichers -> Enriching]
      /\ cursor \in 0 .. Len(rows) /\ identified \subseteq Stored /\ enriched \subseteq Stored
      /\ shared \subseteq Films /\ credits \in [Films -> Nat]
  BY DEF CatalogueInv, CatalogueTyped, EnrichTyped
<1>4. id \in visible /\ id \in Nat \ {0} /\ rows[id] \in Films
  BY <1>3, RowsFacts DEF EnricherPlaced
<1> DEFINE f == rows[id]
<1> DEFINE task == [enricher[e] EXCEPT !.at = "save", !.id = id, !.absent = Absent(f), !.free = Unclaimed(f)]
<1>5. enricher' = [enricher EXCEPT ![e] = task]
  BY <1>1, <1>3
<1>6. Absent(f) \in BOOLEAN /\ Unclaimed(f) \in BOOLEAN
  BY DEF Absent, Unclaimed
<1>7. /\ task \in Enriching /\ task.at = "save" /\ task.id = id /\ task.absent = Absent(f)
      /\ task.todo = enricher[e].todo /\ task.before = enricher[e].before
      /\ task.task = enricher[e].task
  BY <1>3, <1>4, <1>6 DEF Enriching
<1> HIDE DEF task
<1>8. EnricherPlaced(task)
  <2>1. ~task.task => task.before = 0
    BY <1>3, <1>7, Zenon DEF EnricherPlaced
  <2>2. /\ task.todo \subseteq visible /\ {task.id, task.before} \subseteq visible \cup {0}
        /\ \A n \in task.todo : task.before < n /\ task.id <= n
        /\ task.id \in task.todo
    BY <1>1, <1>3, <1>4, <1>7 DEF EnricherPlaced
  <2> QED
    BY <1>7, <2>1, <2>2 DEF EnricherPlaced
<1>9. /\ enricher'[e] = task /\ \A d \in Enrichers \ {e} : enricher'[d] = enricher[d]
      /\ FilmAt(e)' = f /\ \A d \in Enrichers \ {e} : FilmAt(d)' = FilmAt(d)
  <2>1. enricher'[e] = task /\ \A d \in Enrichers \ {e} : enricher'[d] = enricher[d]
    BY <1>3, <1>5
  <2> QED
    BY <1>2, <1>7, <2>1 DEF FilmAt
<1>10. ASSUME NEW d \in Enrichers \ {e}, enricher[d].at = "save", FilmAt(d) = f
       PROVE  f \in shared'
  <2>1. enricher[d].id \in visible
    BY <1>3, <1>10, FilmsHeld
  <2>2. enricher[d].id = id
    BY <1>3, <1>4, <1>10, <2>1, RowsFacts DEF FilmAt, RowsTyped
  <2> QED
    BY <1>1, <1>10, <2>2
<1>11. shared \subseteq shared' /\ shared' \subseteq Films
  BY <1>1, <1>3, <1>4
<1>12. task.absent <=> credits[f] = 0
  BY <1>7 DEF Absent
<1> HIDE DEF f
<1>13. OneStores'
  <2> SUFFICES ASSUME NEW g \in Films, g \notin shared'
               PROVE  /\ credits[g] <= 1
                      /\ \A d \in Enrichers : enricher'[d].at = "save" /\ FilmAt(d)' = g =>
                           /\ enricher'[d].absent => credits[g] = 0
                           /\ \A q \in Enrichers : enricher'[q].at = "save" /\ FilmAt(q)' = g => q = d
    BY <1>2 DEF OneStores
  <2>1. /\ credits[g] <= 1
        /\ \A d \in Enrichers : enricher[d].at = "save" /\ FilmAt(d) = g =>
             /\ enricher[d].absent => credits[g] = 0
             /\ \A q \in Enrichers : enricher[q].at = "save" /\ FilmAt(q) = g => q = d
    BY <1>11 DEF CatalogueInv, OneStores
  <2>2. f = g => \A d \in Enrichers \ {e} : ~(enricher'[d].at = "save" /\ FilmAt(d)' = g)
    BY <1>9, <1>10
  <2>3. ASSUME NEW d \in Enrichers, enricher'[d].at = "save", FilmAt(d)' = g
        PROVE  /\ enricher'[d].absent => credits[g] = 0
               /\ \A q \in Enrichers : enricher'[q].at = "save" /\ FilmAt(q)' = g => q = d
    <3>1. CASE d = e
      BY <1>9, <1>12, <2>2, <2>3, <3>1
    <3>2. CASE d # e
      BY <1>9, <2>1, <2>2, <2>3, <3>2
    <3> QED
      BY <3>1, <3>2
  <2> QED
    BY <2>1, <2>3
<1>14. CreditsCounted'
  <2> SUFFICES ASSUME NEW g \in Films
               PROVE  credits[g] + Cardinality(Storing(g)') <= Cardinality(Enrichers)
    BY <1>2 DEF CreditsCounted
  <2>1. Storing(g) \subseteq Enrichers /\ Storing(g)' \subseteq Enrichers
    BY DEF Storing
  <2>2. credits[g] \in Nat /\ credits[g] + Cardinality(Storing(g)) <= Cardinality(Enrichers)
    BY <1>3 DEF CatalogueInv, CatalogueTyped, CreditsCounted
  <2>3. CASE e \in Storing(g)'
    <3>1. credits[g] = 0
      BY <1>9, <1>12, <2>3 DEF Storing
    <3> QED
      BY <2>1, <3>1, StoringSome
  <2>4. CASE e \notin Storing(g)'
    <3>1. Storing(g)' \subseteq Storing(g)
      BY <1>9, <2>4 DEF Storing
    <3> QED
      BY <2>1, <2>2, <3>1, StoringSome
  <2> QED
    BY <2>3, <2>4
<1>15. /\ \A n \in visible \ late : n <= cursor => rows[n] \in enriched
       /\ task.task => \A m \in visible \ late, n \in task.todo \cup {task.before} :
                         m <= n => rows[m] \in enriched \/ m \in task.todo
  <2>1. Enriched(enricher[e]) /\ \A n \in visible \ late : n <= cursor => rows[n] \in enriched
    BY DEF CatalogueInv, EnrichWork
  <2> QED
    BY <1>7, <2>1, Zenon DEF Enriched
<1> QED
  BY <1>2, <1>3, <1>5, <1>8, <1>11, <1>13, <1>14, <1>15, SessionMoves

(* The commit: the movie's film is enriched, and the cursor goes to the    *)
(* movie before it.                                                        *)
LEMMA SaveStep == ASSUME CatalogueInv, NEW e \in Enrichers, SaveEnriched(e) PROVE CatalogueInv'
<1> DEFINE here == enricher[e]
           f == FilmAt(e)
           rest == here.todo \ {here.id}
           task == IF ~here.task THEN Resting
                   ELSE [Resting EXCEPT !.at = IF rest = {} THEN "close" ELSE "fetch", !.task = TRUE,
                                        !.todo = rest, !.before = here.id]
<1>1. /\ enricher[e].at = "save"
      /\ credits' = [credits EXCEPT ![f] = IF here.absent THEN @ + 1 ELSE @]
      /\ identified' \subseteq identified \cup {f} /\ enriched' = enriched \cup {f}
      /\ cursor' = CursorAfter(e) /\ enricher' = [enricher EXCEPT ![e] = task]
      /\ UNCHANGED <<rows, visible, importer, checkpoint, imports, late, shared, torn>>
  BY DEF SaveEnriched
<1>2. /\ RowsTyped /\ EnrichTyped /\ EnricherPlaced(here) /\ here \in Enriching
      /\ enricher \in [Enrichers -> Enriching]
      /\ cursor \in 0 .. Len(rows) /\ identified \subseteq Stored /\ enriched \subseteq Stored
      /\ shared \subseteq Films /\ credits \in [Films -> Nat]
      /\ visible \subseteq 1 .. Len(rows) /\ Len(rows) \in Nat
  BY RowsFacts DEF CatalogueInv, CatalogueTyped, EnrichTyped
<1>3. /\ f \in Films /\ f \in Stored /\ here.id \in visible /\ f = rows[here.id]
  BY <1>1, <1>2, FilmsHeld DEF FilmAt
<1>4. /\ here.todo \subseteq visible /\ here.id \in here.todo /\ here.before \in visible \cup {0}
      /\ \A n \in here.todo : here.before < n /\ here.id <= n
  BY <1>1, <1>2 DEF EnricherPlaced
<1>5. visible \subseteq Nat /\ here.todo \subseteq Nat /\ here.id \in Nat /\ here.before \in Nat
  BY <1>2 DEF Enriching
<1>6. ~here.task => here.before = 0
  BY <1>2 DEF EnricherPlaced
<1>7. /\ task \in Enriching /\ task.at # "save"
      /\ ~here.task => task = Resting
      /\ here.task => /\ task.at = (IF rest = {} THEN "close" ELSE "fetch") /\ task.task = TRUE
                      /\ task.todo = rest /\ task.before = here.id /\ task.id = 0
  <2>1. rest \in SUBSET Nat /\ here.id \in Nat
    BY <1>5
  <2> HIDE DEF rest
  <2>2. CASE here.task
    <3>1. task = [Resting EXCEPT !.at = IF rest = {} THEN "close" ELSE "fetch", !.task = TRUE,
                                 !.todo = rest, !.before = here.id]
      BY <2>2
    <3> HIDE DEF task
    <3>2. CASE rest = {}
      BY <2>1, <2>2, <3>1, <3>2 DEF Resting, Enriching
    <3>3. CASE rest # {}
      BY <2>1, <2>2, <3>1, <3>3 DEF Resting, Enriching
    <3> QED
      BY <3>2, <3>3
  <2>3. CASE ~here.task
    BY <2>3 DEF Resting, Enriching
  <2> QED
    BY <2>2, <2>3
<1> HIDE DEF task
<1>8. EnricherPlaced(task)
  <2>1. CASE ~here.task
    BY <1>7, <2>1 DEF EnricherPlaced, Resting
  <2>2. CASE here.task
    <3>1. /\ task.todo \subseteq visible /\ {task.id, task.before} \subseteq visible \cup {0}
          /\ \A n \in task.todo : task.before < n
      <4>1. ASSUME NEW n \in rest PROVE here.id < n
        <5>1. n \in Nat /\ here.id \in Nat /\ here.id <= n /\ n # here.id
          BY <1>4, <1>5
        <5> QED
          BY <5>1
      <4> QED
        BY <1>3, <1>4, <1>7, <2>2, <4>1
    <3>2. task.at # "rest" /\ (task.at = "close" => task.todo = {} /\ task.before # 0) /\ task.task
      BY <1>2, <1>3, <1>7, <2>2
    <3> QED
      BY <1>7, <3>1, <3>2 DEF EnricherPlaced
  <2> QED
    BY <2>1, <2>2
<1>9. Enriched(here) /\ \A id \in visible \ late : id <= cursor => rows[id] \in enriched
  BY DEF CatalogueInv, EnrichWork
<1>10. ASSUME here.task
      PROVE  \A id \in visible \ late, n \in here.todo \cup {here.before} :
               id <= n => rows[id] \in enriched \/ id \in here.todo
  BY <1>9, <1>10, Zenon DEF Enriched
<1>11. cursor' \in 0 .. Len(rows)
  <2>1. here.before \in 0 .. Len(rows)
    <3>1. visible \cup {0} \subseteq 0 .. Len(rows)
      BY <1>2
    <3> QED
      BY <1>4, <3>1
  <2> QED
    BY <1>1, <1>2, <2>1 DEF CursorAfter
<1>12. \A id \in visible \ late : id <= cursor' => rows[id] \in enriched'
  <2>1. CASE here.before = 0
    BY <1>1, <1>9, <2>1 DEF CursorAfter
  <2>2. CASE here.before # 0
    <3>1. cursor' = here.before
      BY <1>1, <2>2 DEF CursorAfter
    <3>2. here.task
      BY <1>6, <2>2
    <3>3. ASSUME NEW id \in visible \ late, id <= here.before PROVE rows[id] \in enriched
      <4>1. id \notin here.todo
        <5>1. id \in Nat
          BY <1>5
        <5> QED
          BY <1>4, <1>5, <3>3, <5>1
      <4> QED
        BY <1>10, <3>2, <3>3, <4>1
    <3> QED
      BY <1>1, <3>1, <3>3
  <2> QED
    BY <2>1, <2>2
<1>13. task.task => \A id \in visible \ late, n \in task.todo \cup {task.before} :
                      id <= n => rows[id] \in enriched' \/ id \in task.todo
  <2>1. CASE ~here.task
    <3>1. task.task = FALSE
      BY <1>7, <2>1 DEF Resting
    <3> QED
      BY <3>1
  <2>2. CASE here.task
    <3>1. ASSUME NEW id \in visible \ late, NEW n \in rest \cup {here.id}, id <= n
          PROVE  rows[id] \in enriched' \/ id \in rest
      <4>1. n \in here.todo
        BY <1>4, <3>1
      <4>2. rows[id] \in enriched \/ id \in here.todo
        BY <1>10, <2>2, <3>1, <4>1
      <4> QED
        BY <1>1, <1>3, <4>2
    <3>2. task.todo = rest /\ task.before = here.id
      BY <1>7, <2>2
    <3> QED
      BY <3>1, <3>2
  <2> QED
    BY <2>1, <2>2
<1>14. /\ enricher'[e] = task
       /\ \A d \in Enrichers : enricher'[d].at = "save" =>
            d # e /\ enricher'[d] = enricher[d] /\ FilmAt(d)' = FilmAt(d)
  BY <1>1, <1>2, <1>7 DEF FilmAt
<1>15. /\ credits' \in [Films -> Nat] /\ \A g \in Films \ {f} : credits'[g] = credits[g]
       /\ credits'[f] = IF here.absent THEN credits[f] + 1 ELSE credits[f]
  BY <1>1, <1>2, <1>3
<1>16. identified' \subseteq Stored /\ enriched \subseteq enriched' /\ enriched' \subseteq Stored
       /\ shared' \subseteq Films
  BY <1>1, <1>2, <1>3
<1> HIDE DEF f
<1>17. OneStores'
  <2> SUFFICES ASSUME NEW g \in Films, g \notin shared
               PROVE  /\ credits'[g] <= 1
                      /\ \A d \in Enrichers : enricher'[d].at = "save" /\ FilmAt(d)' = g =>
                           /\ enricher'[d].absent => credits'[g] = 0
                           /\ \A q \in Enrichers : enricher'[q].at = "save" /\ FilmAt(q)' = g => q = d
    BY <1>1 DEF OneStores
  <2>1. CASE g = f
    <3>1. \A d \in Enrichers \ {e} : ~(enricher[d].at = "save" /\ FilmAt(d) = g)
      BY <1>1, <2>1 DEF CatalogueInv, OneStores, f
    <3>2. credits[g] <= 1 /\ (enricher[e].absent => credits[g] = 0)
      BY <1>1, <2>1 DEF CatalogueInv, OneStores, f
    <3>3. credits'[g] <= 1
      BY <1>15, <2>1, <3>2
    <3> QED
      BY <1>14, <3>1, <3>3
  <2>2. CASE g # f
    <3>1. credits'[g] = credits[g]
      BY <1>15, <2>2
    <3> QED
      BY <1>14, <3>1 DEF CatalogueInv, OneStores
  <2> QED
    BY <2>1, <2>2
<1>18. CreditsCounted'
  <2> SUFFICES ASSUME NEW g \in Films
               PROVE  credits'[g] + Cardinality(Storing(g)') <= Cardinality(Enrichers)
    BY DEF CreditsCounted
  <2>1. Storing(g) \subseteq Enrichers /\ Storing(g)' \subseteq Storing(g) \ {e}
    BY <1>14 DEF Storing
  <2>2. /\ credits[g] \in Nat /\ credits[g] + Cardinality(Storing(g)) <= Cardinality(Enrichers)
        /\ Cardinality(Storing(g)) \in Nat /\ Cardinality(Enrichers) \in Nat
    BY <1>2, <2>1, StoringSome DEF CatalogueInv, CatalogueTyped, CreditsCounted
  <2>3. CASE e \in Storing(g)
    <3>1. g = f /\ credits'[g] = credits[g] + 1
      BY <1>15, <2>3 DEF Storing, f
    <3>2. Cardinality(Storing(g) \ {e}) = Cardinality(Storing(g)) - 1
      BY <2>1, <2>3, StoringSome, FS_RemoveElement
    <3>3. Cardinality(Storing(g)') <= Cardinality(Storing(g) \ {e}) /\ Cardinality(Storing(g)') \in Nat
      BY <2>1, StoringSome
    <3> QED
      BY <2>2, <3>1, <3>2, <3>3
  <2>4. CASE e \notin Storing(g)
    <3>1. credits'[g] = credits[g]
      BY <1>1, <1>15, <2>4 DEF Storing, f
    <3>2. Cardinality(Storing(g)') <= Cardinality(Storing(g)) /\ Cardinality(Storing(g)') \in Nat
      BY <2>1, StoringSome
    <3> QED
      BY <2>2, <3>1, <3>2
  <2> QED
    BY <2>3, <2>4
<1> QED
  BY <1>1, <1>8, <1>11, <1>12, <1>13, <1>15, <1>16, <1>17, <1>18, SessionMoves

-----------------------------------------------------------------------------
(* An importer moves on; the sessions are where they were, and of the rows *)
(* that come to be seen those that are not late are ahead of them all.     *)
LEMMA SessionsStand ==
  ASSUME CatalogueInv, rows' \in Seq(Films), visible' \subseteq DOMAIN rows',
         \A n \in DOMAIN rows : n \in DOMAIN rows' /\ rows'[n] = rows[n],
         visible \subseteq visible', late \subseteq late',
         \A id \in visible' \ visible : id \in late' \/ ~Passed(id),
         UNCHANGED <<identified, credits, cursor, enricher, enriched, shared>>
  PROVE  EnrichTyped' /\ CreditsCounted' /\ EnrichWork' /\ OneStores'
<1>1. /\ RowsTyped /\ EnrichTyped /\ CreditsCounted /\ EnrichWork /\ OneStores
      /\ \A e \in Enrichers : EnricherPlaced(enricher[e])
      /\ visible \subseteq DOMAIN rows /\ DOMAIN rows = 1 .. Len(rows) /\ Len(rows) \in Nat
      /\ DOMAIN rows' = 1 .. Len(rows') /\ Len(rows') \in Nat
  BY RowsFacts DEF CatalogueInv, CatalogueTyped, EnrichTyped
<1>2. Stored \subseteq Stored'
  BY <1>1 DEF Stored, FilmsOf
<1>3. cursor' \in 0 .. Len(rows')
  <2>1. cursor \in 0 .. Len(rows) /\ Len(rows) <= Len(rows')
    BY <1>1 DEF EnrichTyped
  <2> QED
    BY <1>1, <2>1
<1>4. \A e \in Enrichers : EnricherPlaced(enricher[e])'
  BY <1>1 DEF EnricherPlaced
<1>5. EnrichTyped'
  BY <1>1, <1>2, <1>3, <1>4 DEF EnrichTyped
<1>6. \A e \in Enrichers : enricher[e].at = "save" => FilmAt(e)' = FilmAt(e)
  BY <1>1, FilmsHeld DEF FilmAt
<1>7. CreditsCounted' /\ OneStores'
  <2>1. \A f : Storing(f)' = Storing(f)
    BY <1>6 DEF Storing
  <2> QED
    BY <1>1, <1>6, <2>1 DEF CreditsCounted, OneStores
<1>8. \A id \in visible' \ late' : id \in visible \ late \/ (id \notin visible /\ ~Passed(id))
  OBVIOUS
<1>9. ASSUME NEW id \in visible' \ late', id <= cursor PROVE rows'[id] \in enriched
  BY <1>1, <1>8, <1>9 DEF EnrichWork, Passed
<1>10. ASSUME NEW e \in Enrichers PROVE Enriched(enricher[e])'
  <2> SUFFICES ASSUME enricher[e].task, NEW id \in visible' \ late',
                      NEW n \in enricher[e].todo \cup {enricher[e].before}, id <= n
               PROVE  rows'[id] \in enriched \/ id \in enricher[e].todo
    BY Zenon DEF Enriched
  <2>1. CASE id \in visible \ late
    <3>1. Enriched(enricher[e])
      BY <1>1 DEF EnrichWork
    <3>2. rows[id] \in enriched \/ id \in enricher[e].todo
      BY <2>1, <3>1, Zenon DEF Enriched
    <3> QED
      BY <1>1, <2>1, <3>2
  <2>2. CASE id \notin visible /\ ~Passed(id)
    <3>1. ~(id < n)
      BY <2>2 DEF Passed
    <3>2. n \in visible \cup {0}
      BY <1>1 DEF EnricherPlaced
    <3>3. id \in 1 .. Len(rows')
      BY <1>1
    <3>4. n \in Nat /\ n # id
      BY <1>1, <2>2, <3>2, <3>3
    <3> QED
      BY <3>1, <3>3, <3>4
  <2> QED
    BY <1>8, <2>1, <2>2
<1>11. EnrichWork'
  BY <1>9, <1>10 DEF EnrichWork
<1> QED
  BY <1>5, <1>7, <1>11

(* It turns a page, leaves or starts anew: of the rows it held some are    *)
(* committed, and it holds none.                                           *)
LEMMA ImporterTurns ==
  ASSUME CatalogueInv, NEW i \in Importers, NEW task, ImporterPlaced(task), task.held = {},
         NEW new \in SUBSET importer[i].held,
         importer' = [importer EXCEPT ![i] = task],
         visible' = visible \cup new, late \subseteq late', late' \subseteq late \cup new,
         \A id \in new : id \in late' \/ ~Passed(id),
         UNCHANGED <<rows, identified, credits, cursor, enricher, enriched, shared>>,
         checkpoint' \subseteq Blocks, torn \subseteq torn', torn' \subseteq Blocks,
         imports' \in 0 .. MaxImports,
         \A b \in (checkpoint' \cup task.done) \ torn' : BlockStored(b),
         task.at = "block" /\ task.block \notin torn' =>
           \A p \in DOMAIN Pages[task.block] :
             /\ p < task.page => Pages[task.block][p] \subseteq Stored \cup FilmsOf(new)
             /\ p = task.page => Pages[task.block][p] \subseteq task.left \cup Stored
  PROVE  CatalogueInv'
<1>1. /\ RowsTyped /\ ImportTyped /\ ImportWork
      /\ importer \in [Importers -> Importing] /\ importer'[i] = task
      /\ \A j \in Importers \ {i} : importer'[j] = importer[j] /\ importer[i].held \cap importer[j].held = {}
      /\ \A j \in Importers : ImporterPlaced(importer[j])
  BY DEF CatalogueInv, CatalogueTyped, ImportTyped
<1>2. Stored' = Stored \cup FilmsOf(new) /\ \A S : FilmsOf(S)' = FilmsOf(S)
  BY DEF Stored, FilmsOf
<1>3. Flushed' \subseteq Flushed
  <2>1. visible' \subseteq Flushed
    BY DEF Flushed
  <2>2. ASSUME NEW j \in Importers PROVE importer'[j].held \subseteq Flushed
    <3>1. CASE j = i
      BY <1>1, <3>1
    <3>2. CASE j # i
      BY <1>1, <3>2 DEF Flushed
    <3> QED
      BY <3>1, <3>2
  <2> QED
    BY <2>1, <2>2 DEF Flushed
<1>4. RowsTyped'
  BY <1>1, <1>3 DEF RowsTyped
<1>5. ASSUME NEW j \in Importers PROVE ImporterPlaced(importer[j])'
  <2>1. CASE j = i
    <3>1. importer'[j] = task /\ task.held \cap visible' = {} /\ FilmsOf(task.held)' = {}
      BY <1>1, <2>1 DEF FilmsOf
    <3> QED
      BY <3>1 DEF ImporterPlaced
  <2>2. CASE j # i
    <3>1. importer'[j] = importer[j] /\ importer[j].held \cap visible' = {}
      BY <1>1, <2>2 DEF ImporterPlaced
    <3> QED
      BY <1>1, <1>2, <3>1 DEF ImporterPlaced
  <2> QED
    BY <2>1, <2>2
<1>6. importer' \in [Importers -> Importing]
  BY <1>1 DEF ImporterPlaced
<1>7. \A j, k \in Importers : j # k => importer'[j].held \cap importer'[k].held = {}
  BY <1>1 DEF ImportTyped
<1>8. ImportTyped'
  BY <1>5, <1>6, <1>7 DEF ImportTyped
<1>9. \A b : BlockStored(b) => BlockStored(b)'
  BY <1>2 DEF BlockStored
<1>10. ASSUME NEW j \in Importers PROVE Imported(importer[j])'
  <2>1. CASE j = i
    <3>1. \A b \in task.done \ torn' : BlockStored(b)'
      BY <1>9
    <3>2. task.at = "block" /\ task.block \notin torn' =>
            \A p \in DOMAIN Pages[task.block] :
              /\ p < task.page => Pages[task.block][p] \subseteq Stored'
              /\ p = task.page => Pages[task.block][p] \subseteq task.left \cup Stored' \cup FilmsOf(task.held)'
      BY <1>2
    <3> QED
      BY <1>1, <2>1, <3>1, <3>2 DEF Imported
  <2>2. CASE j # i
    <3>1. importer'[j] = importer[j] /\ Imported(importer[j])
      BY <1>1, <2>2 DEF ImportWork
    <3>2. \A b \in importer[j].done \ torn' : BlockStored(b)'
      BY <1>9, <3>1 DEF Imported
    <3>3. importer[j].at = "block" /\ importer[j].block \notin torn' =>
            \A p \in DOMAIN Pages[importer[j].block] :
              /\ p < importer[j].page => Pages[importer[j].block][p] \subseteq Stored'
              /\ p = importer[j].page => Pages[importer[j].block][p]
                                           \subseteq importer[j].left \cup Stored' \cup FilmsOf(importer[j].held)'
      BY <1>2, <3>1 DEF Imported
    <3> QED
      BY <3>1, <3>2, <3>3 DEF Imported
  <2> QED
    BY <2>1, <2>2
<1>11. ImportWork'
  BY <1>9, <1>10 DEF ImportWork
<1>12. visible' \subseteq DOMAIN rows'
  BY <1>4 DEF RowsTyped, Flushed
<1>13. /\ rows' \in Seq(Films) /\ \A n \in DOMAIN rows : n \in DOMAIN rows' /\ rows'[n] = rows[n]
       /\ \A id \in visible' \ visible : id \in late' \/ ~Passed(id)
  BY <1>1 DEF RowsTyped
<1>14. EnrichTyped' /\ CreditsCounted' /\ EnrichWork' /\ OneStores'
  BY <1>12, <1>13, SessionsStand
<1> QED
  BY <1>4, <1>8, <1>11, <1>14 DEF CatalogueInv, CatalogueTyped

(* A new row is of a film that no committed row and no importer has.       *)
LEMMA StoreMovieStep ==
  ASSUME CatalogueInv, NEW i \in Importers, NEW f \in Films, StoreMovie(i, f)
  PROVE  CatalogueInv'
<1> DEFINE here == importer[i]
<1>1. /\ f \in here.left /\ f \notin HeldByOthers(i)
      /\ UNCHANGED <<visible, identified, credits, cursor, enricher, checkpoint, imports, enriched,
                     late, shared, torn>>
  BY DEF StoreMovie
<1>2. /\ RowsTyped /\ ImportTyped /\ ImportWork /\ importer \in [Importers -> Importing]
      /\ here \in Importing /\ here.held \in SUBSET Nat /\ here.left \subseteq Films
      /\ \A j \in Importers : ImporterPlaced(importer[j]) /\ importer[j].held \subseteq Flushed
      /\ visible \subseteq Flushed /\ Flushed \subseteq DOMAIN rows
  BY RowsFacts DEF CatalogueInv, CatalogueTyped, ImportTyped, Flushed, RowsTyped, Importing
<1>3. DOMAIN rows = 1 .. Len(rows) /\ Len(rows) \in Nat /\ rows \in Seq(Films)
  BY <1>2, RowsFacts DEF RowsTyped
<1>4. PICK new \in SUBSET {Len(rows) + 1} :
        /\ importer' = [importer EXCEPT ![i] = [here EXCEPT !.left = @ \ {f}, !.held = @ \cup new]]
        /\ new # {} => f \notin Stored /\ rows' = Append(rows, f)
        /\ new = {} => f \in Stored /\ rows' = rows
  <2>1. CASE f \in Stored
    <3>1. importer' = [importer EXCEPT ![i] = [here EXCEPT !.left = @ \ {f}, !.held = @ \cup {}]]
      <4>1. importer' = [importer EXCEPT ![i] = [here EXCEPT !.left = @ \ {f}]]
        BY <2>1 DEF StoreMovie
      <4>2. [here EXCEPT !.left = @ \ {f}, !.held = @ \cup {}] = [here EXCEPT !.left = @ \ {f}]
        BY <1>2 DEF Importing
      <4> QED
        BY <4>1, <4>2
    <3>2. rows' = rows
      BY <2>1 DEF StoreMovie
    <3> WITNESS {} \in SUBSET {Len(rows) + 1}
    <3> QED
      BY <2>1, <3>1, <3>2
  <2>2. CASE f \notin Stored
    <3>1. importer' = [importer EXCEPT ![i] = [here EXCEPT !.left = @ \ {f}, !.held = @ \cup {Len(rows) + 1}]]
      BY <1>2, <2>2 DEF StoreMovie, Importing
    <3>2. rows' = Append(rows, f)
      BY <2>2 DEF StoreMovie
    <3> QED
      BY <2>2, <3>1, <3>2
  <2> QED
    BY <2>1, <2>2
<1>5. /\ \A n \in DOMAIN rows : n \in DOMAIN rows' /\ rows'[n] = rows[n]
      /\ rows' \in Seq(Films)
      /\ \A n \in new : n \in DOMAIN rows' /\ rows'[n] = f /\ n \in Nat /\ n \notin DOMAIN rows
  <2>1. CASE new = {}
    BY <1>3, <1>4, <2>1
  <2>2. CASE new # {}
    <3>1. rows' = Append(rows, f) /\ rows \in Seq(Films)
      BY <1>3, <1>4, <2>2
    <3>2. /\ Len(rows') = Len(rows) + 1 /\ rows' \in Seq(Films)
          /\ rows'[Len(rows) + 1] = f /\ \A n \in 1 .. Len(rows) : rows'[n] = rows[n]
      BY <3>1, AppendProperties
    <3>3. DOMAIN rows' = 1 .. Len(rows) + 1
      BY <1>3, <3>2
    <3>4. \A n \in new : n = Len(rows) + 1
      OBVIOUS
    <3>5. \A n \in new : n \in DOMAIN rows' /\ rows'[n] = f /\ n \in Nat /\ n \notin DOMAIN rows
      BY <1>3, <3>2, <3>3, <3>4
    <3>6. \A n \in DOMAIN rows : n \in DOMAIN rows' /\ rows'[n] = rows[n]
      BY <1>3, <3>2, <3>3
    <3> QED
      BY <3>2, <3>5, <3>6
  <2> QED
    BY <2>1, <2>2
<1>6. PICK task \in Importing :
        /\ importer' = [importer EXCEPT ![i] = task]
        /\ task.left = here.left \ {f} /\ task.held = here.held \cup new
        /\ task.at = here.at /\ task.block = here.block /\ task.page = here.page /\ task.done = here.done
  <2>1. new \subseteq Nat
    BY <1>5
  <2>2. [here EXCEPT !.left = @ \ {f}, !.held = @ \cup new] \in Importing
    BY <1>2, <2>1 DEF Importing
  <2> QED
    BY <1>2, <1>4, <2>2 DEF Importing
<1>7. importer' \in [Importers -> Importing] /\ importer'[i] = task
      /\ \A j \in Importers \ {i} : importer'[j] = importer[j]
  BY <1>2, <1>6
<1>8. \A S : S \subseteq DOMAIN rows => {rows'[n] : n \in S} = {rows[n] : n \in S}
  BY <1>5
<1>9. Stored' = Stored /\ FilmsOf(visible)' = FilmsOf(visible)
      /\ \A j \in Importers \ {i} : FilmsOf(importer[j].held)' = FilmsOf(importer[j].held)
  BY <1>1, <1>2, <1>7, <1>8 DEF Stored, FilmsOf
<1>10. {rows'[n] : n \in task.held} \subseteq FilmsOf(here.held) \cup {f}
       /\ FilmsOf(here.held) \subseteq {rows'[n] : n \in task.held}
       /\ f \in Stored \cup {rows'[n] : n \in task.held}
  BY <1>2, <1>4, <1>5, <1>6 DEF FilmsOf
<1>11. ASSUME NEW n \in Flushed, new # {} PROVE rows[n] # f
  <2>1. f \notin Stored
    BY <1>4, <1>11
  <2>2. CASE n \in visible
    BY <2>1, <2>2 DEF Stored, FilmsOf
  <2>3. CASE \E j \in Importers \ {i} : n \in importer[j].held
    BY <1>1, <2>3 DEF HeldByOthers, FilmsOf
  <2>4. CASE n \in here.held
    BY <1>1, <1>2, <2>4 DEF ImporterPlaced, FilmsOf
  <2> QED
    BY <2>2, <2>3, <2>4 DEF Flushed
<1>12. Flushed' \subseteq Flushed \cup new
  <2>1. ASSUME NEW j \in Importers PROVE importer'[j].held \subseteq Flushed \cup new
    <3>1. CASE j = i
      BY <1>2, <1>6, <1>7, <3>1
    <3>2. CASE j # i
      BY <1>2, <1>7, <3>2
    <3> QED
      BY <3>1, <3>2
  <2> QED
    BY <1>1, <1>2, <2>1 DEF Flushed
<1>13. RowsTyped'
  <2>1. Flushed' \subseteq DOMAIN rows'
    BY <1>2, <1>5, <1>12
  <2>2. ASSUME NEW m \in Flushed \cup new, NEW n \in Flushed \cup new, rows'[m] = rows'[n]
        PROVE  m = n
    <3>1. CASE m \in new /\ n \in new
      BY <3>1
    <3>2. CASE m \in new /\ n \notin new
      BY <1>2, <1>5, <1>11, <2>2, <3>2
    <3>3. CASE m \notin new /\ n \in new
      BY <1>2, <1>5, <1>11, <2>2, <3>3
    <3>4. CASE m \notin new /\ n \notin new
      BY <1>2, <1>5, <2>2, <3>4 DEF RowsTyped
    <3> QED
      BY <3>1, <3>2, <3>3, <3>4
  <2>3. \A m, n \in Flushed' : rows'[m] = rows'[n] => m = n
    BY <1>12, <2>2
  <2>4. late' \subseteq visible'
    BY <1>1, <1>2 DEF RowsTyped
  <2> QED
    BY <1>5, <2>1, <2>3, <2>4 DEF RowsTyped
<1>14. new \cap visible = {} /\ \A j \in Importers : new \cap importer[j].held = {}
  BY <1>2, <1>5
<1>15. ASSUME NEW j \in Importers PROVE ImporterPlaced(importer[j])'
  <2>1. CASE j = i
    <3>1. /\ task.at \notin {"rest", "choose"}
          /\ task.at = "block" => task.block \in Blocks /\ task.page \in Nat \ {0}
          /\ task.at \in {"newest", "full"} => task.page \in DOMAIN Newest
      BY <1>1, <1>2, <1>6 DEF ImporterPlaced
    <3>2. task.held \cap visible = {}
      BY <1>2, <1>6, <1>14 DEF ImporterPlaced
    <3>3. task.left \cap {rows'[n] : n \in task.held} = {}
      <4>1. here.left \cap FilmsOf(here.held) = {}
        BY <1>2 DEF ImporterPlaced
      <4> QED
        BY <1>6, <1>10, <4>1
    <3> QED
      BY <1>1, <1>7, <2>1, <3>1, <3>2, <3>3 DEF ImporterPlaced, FilmsOf
  <2>2. CASE j # i
    <3>1. ImporterPlaced(importer[j]) /\ importer'[j] = importer[j]
      BY <1>2, <1>7, <2>2
    <3>2. FilmsOf(importer[j].held)' = FilmsOf(importer[j].held)
      BY <1>9, <2>2
    <3> QED
      BY <1>1, <3>1, <3>2 DEF ImporterPlaced
  <2> QED
    BY <2>1, <2>2
<1>16. \A j, k \in Importers : j # k => importer'[j].held \cap importer'[k].held = {}
  <2>1. \A j \in Importers \ {i} : importer[j].held \cap task.held = {}
    BY <1>2, <1>6, <1>14 DEF ImportTyped
  <2> QED
    BY <1>2, <1>7, <2>1 DEF ImportTyped
<1>17. ImportTyped'
  BY <1>1, <1>2, <1>7, <1>15, <1>16 DEF ImportTyped
<1>18. \A b : BlockStored(b)' <=> BlockStored(b)
  BY <1>9 DEF BlockStored
<1>19. ASSUME NEW j \in Importers PROVE Imported(importer[j])'
  <2>1. Imported(importer[j])
    BY <1>2 DEF ImportWork
  <2>2. CASE j = i
    <3>1. \A b \in task.done \ torn : BlockStored(b)'
      BY <1>6, <1>18, <2>1, <2>2 DEF Imported
    <3>2. ASSUME task.at = "block", task.block \notin torn, NEW p \in DOMAIN Pages[task.block]
          PROVE  /\ p < task.page => Pages[task.block][p] \subseteq Stored'
                 /\ p = task.page => Pages[task.block][p]
                                        \subseteq task.left \cup Stored' \cup {rows'[n] : n \in task.held}
      <4>1. /\ p < here.page => Pages[here.block][p] \subseteq Stored
            /\ p = here.page => Pages[here.block][p] \subseteq here.left \cup Stored \cup FilmsOf(here.held)
        BY <1>6, <2>1, <2>2, <3>2 DEF Imported
      <4> QED
        BY <1>6, <1>9, <1>10, <4>1
    <3> QED
      BY <1>1, <1>7, <2>2, <3>1, <3>2 DEF Imported, FilmsOf
  <2>3. CASE j # i
    <3>1. importer'[j] = importer[j] /\ FilmsOf(importer[j].held)' = FilmsOf(importer[j].held)
      BY <1>7, <1>9, <2>3
    <3> QED
      BY <1>1, <1>9, <1>18, <2>1, <3>1 DEF Imported
  <2> QED
    BY <2>2, <2>3
<1>20. ImportWork'
  BY <1>1, <1>2, <1>18, <1>19 DEF ImportWork
<1>21. EnrichTyped' /\ CreditsCounted' /\ EnrichWork' /\ OneStores'
  <2>1. visible' \subseteq DOMAIN rows' /\ \A id \in visible' \ visible : id \in late' \/ ~Passed(id)
    BY <1>1, <1>2, <1>5
  <2> QED
    BY <1>1, <1>5, <2>1, SessionsStand
<1> QED
  BY <1>13, <1>17, <1>20, <1>21 DEF CatalogueInv, CatalogueTyped

LEMMA PagesTyped ==
  /\ \A b \in Blocks : DOMAIN Pages[b] = 1 .. Len(Pages[b]) /\ Len(Pages[b]) \in Nat
                       /\ \A p \in DOMAIN Pages[b] : Pages[b][p] \subseteq Films
  /\ DOMAIN Newest = 1 .. Len(Newest) /\ Len(Newest) \in Nat \ {0}
  /\ \A p \in DOMAIN Newest : Newest[p] \subseteq Films
<1>1. ASSUME NEW b \in Blocks
      PROVE  /\ DOMAIN Pages[b] = 1 .. Len(Pages[b]) /\ Len(Pages[b]) \in Nat
             /\ \A p \in DOMAIN Pages[b] : Pages[b][p] \subseteq Films
  <2>1. Pages[b] \in Seq(SUBSET Films)
    BY CatalogueAssumption
  <2> QED
    BY <2>1
<1>2. Newest \in Seq(SUBSET Films) /\ Newest # <<>>
  BY CatalogueAssumption
<1>3. DOMAIN Newest = 1 .. Len(Newest) /\ Len(Newest) \in Nat /\ Len(Newest) # 0
      /\ \A p \in DOMAIN Newest : Newest[p] \subseteq Films
  BY <1>2, EmptySeq
<1> QED
  BY <1>1, <1>3

LEMMA FilmsOnTyped ==
  ASSUME NEW b \in Blocks, NEW p
  PROVE  FilmsOn(Pages[b], p) \subseteq Films /\ FilmsOn(Newest, p) \subseteq Films
BY PagesTyped DEF FilmsOn

LEMMA ImporterFacts ==
  ASSUME CatalogueInv, NEW i \in Importers
  PROVE  /\ ImporterPlaced(importer[i]) /\ Imported(importer[i]) /\ importer[i] \in Importing
         /\ RowsTyped /\ ImportWork
         /\ importer[i].page \in Nat /\ importer[i].done \subseteq Blocks
         /\ importer[i].held \subseteq Nat /\ importer[i].left \subseteq Films
         /\ checkpoint \subseteq Blocks /\ torn \subseteq Blocks /\ imports \in 0 .. MaxImports
BY DEF CatalogueInv, CatalogueTyped, ImportTyped, ImportWork, Importing

LEMMA BeginImportStep ==
  ASSUME CatalogueInv, NEW i \in Importers, NEW mode \in {"choose", "newest", "full"},
         BeginImport(i, mode)
  PROVE  CatalogueInv'
<1>1. /\ imports < MaxImports /\ imports' = imports + 1
      /\ UNCHANGED <<rows, visible, identified, credits, cursor, enricher, checkpoint, enriched, late,
                     shared, torn>>
  BY DEF BeginImport
<1>2. imports' \in 0 .. MaxImports
  BY <1>1, ImporterFacts, CatalogueAssumption
<1>3. PICK task : /\ importer' = [importer EXCEPT ![i] = task]
                  /\ ImporterPlaced(task) /\ task.held = {} /\ task.at # "block"
                  /\ task.done \in {checkpoint, {}}
  <2>1. CASE mode = "choose"
    <3>1. PICK done \in {checkpoint, {}} :
            importer' = [importer EXCEPT ![i] = [NoImport EXCEPT !.at = mode, !.done = done]]
      BY <2>1 DEF BeginImport
    <3>2. done \subseteq Blocks
      BY ImporterFacts
    <3> DEFINE task == [NoImport EXCEPT !.at = mode, !.done = done]
    <3>3. /\ task \in Importing /\ task.at = "choose" /\ task.left = {} /\ task.held = {}
          /\ task.done = done
      BY <2>1, <3>2 DEF Importing, NoImport
    <3> HIDE DEF task
    <3>4. ImporterPlaced(task)
      BY <3>3 DEF ImporterPlaced, FilmsOf
    <3> QED
      BY <3>1, <3>3, <3>4 DEF task
  <2>2. CASE mode # "choose"
    <3>1. importer' = [importer EXCEPT ![i] = [NoImport EXCEPT !.at = mode, !.page = 1, !.left = Newest[1]]]
      BY <2>2 DEF BeginImport
    <3>2. 1 \in DOMAIN Newest /\ Newest[1] \subseteq Films
      BY PagesTyped
    <3> DEFINE task == [NoImport EXCEPT !.at = mode, !.page = 1, !.left = Newest[1]]
    <3>3. /\ task \in Importing /\ task.at \in {"newest", "full"} /\ task.page = 1
          /\ task.held = {} /\ task.done = {}
      BY <2>2, <3>2 DEF Importing, NoImport
    <3> HIDE DEF task
    <3>4. ImporterPlaced(task)
      BY <3>2, <3>3 DEF ImporterPlaced, FilmsOf
    <3> QED
      BY <3>1, <3>3, <3>4 DEF task
  <2> QED
    BY <2>1, <2>2
<1>4. \A b \in (checkpoint \cup task.done) \ torn : BlockStored(b)
  BY <1>3, ImporterFacts DEF ImportWork
<1>5. {} \subseteq importer[i].held /\ visible' = visible \cup {}
  BY <1>1
<1>6. checkpoint \subseteq Blocks /\ torn \subseteq Blocks
  BY ImporterFacts
<1> QED
  BY <1>1, <1>2, <1>3, <1>4, <1>5, <1>6, ImporterTurns

(* It turns to a page, or has nothing more to do with the pages.           *)
LEMMA NextPlaced ==
  ASSUME CatalogueInv, NEW i \in Importers, Reading(i), NEW p \in Nat \ {0},
         importer[i].at # "block" => p \in DOMAIN Newest, TurnTo(i, p)
  PROVE  \E task : /\ importer' = [importer EXCEPT ![i] = task]
                   /\ ImporterPlaced(task) /\ task.held = {}
                   /\ task.at = importer[i].at /\ task.block = importer[i].block
                   /\ task.done = importer[i].done /\ task.page = p
                   /\ task.left = FilmsOn(List(i), p)
<1> DEFINE here == importer[i]
           task == [here EXCEPT !.page = p, !.left = FilmsOn(List(i), p), !.held = {}]
<1>1. here \in Importing /\ ImporterPlaced(here) /\ here.at \in {"block", "newest", "full"}
  BY ImporterFacts DEF Reading
<1>2. FilmsOn(List(i), p) \subseteq Films
  <2>1. here.at = "block" => here.block \in Blocks
    BY <1>1 DEF ImporterPlaced
  <2>2. FilmsOn(Newest, p) \subseteq Films
    BY PagesTyped DEF FilmsOn
  <2> QED
    BY <2>1, <2>2, FilmsOnTyped DEF List, ListOf
<1>3. importer' = [importer EXCEPT ![i] = task]
  BY DEF TurnTo, CatalogueInv, CatalogueTyped, ImportTyped
<1>4. /\ task \in Importing /\ task.held = {} /\ task.at = here.at /\ task.block = here.block
      /\ task.done = here.done /\ task.page = p /\ task.left = FilmsOn(List(i), p)
  BY <1>1, <1>2 DEF Importing
<1> HIDE DEF task
<1>5. ImporterPlaced(task)
  BY <1>1, <1>4 DEF ImporterPlaced, FilmsOf
<1> QED
  BY <1>3, <1>4, <1>5

LEMMA NoImportPlaced == ImporterPlaced(NoImport) /\ NoImport.held = {} /\ NoImport.at = "rest" /\ NoImport.done = {}
BY DEF ImporterPlaced, Importing, NoImport, FilmsOf

LEMMA CommitPageStep ==
  ASSUME CatalogueInv, NEW i \in Importers, CommitPage(i)
  PROVE  CatalogueInv'
<1> DEFINE here == importer[i]
<1>1. /\ Reading(i) /\ here.page \in DOMAIN List(i) /\ here.left = {}
      /\ visible' = visible \cup here.held
      /\ late' = late \cup {id \in here.held : Passed(id)}
      /\ UNCHANGED <<rows, identified, credits, cursor, enricher, checkpoint, imports, enriched,
                     shared, torn>>
  BY DEF CommitPage
<1>2. /\ ImporterPlaced(here) /\ Imported(here) /\ here.page \in Nat /\ ImportWork
      /\ checkpoint \subseteq Blocks /\ torn \subseteq Blocks /\ imports \in 0 .. MaxImports
  BY ImporterFacts
<1>3. /\ late \subseteq late' /\ late' \subseteq late \cup here.held
      /\ \A id \in here.held : id \in late' \/ ~Passed(id)
  BY <1>1
<1>4. \A b \in checkpoint \cup here.done : b \notin torn => BlockStored(b)
  BY <1>2 DEF ImportWork, Imported
<1>5. CASE here.at # "block" /\ (here.page = Len(Newest) \/ (here.at = "newest" /\ here.held = {}))
  <2>1. importer' = [importer EXCEPT ![i] = NoImport]
    BY <1>5 DEF CommitPage
  <2>2. /\ \A b \in (checkpoint' \cup NoImport.done) \ torn' : BlockStored(b)
        /\ checkpoint' \subseteq Blocks /\ torn' \subseteq Blocks /\ imports' \in 0 .. MaxImports
    BY <1>1, <1>2, <1>4, NoImportPlaced
  <2>3. NoImport.at # "block"
    BY NoImportPlaced
  <2> QED
    BY <1>1, <1>3, <2>1, <2>2, <2>3, NoImportPlaced, ImporterTurns
<1>6. CASE ~(here.at # "block" /\ (here.page = Len(Newest) \/ (here.at = "newest" /\ here.held = {})))
  <2>1. TurnTo(i, here.page + 1)
    BY <1>6 DEF CommitPage
  <2>2. here.at # "block" => here.page + 1 \in DOMAIN Newest
    <3>1. here.at # "block" => here.page \in 1 .. Len(Newest) /\ here.page # Len(Newest)
      BY <1>1, <1>6, PagesTyped DEF List, ListOf
    <3> QED
      BY <1>2, <3>1, PagesTyped
  <2>3. here.page + 1 \in Nat \ {0}
    BY <1>2
  <2>4. PICK task : /\ importer' = [importer EXCEPT ![i] = task]
                    /\ ImporterPlaced(task) /\ task.held = {}
                    /\ task.at = here.at /\ task.block = here.block
                    /\ task.done = here.done /\ task.page = here.page + 1
                    /\ task.left = FilmsOn(List(i), here.page + 1)
    BY <1>1, <2>1, <2>2, <2>3, NextPlaced
  <2>5. ASSUME task.at = "block", task.block \notin torn, NEW p \in DOMAIN Pages[task.block]
        PROVE  /\ p < task.page => Pages[task.block][p] \subseteq Stored \cup FilmsOf(here.held)
               /\ p = task.page => Pages[task.block][p] \subseteq task.left \cup Stored
    <3>1. here.block \in Blocks /\ List(i) = Pages[here.block]
      BY <1>2, <2>4, <2>5 DEF ImporterPlaced, List, ListOf
    <3>2. p \in Nat
      BY <2>4, <2>5, <3>1, PagesTyped
    <3>3. /\ p < here.page => Pages[here.block][p] \subseteq Stored
          /\ p = here.page => Pages[here.block][p] \subseteq Stored \cup FilmsOf(here.held)
      BY <1>1, <1>2, <2>4, <2>5 DEF Imported
    <3>4. p < here.page + 1 => p < here.page \/ p = here.page
      BY <1>2, <3>2
    <3>5. p = here.page + 1 => Pages[here.block][p] = task.left
      BY <2>4, <2>5, <3>1 DEF FilmsOn
    <3> QED
      BY <2>4, <3>3, <3>4, <3>5
  <2>6. /\ \A b \in (checkpoint' \cup task.done) \ torn' : BlockStored(b)
        /\ checkpoint' \subseteq Blocks /\ torn' \subseteq Blocks /\ imports' \in 0 .. MaxImports
    BY <1>1, <1>2, <1>4, <2>4
  <2> QED
    BY <1>1, <1>3, <2>4, <2>5, <2>6, ImporterTurns
<1> QED
  BY <1>5, <1>6

(* Steps that commit nothing.                                              *)
LEMMA NothingCommitted ==
  ASSUME CatalogueInv, NEW i \in Importers, NEW task, ImporterPlaced(task), task.held = {},
         importer' = [importer EXCEPT ![i] = task],
         UNCHANGED <<rows, visible, identified, credits, cursor, enricher, imports, enriched, late, shared>>,
         checkpoint' \subseteq Blocks, torn \subseteq torn', torn' \subseteq Blocks,
         \A b \in (checkpoint' \cup task.done) \ torn' : BlockStored(b),
         task.at = "block" /\ task.block \notin torn' =>
           \A p \in DOMAIN Pages[task.block] :
             /\ p < task.page => Pages[task.block][p] \subseteq Stored
             /\ p = task.page => Pages[task.block][p] \subseteq task.left \cup Stored
  PROVE  CatalogueInv'
<1>1. {} \subseteq importer[i].held /\ visible' = visible \cup {} /\ FilmsOf({}) = {}
  BY DEF FilmsOf
<1>2. imports' \in 0 .. MaxImports
  BY ImporterFacts
<1> QED
  BY <1>1, <1>2, ImporterTurns

LEMMA StartBlockStep ==
  ASSUME CatalogueInv, NEW i \in Importers, StartBlock(i)
  PROVE  CatalogueInv'
<1> DEFINE here == importer[i]
<1>1. /\ here.at = "choose"
      /\ UNCHANGED <<rows, visible, identified, credits, cursor, enricher, checkpoint, imports,
                     enriched, late, shared, torn>>
  BY DEF StartBlock
<1>2. /\ here \in Importing /\ ImporterPlaced(here) /\ here.done \subseteq Blocks /\ here.held = {}
      /\ checkpoint \subseteq Blocks /\ torn \subseteq Blocks
      /\ \A b \in (checkpoint \cup here.done) \ torn : BlockStored(b)
  BY <1>1, ImporterFacts DEF ImportWork, Imported, ImporterPlaced
<1>3. CASE here.done = Blocks
  <2>1. importer' = [importer EXCEPT ![i] = NoImport]
    BY <1>3 DEF StartBlock
  <2> QED
    BY <1>1, <1>2, <2>1, NoImportPlaced, NothingCommitted
<1>4. CASE here.done # Blocks
  <2> DEFINE b == CHOOSE c \in Blocks : c \notin here.done
             task == [here EXCEPT !.at = "block", !.block = b, !.page = 1, !.left = FilmsOn(Pages[b], 1)]
  <2>1. importer' = [importer EXCEPT ![i] = task]
    BY <1>2, <1>4 DEF StartBlock, CatalogueInv, CatalogueTyped, ImportTyped
  <2>2. b \in Blocks
    BY <1>2, <1>4
  <2> HIDE DEF b
  <2>3. FilmsOn(Pages[b], 1) \subseteq Films
    BY <2>2, FilmsOnTyped
  <2>4. /\ task \in Importing /\ task.at = "block" /\ task.block = b /\ task.page = 1 /\ task.held = {}
        /\ task.left = FilmsOn(Pages[b], 1) /\ task.done = here.done
    BY <1>2, <2>2, <2>3 DEF Importing
  <2> HIDE DEF task
  <2>5. ImporterPlaced(task)
    BY <2>2, <2>4 DEF ImporterPlaced, FilmsOf
  <2>6. ASSUME NEW p \in DOMAIN Pages[b]
        PROVE  ~(p < 1) /\ (p = 1 => Pages[b][p] = FilmsOn(Pages[b], 1))
    <3>1. p \in 1 .. Len(Pages[b])
      BY <2>2, <2>6, PagesTyped
    <3> QED
      BY <2>6, <3>1 DEF FilmsOn
  <2> QED
    BY <1>1, <1>2, <2>1, <2>4, <2>5, <2>6, NothingCommitted
<1> QED
  BY <1>3, <1>4

LEMMA BlockPageFailsStep ==
  ASSUME CatalogueInv, NEW i \in Importers, BlockPageFails(i)
  PROVE  CatalogueInv'
<1> DEFINE here == importer[i]
           b == here.block
<1>1. /\ here.at = "block" /\ torn' = torn \cup {b}
      /\ UNCHANGED <<rows, visible, identified, credits, cursor, enricher, checkpoint, imports,
                     enriched, late, shared>>
  BY DEF BlockPageFails
<1>2. /\ ImporterPlaced(here) /\ here.page \in Nat \ {0} /\ b \in Blocks
      /\ checkpoint \subseteq Blocks /\ torn \subseteq Blocks
      /\ \A c \in (checkpoint \cup here.done) \ torn : BlockStored(c)
  BY <1>1, ImporterFacts DEF ImportWork, Imported, ImporterPlaced
<1>3. PICK page \in {here.page + 1, Len(Pages[b]) + 1} : TurnTo(i, page)
  BY DEF BlockPageFails
<1>4. page \in Nat \ {0}
  BY <1>2, <1>3, PagesTyped
<1>5. PICK task : /\ importer' = [importer EXCEPT ![i] = task]
                  /\ ImporterPlaced(task) /\ task.held = {}
                  /\ task.block = b /\ task.done = here.done
  BY <1>1, <1>3, <1>4, NextPlaced DEF Reading
<1> QED
  BY <1>1, <1>2, <1>5, NothingCommitted

LEMMA EndBlockStep ==
  ASSUME CatalogueInv, NEW i \in Importers, EndBlock(i)
  PROVE  CatalogueInv'
<1> DEFINE here == importer[i]
           done == here.done \cup {here.block}
           task == [NoImport EXCEPT !.at = "choose", !.done = done]
<1>1. /\ here.at = "block" /\ BlockRead(i) /\ checkpoint' = done
      /\ importer' = [importer EXCEPT ![i] = task]
      /\ UNCHANGED <<rows, visible, identified, credits, cursor, enricher, imports, enriched, late,
                     shared, torn>>
  BY DEF EndBlock
<1>2. /\ ImporterPlaced(here) /\ Imported(here) /\ here.page \in Nat /\ here.block \in Blocks
      /\ here.done \subseteq Blocks /\ torn \subseteq Blocks
      /\ \A c \in here.done \ torn : BlockStored(c)
  BY <1>1, ImporterFacts DEF Imported, ImporterPlaced
<1>3. here.block \notin torn => BlockStored(here.block)
  <2> SUFFICES ASSUME here.block \notin torn, NEW p \in DOMAIN Pages[here.block]
               PROVE  Pages[here.block][p] \subseteq Stored
    BY DEF BlockStored
  <2>1. p \in 1 .. Len(Pages[here.block]) /\ Len(Pages[here.block]) \in Nat
    BY <1>2, PagesTyped
  <2>2. p < here.page
    BY <1>1, <1>2, <2>1 DEF BlockRead
  <2> QED
    BY <1>1, <1>2, <2>2 DEF Imported
<1>4. done \subseteq Blocks
  BY <1>2
<1>5. ImporterPlaced(task) /\ task.held = {} /\ task.at = "choose" /\ task.done = done
  BY <1>4 DEF ImporterPlaced, Importing, NoImport, FilmsOf
<1> QED
  BY <1>1, <1>2, <1>3, <1>4, <1>5, NothingCommitted

LEMMA ImporterStopsStep ==
  ASSUME CatalogueInv, NEW i \in Importers, ImporterStops(i)
  PROVE  CatalogueInv'
<1>1. /\ importer' = [importer EXCEPT ![i] = NoImport]
      /\ UNCHANGED <<rows, visible, identified, credits, cursor, enricher, checkpoint, imports,
                     enriched, late, shared, torn>>
  BY DEF ImporterStops
<1>2. /\ checkpoint \subseteq Blocks /\ torn \subseteq Blocks
      /\ \A b \in checkpoint \ torn : BlockStored(b)
  BY ImporterFacts DEF ImportWork
<1> QED
  BY <1>1, <1>2, NoImportPlaced, NothingCommitted

-----------------------------------------------------------------------------
LEMMA CatalogueInvStep == CatalogueInv /\ [CatalogueNext]_catalogueVars => CatalogueInv'
<1> SUFFICES ASSUME CatalogueInv, [CatalogueNext]_catalogueVars PROVE CatalogueInv'
  OBVIOUS
<1>1. CASE UNCHANGED catalogueVars
  <2>1. UNCHANGED <<rows, visible, identified, credits, cursor, enricher, importer, checkpoint,
                    imports, enriched, late, shared, torn>>
    BY <1>1 DEF catalogueVars
  <2>2. RowsTyped' /\ ImportTyped' /\ ImportWork'
    <3>1. RowsTyped'
      BY <2>1 DEF CatalogueInv, CatalogueTyped, RowsTyped, Flushed
    <3>2. ImportTyped'
      BY <2>1 DEF CatalogueInv, CatalogueTyped, ImportTyped, ImporterPlaced, FilmsOf
    <3>3. ImportWork'
      BY <2>1 DEF CatalogueInv, ImportWork, Imported, BlockStored, Stored, FilmsOf
    <3> QED
      BY <3>1, <3>2, <3>3
  <2>3. EnrichTyped' /\ CreditsCounted' /\ EnrichWork' /\ OneStores'
    <3>1. \A n \in DOMAIN rows : n \in DOMAIN rows' /\ rows'[n] = rows[n]
      BY <2>1
    <3>2. rows' \in Seq(Films) /\ visible' \subseteq DOMAIN rows'
      BY <2>1, RowsFacts DEF CatalogueInv, CatalogueTyped, RowsTyped
    <3> QED
      BY <2>1, <3>1, <3>2, SessionsStand
  <2> QED
    BY <2>2, <2>3 DEF CatalogueInv, CatalogueTyped
<1>2. ASSUME NEW e \in Enrichers,
             \/ TakeBatch(e) \/ LookUp(e) \/ SaveEnriched(e) \/ CloseBatch(e) \/ EnricherStops(e)
             \/ \E id \in visible : TakeOne(e, id)
      PROVE  CatalogueInv'
  BY <1>2, TakeBatchStep, TakeOneStep, LookUpStep, SaveStep, LeaveStep
<1>3. ASSUME NEW i \in Importers,
             \/ \E mode \in {"choose", "newest", "full"} : BeginImport(i, mode)
             \/ StartBlock(i) \/ CommitPage(i) \/ BlockPageFails(i) \/ EndBlock(i) \/ ImporterStops(i)
             \/ \E f \in Films : StoreMovie(i, f)
      PROVE  CatalogueInv'
  BY <1>3, BeginImportStep, StartBlockStep, CommitPageStep, BlockPageFailsStep, EndBlockStep,
     ImporterStopsStep, StoreMovieStep
<1> QED
  BY <1>1, <1>2, <1>3 DEF CatalogueNext

LEMMA CatalogueInvHolds == CatalogueSpec => []CatalogueInv
<1>1. CatalogueInit => CatalogueInv
  BY CatalogueInvInit
<1>2. CatalogueInv /\ [CatalogueNext]_catalogueVars => CatalogueInv'
  BY CatalogueInvStep
<1> QED
  BY <1>1, <1>2, PTL DEF CatalogueSpec

(* A movie has one row, whoever imports it at once; the rows an importer   *)
(* holds nobody sees; sessions and cursor stay among the rows, and a       *)
(* credit is stored at most once per session (movie_metadata_service.py:   *)
(* enrich_movie; workers/tasks.py: metadata_enrichment; the importers).    *)
THEOREM CatalogueTypesHold == CatalogueSpec => []CatalogueTypeOK
<1>1. CatalogueInv => CatalogueTypeOK
  <2> SUFFICES ASSUME CatalogueInv PROVE CatalogueTypeOK
    OBVIOUS
  <2>1. /\ RowsTyped /\ EnrichTyped /\ CreditsCounted /\ ImportTyped
        /\ DOMAIN rows = 1 .. Len(rows) /\ Len(rows) \in Nat
        /\ visible \subseteq DOMAIN rows /\ visible \subseteq Flushed
    BY RowsFacts DEF CatalogueInv, CatalogueTyped
  <2>2. credits \in [Films -> 0 .. Cardinality(Enrichers)]
    <3>1. ASSUME NEW f \in Films PROVE credits[f] \in 0 .. Cardinality(Enrichers)
      <4>1. Storing(f) \subseteq Enrichers
        BY DEF Storing
      <4>2. Cardinality(Storing(f)) \in Nat /\ Cardinality(Enrichers) \in Nat
        BY <4>1, StoringSome
      <4>3. credits[f] \in Nat /\ credits[f] + Cardinality(Storing(f)) <= Cardinality(Enrichers)
        BY <2>1 DEF EnrichTyped, CreditsCounted
      <4> QED
        BY <4>2, <4>3
    <3> QED
      BY <2>1, <3>1 DEF EnrichTyped
  <2>3. ASSUME NEW e \in Enrichers
        PROVE  /\ enricher[e].at \in {"rest", "fetch", "save", "close"}
               /\ enricher[e].todo \subseteq visible
               /\ {enricher[e].id, enricher[e].before} \subseteq visible \cup {0}
    <3>1. EnricherPlaced(enricher[e])
      BY <2>1 DEF EnrichTyped
    <3> QED
      BY <3>1 DEF EnricherPlaced, Enriching
  <2>4. ASSUME NEW i \in Importers
        PROVE  /\ importer[i].at \in {"rest", "choose", "block", "newest", "full"}
               /\ importer[i].held \subseteq DOMAIN rows \ visible
               /\ importer[i].left \subseteq Films
    <3>1. importer[i] \in Importing /\ importer[i].held \cap visible = {}
      BY ImporterFacts DEF ImporterPlaced
    <3>2. importer[i].held \subseteq DOMAIN rows
      BY <2>1 DEF RowsTyped, Flushed
    <3> QED
      BY <3>1, <3>2 DEF Importing
  <2>5. /\ rows \in Seq(Films) /\ late \subseteq visible
        /\ \A m, n \in visible : rows[m] = rows[n] => m = n
    BY <2>1 DEF RowsTyped
  <2> QED
    BY <2>1, <2>2, <2>3, <2>4, <2>5 DEF CatalogueTypeOK, EnrichTyped, ImportTyped
<1> QED
  BY <1>1, CatalogueInvHolds, PTL

(* Whatever importers commit, in whatever order of their ids, and wherever *)
(* anybody stops: every movie up to the stored cursor was enriched, but    *)
(* for one committed behind the cursor or behind the run that moves it;    *)
(* and every movie of a block on file is stored unless a page of it failed *)
(* (workers/tasks.py: metadata_enrichment; bulk_importer.py:               *)
(* _import_language_year).                                                 *)
THEOREM CheckpointsTrail == CatalogueSpec => []CheckpointsTrailWork
<1>1. CatalogueInv => CheckpointsTrailWork
  BY DEF CatalogueInv, EnrichWork, ImportWork, BlockStored, CheckpointsTrailWork
<1> QED
  BY <1>1, CatalogueInvHolds, PTL

(* A credit of a movie no two sessions enriched at once is stored once     *)
(* (movie_metadata_service.py: enrich_movie).                              *)
THEOREM CreditsOnce == CatalogueSpec => []CreditOnce
<1>1. CatalogueInv => CreditOnce
  BY DEF CatalogueInv, OneStores, CreditOnce
<1> QED
  BY <1>1, CatalogueInvHolds, PTL
=============================================================================
