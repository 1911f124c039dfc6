---------------------------- MODULE UpkeepProofs ----------------------------
(*****************************************************************************)
(* Theorems about two scheduled jobs: Notices, for any number of workers,   *)
(* requests and channels, and Images, for any album, any fallbacks and any  *)
(* number of sessions, wherever workers die. A notice goes out once, and a  *)
(* picture that was looked at is there or reported.                         *)
(*****************************************************************************)
EXTENDS Notices, Images, FiniteSetTheorems, TLAPS

-----------------------------------------------------------------------------
(* Notices about open requests.                                            *)
Duties == {"rest", "deliver", "log", "mark"}
Duty == [at : Duties, notice : SlaNotices \cup {<<0, 0>>}, took : BOOLEAN]

(* sent is bounded in NoticeTypeOK by what an instance can do; here it is  *)
(* any number.                                                             *)
NoticeTyped ==
  /\ worker \in [Workers -> Duty]
  /\ sent \in [SlaNotices -> Nat]
  /\ \A w \in Workers : ~At(w, "rest") => worker[w].notice \in SlaNotices

LEMMA OffDutyTyped == OffDuty \in Duty /\ OffDuty.at = "rest"
BY DEF OffDuty, Duty, Duties

-----------------------------------------------------------------------------
(* At most one worker sends a notice that is not in doubt; while it has    *)
(* not, nobody has.  What was sent is in the log, or a mark stands for it, *)
(* or one will, though the channel said that it failed.                    *)

Notifies(w, n) == worker[w].at \in {"deliver", "log"} /\ worker[w].notice = n
Attends(w, n) == worker[w].at \in {"log", "mark"} /\ worker[w].notice = n
Settled(n) == n \in logged \/ n \in marked

Accounted(n) ==
  /\ \A v, w \in Workers : Notifies(v, n) /\ Notifies(w, n) => v = w
  /\ \A w \in Workers : At(w, "deliver") /\ worker[w].notice = n => sent[n] = 0
  /\ sent[n] <= 1
  /\ sent[n] = 1 => Settled(n) \/ \E w \in Workers : Attends(w, n)

NoticeInv == NoticeTyped /\ \A n \in SlaNotices \ doubtful : Accounted(n)

LEMMA NoticeInvInit == NoticeInit => NoticeInv
<1> SUFFICES ASSUME NoticeInit PROVE NoticeInv
  OBVIOUS
<1>1. \A w \in Workers : worker[w] = OffDuty
  BY DEF NoticeInit
<1>2. NoticeTyped
  BY <1>1, OffDutyTyped DEF NoticeInit, NoticeTyped, At
<1>3. ASSUME NEW n \in SlaNotices PROVE Accounted(n)
  BY <1>1, OffDutyTyped DEF NoticeInit, Accounted, Notifies, At
<1> QED
  BY <1>2, <1>3 DEF NoticeInv

(* notify: whoever goes to the channels alone finds the notice unsent.     *)
LEMMA CheckSlaStep ==
  ASSUME NoticeInv, NEW w \in Workers, NEW r \in Asked, NEW level \in Levels, CheckSla(w, r, level)
  PROVE  NoticeInv'
<1> DEFINE n == <<r, level>>
<1> DEFINE to == IF Cools(n) THEN "mark" ELSE "deliver"
<1>0. /\ n \in SlaNotices /\ At(w, "rest") /\ n \notin marked
      /\ worker' = [worker EXCEPT ![w] = [at |-> to, notice |-> n, took |-> FALSE]]
      /\ doubtful' = IF ~Cools(n) /\ Company(w, n) THEN doubtful \cup {n} ELSE doubtful
      /\ UNCHANGED <<logged, marked, sent>>
  BY DEF CheckSla, Notify, SlaNotices
<1> HIDE DEF n
<1>1. [at |-> to, notice |-> n, took |-> FALSE] \in Duty
  BY <1>0 DEF Duty, Duties
<1>2. /\ worker' \in [Workers -> Duty]
      /\ worker'[w] = [at |-> to, notice |-> n, took |-> FALSE]
      /\ \A v \in Workers \ {w} : worker'[v] = worker[v]
  BY <1>0, <1>1 DEF NoticeInv, NoticeTyped
<1>3. NoticeTyped'
  BY <1>0, <1>2 DEF NoticeInv, NoticeTyped, At
<1>4. ASSUME NEW x \in SlaNotices \ doubtful' PROVE Accounted(x)'
  <2>1. x \notin doubtful /\ Accounted(x)
    BY <1>0, <1>4 DEF NoticeInv
  <2>2. /\ Settled(x)' <=> Settled(x)
        /\ \A v \in Workers : Attends(v, x) => Attends(v, x)'
    BY <1>0, <1>2 DEF Attends, At, Settled
  <2>3. CASE x # n \/ Cools(n)
    <3>1. \A v \in Workers : Notifies(v, x)' => Notifies(v, x) /\ v # w
      BY <1>2, <2>3 DEF Notifies
    <3>2. \A v \in Workers : At(v, "deliver")' /\ worker'[v].notice = x => At(v, "deliver") /\ worker[v].notice = x
      BY <1>2, <2>3 DEF At
    <3> QED
      BY <1>0, <2>1, <2>2, <3>1, <3>2 DEF Accounted
  <2>4. CASE x = n /\ ~Cools(n)
    <3>1. ~Company(w, n) /\ n \notin logged
      BY <1>0, <1>4, <2>4 DEF Cools
    <3>2. \A v \in Workers \ {w} : worker[v].at = "rest" \/ worker[v].notice # n
      BY <3>1 DEF Company, At
    <3>3. (\A v \in Workers : ~Attends(v, n)) /\ ~Settled(n)
      BY <1>0, <3>1, <3>2 DEF Attends, At, Settled
    <3>4. sent[n] = 0
      BY <1>0, <2>1, <2>4, <3>3 DEF Accounted, NoticeInv, NoticeTyped
    <3>5. \A v \in Workers : Notifies(v, n)' => v = w
      BY <1>2, <3>2 DEF Notifies
    <3> QED
      BY <1>0, <2>4, <3>4, <3>5 DEF Accounted
  <2> QED
    BY <2>3, <2>4
<1> QED
  BY <1>3, <1>4 DEF NoticeInv

(* What the channels make of a delivery.                                   *)
LEMMA SendGrows ==
  ASSUME NoticeInv, NEW w \in Workers, Send(w)
  PROVE  \E took \in BOOLEAN : \E count \in {sent[worker[w].notice], sent[worker[w].notice] + 1} :
           /\ worker' = [worker EXCEPT ![w].at = "log", ![w].took = took]
           /\ sent' = [sent EXCEPT ![worker[w].notice] = count]
<1>1. PICK took \in SUBSET Channels, unseen \in SUBSET Channels :
        /\ worker' = [worker EXCEPT ![w].at = "log", ![w].took = took # {}]
        /\ sent' = [sent EXCEPT ![worker[w].notice] = IF took \cup unseen = {} THEN @ ELSE @ + 1]
  BY DEF Send
<1> DEFINE count == IF took \cup unseen = {} THEN sent[worker[w].notice] ELSE sent[worker[w].notice] + 1
           accepted == took # {}
<1>2. accepted \in BOOLEAN /\ count \in {sent[worker[w].notice], sent[worker[w].notice] + 1}
  OBVIOUS
<1>3. /\ worker' = [worker EXCEPT ![w].at = "log", ![w].took = accepted]
      /\ sent' = [sent EXCEPT ![worker[w].notice] = count]
  BY <1>1
<1> HIDE DEF count, accepted
<1> QED
  BY <1>2, <1>3, Zenon

LEMMA SendStep == ASSUME NoticeInv, NEW w \in Workers, Send(w) PROVE NoticeInv'
<1>0. PICK n \in SlaNotices : worker[w].notice = n
  BY DEF Send, NoticeInv, NoticeTyped, At
<1>1. PICK took \in BOOLEAN, count \in {sent[n], sent[n] + 1} :
        /\ worker' = [worker EXCEPT ![w].at = "log", ![w].took = took]
        /\ sent' = [sent EXCEPT ![n] = count]
  BY <1>0, SendGrows
<1>2. At(w, "deliver") /\ UNCHANGED <<logged, marked, doubtful>>
  BY DEF Send
<1>3. /\ worker' \in [Workers -> Duty]
      /\ worker'[w].at = "log" /\ worker'[w].notice = n
      /\ \A v \in Workers \ {w} : worker'[v] = worker[v]
  BY <1>0, <1>1 DEF NoticeInv, NoticeTyped, Duty, Duties
<1>4. /\ sent' \in [SlaNotices -> Nat]
      /\ \A x \in SlaNotices : sent'[x] = IF x = n THEN count ELSE sent[x]
  BY <1>1, <1>2 DEF NoticeInv, NoticeTyped
<1>5. NoticeTyped'
  BY <1>2, <1>3, <1>4 DEF NoticeInv, NoticeTyped, At
<1>6. ASSUME NEW x \in SlaNotices \ doubtful' PROVE Accounted(x)'
  <2>1. Accounted(x)
    BY <1>2, <1>6 DEF NoticeInv
  <2>2. /\ Settled(x)' <=> Settled(x)
        /\ \A v \in Workers : /\ Notifies(v, x)' <=> Notifies(v, x)
                              /\ Attends(v, x) => Attends(v, x)'
    BY <1>0, <1>2, <1>3 DEF Notifies, Attends, At, Settled
  <2>3. CASE x # n
    <3>1. \A v \in Workers :
            (At(v, "deliver") /\ worker[v].notice = x)' => At(v, "deliver") /\ worker[v].notice = x
      BY <1>2, <1>3, <2>3 DEF At
    <3> QED
      BY <1>2, <1>4, <2>1, <2>2, <2>3, <3>1 DEF Accounted
  <2>4. CASE x = n
    <3>0. Accounted(n)
      BY <2>1, <2>4
    <3>1. sent[n] = 0 /\ Notifies(w, n)
      BY <1>0, <1>2, <3>0 DEF Accounted, Notifies, At
    <3>2. ASSUME NEW v \in Workers, worker'[v].at = "deliver", worker'[v].notice = n PROVE FALSE
      <4>1. v # w
        BY <1>3, <3>2
      <4>2. Notifies(v, n)
        BY <1>3, <3>2, <4>1 DEF Notifies
      <4> QED
        BY <3>0, <3>1, <4>1, <4>2 DEF Accounted
    <3>3. Attends(w, n)'
      BY <1>3 DEF Attends
    <3>4. sent'[n] <= 1
      BY <1>4, <3>1
    <3>5. \A u, v \in Workers : Notifies(u, n)' /\ Notifies(v, n)' => u = v
      BY <2>2, <2>4, <3>0 DEF Accounted
    <3> QED
      BY <2>4, <3>2, <3>3, <3>4, <3>5 DEF Accounted, At
  <2> QED
    BY <2>3, <2>4
<1> QED
  BY <1>5, <1>6 DEF NoticeInv

LEMMA LogStep == ASSUME NoticeInv, NEW w \in Workers, Log(w) PROVE NoticeInv'
<1>1. /\ At(w, "log") /\ UNCHANGED <<marked, sent, doubtful>>
      /\ logged \subseteq logged'
      /\ worker' \in [Workers -> Duty]
      /\ worker'[w].at = "mark" /\ worker'[w].notice = worker[w].notice
      /\ \A v \in Workers \ {w} : worker'[v] = worker[v]
  BY DEF Log, NoticeInv, NoticeTyped, Duty, Duties
<1>2. NoticeTyped'
  BY <1>1 DEF NoticeInv, NoticeTyped, At
<1>3. ASSUME NEW x \in SlaNotices \ doubtful' PROVE Accounted(x)'
  <2>1. Accounted(x)
    BY <1>1, <1>3 DEF NoticeInv
  <2>2. \A v \in Workers : /\ Notifies(v, x)' => Notifies(v, x)
                           /\ (At(v, "deliver") /\ worker[v].notice = x)' => At(v, "deliver") /\ worker[v].notice = x
                           /\ Attends(v, x) => Attends(v, x)'
    BY <1>1 DEF Notifies, Attends, At
  <2>3. Settled(x) => Settled(x)'
    BY <1>1 DEF Settled
  <2> QED
    BY <1>1, <2>1, <2>2, <2>3 DEF Accounted
<1> QED
  BY <1>2, <1>3 DEF NoticeInv

(* A worker leaves: done, with its mark, or dead, and then the notice it   *)
(* had sent is in doubt if the log does not have it.                       *)
LEMMA NoticeLeaves ==
  ASSUME NoticeInv, NEW w \in Workers, Mark(w) \/ WorkerDies(w)
  PROVE  NoticeInv'
<1>1. worker' = [worker EXCEPT ![w] = OffDuty] /\ UNCHANGED <<logged, sent>>
  BY DEF Mark, WorkerDies
<1>2. /\ worker' \in [Workers -> Duty] /\ worker'[w].at = "rest"
      /\ \A v \in Workers \ {w} : worker'[v] = worker[v]
  BY <1>1, OffDutyTyped DEF NoticeInv, NoticeTyped
<1>3. NoticeTyped'
  BY <1>1, <1>2 DEF NoticeInv, NoticeTyped, At
<1>4. doubtful \subseteq doubtful' /\ marked \subseteq marked'
  BY DEF Mark, WorkerDies
<1>5. ASSUME NEW x \in SlaNotices \ doubtful' PROVE Accounted(x)'
  <2>1. Accounted(x)
    BY <1>4, <1>5 DEF NoticeInv
  <2>2. \A v \in Workers : /\ Notifies(v, x)' => Notifies(v, x)
                           /\ (At(v, "deliver") /\ worker[v].notice = x)' => At(v, "deliver") /\ worker[v].notice = x
                           /\ v # w /\ Attends(v, x) => Attends(v, x)'
    BY <1>1, <1>2 DEF Notifies, Attends, At
  <2>3. Settled(x) => Settled(x)'
    BY <1>1, <1>4 DEF Settled
  <2>4. Attends(w, x) /\ sent[x] = 1 => Settled(x)'
    <3>1. CASE Mark(w)
      BY <1>1, <3>1 DEF Mark, Attempts, Attends, Settled
    <3>2. CASE WorkerDies(w)
      BY <1>1, <1>5, <3>2 DEF WorkerDies, OnRecord, Attends, Settled
    <3> QED
      BY <3>1, <3>2
  <2> QED
    BY <1>1, <2>1, <2>2, <2>3, <2>4 DEF Accounted
<1> QED
  BY <1>3, <1>5 DEF NoticeInv

LEMMA NoticeInvStep == NoticeInv /\ [NoticeNext]_noticeVars => NoticeInv'
<1> SUFFICES ASSUME NoticeInv, [NoticeNext]_noticeVars PROVE NoticeInv'
  OBVIOUS
<1>1. ASSUME NEW w \in Workers, NEW r \in Asked, NEW level \in Levels, CheckSla(w, r, level)
      PROVE  NoticeInv'
  BY <1>1, CheckSlaStep
<1>2. ASSUME NEW w \in Workers, WorkerStep(w) \/ WorkerDies(w) PROVE NoticeInv'
  BY <1>2, SendStep, LogStep, NoticeLeaves DEF WorkerStep
<1>3. CASE (\E r \in Asked : Close(r) \/ Older(r)) \/ UNCHANGED noticeVars
  <2>1. UNCHANGED <<worker, sent, logged, marked, doubtful>>
    BY <1>3 DEF Close, Older, noticeVars
  <2> QED
    BY <2>1 DEF NoticeInv, NoticeTyped, Accounted, Notifies, Attends, Settled, At
<1> QED
  BY <1>1, <1>2, <1>3 DEF NoticeNext

(* A notice is delivered once, whatever the number of passes and whatever  *)
(* the channels report, if no two were at it together and none died with   *)
(* the delivery unlogged (NotificationService.notify under check_sla).     *)
THEOREM NoticesGoOutOnce == NoticeSpec => []NoticeOnce
<1>1. NoticeInit => NoticeInv
  BY NoticeInvInit
<1>2. NoticeInv /\ [NoticeNext]_noticeVars => NoticeInv'
  BY NoticeInvStep
<1>3. NoticeInv => NoticeOnce
  BY DEF NoticeInv, Accounted, NoticeOnce
<1> QED
  BY <1>1, <1>2, <1>3, PTL DEF NoticeSpec

-----------------------------------------------------------------------------
(* Types, with the bound on sent.  While a notice is neither in the log    *)
(* nor marked only those delivered it who are about to mark it, and the    *)
(* dead; once it is, only those deliver it who looked before.              *)
Takers(n) == {w \in Workers : Attends(w, n)}
Senders(n) == {w \in Workers : At(w, "deliver") /\ worker[w].notice = n}

Tallied(n) ==
  /\ ~Settled(n) => sent[n] <= lostWorkers + Cardinality(Takers(n))
  /\ Settled(n) => sent[n] + Cardinality(Senders(n)) <= lostWorkers + Cardinality(Workers)

NoticeBound ==
  /\ open \subseteq Asked
  /\ age \in [Asked -> {0} \cup Levels]
  /\ marked \subseteq SlaNotices /\ logged \subseteq SlaNotices /\ doubtful \subseteq SlaNotices
  /\ lostWorkers \in 0 .. MaxLostWorkers
  /\ \A n \in SlaNotices : Tallied(n)

LEMMA WorkersFinite ==
  ASSUME NEW S \in SUBSET Workers
  PROVE  /\ IsFiniteSet(S) /\ Cardinality(S) \in Nat /\ Cardinality(Workers) \in Nat
         /\ Cardinality(S) <= Cardinality(Workers)
BY NoticeAssumption, FS_Subset, FS_CardinalityType

LEMMA NoticeBoundInit == NoticeInit => NoticeBound
<1> SUFFICES ASSUME NoticeInit PROVE NoticeBound
  OBVIOUS
<1>1. ASSUME NEW n \in SlaNotices PROVE Tallied(n)
  <2>1. Takers(n) \in SUBSET Workers
    BY DEF Takers
  <2>2. Cardinality(Takers(n)) \in Nat
    BY <2>1, WorkersFinite
  <2> QED
    BY <2>2 DEF NoticeInit, Tallied, Settled
<1> QED
  BY <1>1, NoticeAssumption DEF NoticeInit, NoticeBound, Levels

(* A step that settles nothing and sends nothing keeps the tally if it     *)
(* lets nobody about to mark go, and brings no sender of a settled notice. *)
LEMMA SameTally ==
  ASSUME NoticeInv, NoticeBound, UNCHANGED <<sent, lostWorkers>>, NEW n \in SlaNotices,
         Settled(n)' <=> Settled(n),
         Takers(n) \subseteq Takers(n)', Settled(n) => Senders(n)' \subseteq Senders(n)
  PROVE  Tallied(n)'
<1>1. Takers(n)' \in SUBSET Workers /\ Senders(n) \in SUBSET Workers
  BY DEF Takers, Senders
<1>2. Cardinality(Takers(n)) \in Nat /\ Cardinality(Takers(n)') \in Nat
      /\ Cardinality(Takers(n)) <= Cardinality(Takers(n)')
  BY <1>1, WorkersFinite, FS_Subset, FS_CardinalityType
<1>3. Settled(n) => /\ Cardinality(Senders(n)') \in Nat /\ Cardinality(Senders(n)) \in Nat
                    /\ Cardinality(Senders(n)') <= Cardinality(Senders(n))
  BY <1>1, WorkersFinite, FS_Subset, FS_CardinalityType
<1>4. sent[n] \in Nat /\ lostWorkers \in Nat /\ Cardinality(Workers) \in Nat /\ Tallied(n)
  BY <1>1, WorkersFinite DEF NoticeInv, NoticeTyped, NoticeBound
<1> QED
  BY <1>2, <1>3, <1>4 DEF Tallied

LEMMA StaysSettled ==
  ASSUME NoticeInv, NoticeBound, UNCHANGED <<sent, lostWorkers>>, NEW n \in SlaNotices,
         Settled(n), Settled(n)', Senders(n)' \subseteq Senders(n)
  PROVE  Tallied(n)'
<1>1. Senders(n) \in SUBSET Workers /\ Senders(n)' \in SUBSET Workers
  BY DEF Senders
<1>2. /\ Cardinality(Senders(n)') \in Nat /\ Cardinality(Senders(n)) \in Nat
      /\ Cardinality(Senders(n)') <= Cardinality(Senders(n))
  BY <1>1, WorkersFinite, FS_Subset, FS_CardinalityType
<1>3. sent[n] \in Nat /\ lostWorkers \in Nat /\ Cardinality(Workers) \in Nat /\ Tallied(n)
  BY <1>1, WorkersFinite DEF NoticeInv, NoticeTyped, NoticeBound
<1> QED
  BY <1>2, <1>3 DEF Tallied

LEMMA CheckSlaBound ==
  ASSUME NoticeInv, NoticeBound, NEW w \in Workers, NEW r \in Asked, NEW level \in Levels, CheckSla(w, r, level)
  PROVE  NoticeBound'
<1> DEFINE n == <<r, level>>
           to == IF Cools(n) THEN "mark" ELSE "deliver"
<1>1. /\ n \in SlaNotices /\ At(w, "rest") /\ n \notin marked
      /\ worker' = [worker EXCEPT ![w] = [at |-> to, notice |-> n, took |-> FALSE]]
      /\ doubtful' \in {doubtful, doubtful \cup {n}}
      /\ UNCHANGED <<open, age, marked, logged, sent, lostWorkers>>
  BY DEF CheckSla, Notify, SlaNotices
<1>2. /\ worker'[w].at = to /\ worker'[w].notice = n
      /\ \A v \in Workers \ {w} : worker'[v] = worker[v]
  BY <1>1 DEF NoticeInv, NoticeTyped
<1>3. to # "log" /\ (n \in logged => to # "deliver")
  BY DEF Cools
<1> HIDE DEF n, to
<1>4. ASSUME NEW x \in SlaNotices PROVE Tallied(x)'
  <2>1. (Settled(x)' <=> Settled(x)) /\ Takers(x) \subseteq Takers(x)'
    BY <1>1, <1>2 DEF Takers, Attends, At, Settled
  <2>2. Settled(x) => Senders(x)' \subseteq Senders(x)
    BY <1>1, <1>2, <1>3 DEF Senders, At, Settled
  <2> QED
    BY <1>1, <2>1, <2>2, SameTally
<1> QED
  BY <1>1, <1>4 DEF NoticeBound

LEMMA SendBound == ASSUME NoticeInv, NoticeBound, NEW w \in Workers, Send(w) PROVE NoticeBound'
<1>0. PICK n \in SlaNotices : worker[w].notice = n
  BY DEF Send, NoticeInv, NoticeTyped, At
<1>1. PICK took \in BOOLEAN, count \in {sent[n], sent[n] + 1} :
        /\ worker' = [worker EXCEPT ![w].at = "log", ![w].took = took]
        /\ sent' = [sent EXCEPT ![n] = count]
  BY <1>0, SendGrows
<1>2. At(w, "deliver") /\ UNCHANGED <<open, age, marked, logged, doubtful, lostWorkers>>
  BY DEF Send
<1>3. /\ worker'[w].at = "log" /\ worker'[w].notice = n
      /\ \A v \in Workers \ {w} : worker'[v] = worker[v]
  BY <1>0, <1>1 DEF NoticeInv, NoticeTyped, Duty, Duties
<1>4. /\ \A x \in SlaNotices : sent'[x] = (IF x = n THEN count ELSE sent[x]) /\ sent[x] \in Nat
  BY <1>1 DEF NoticeInv, NoticeTyped
<1>5. ASSUME NEW x \in SlaNotices PROVE Tallied(x)'
  <2>0. /\ Takers(x) \in SUBSET Workers /\ Senders(x) \in SUBSET Workers
        /\ Cardinality(Takers(x)) \in Nat /\ Cardinality(Senders(x)) \in Nat /\ Cardinality(Workers) \in Nat
        /\ IsFiniteSet(Takers(x)) /\ IsFiniteSet(Senders(x))
        /\ lostWorkers \in Nat /\ Tallied(x) /\ sent[x] \in Nat
    <3>1. Takers(x) \in SUBSET Workers /\ Senders(x) \in SUBSET Workers
      BY DEF Takers, Senders
    <3> QED
      BY <3>1, <1>4, WorkersFinite DEF NoticeBound
  <2>3. Settled(x)' <=> Settled(x)
    BY <1>2 DEF Settled
  <2>1. CASE x # n
    <3>1. Takers(x)' = Takers(x) /\ Senders(x)' = Senders(x)
      BY <1>0, <1>2, <1>3, <2>1 DEF Takers, Senders, Attends, At
    <3> QED
      BY <1>2, <1>4, <2>0, <2>1, <2>3, <3>1 DEF Tallied
  <2>2. CASE x = n
    <3>1. Senders(x)' = Senders(x) \ {w} /\ w \in Senders(x)
      BY <1>0, <1>2, <1>3, <2>2 DEF Senders, At
    <3>2. Cardinality(Senders(x)') = Cardinality(Senders(x)) - 1
      BY <2>0, <3>1, FS_RemoveElement
    <3>3. Takers(x)' = Takers(x) \cup {w} /\ w \notin Takers(x)
      BY <1>0, <1>2, <1>3, <2>2 DEF Takers, Attends, At
    <3>4. Cardinality(Takers(x)') = Cardinality(Takers(x)) + 1
      BY <2>0, <3>3, FS_AddElement
    <3> QED
      BY <1>2, <1>4, <2>0, <2>2, <2>3, <3>2, <3>4 DEF Tallied
  <2> QED
    BY <2>1, <2>2
<1> QED
  BY <1>2, <1>5 DEF NoticeBound

(* A notice that settles was sent by those about to mark it, who are no    *)
(* senders of it any more.                                                 *)
LEMMA Settles ==
  ASSUME NoticeInv, NoticeBound, UNCHANGED <<sent, lostWorkers>>, NEW n \in SlaNotices,
         ~Settled(n), Settled(n)', Senders(n)' \subseteq Senders(n)
  PROVE  Tallied(n)'
<1>0. /\ Takers(n) \in SUBSET Workers /\ Senders(n)' \in SUBSET Workers /\ Senders(n)' \subseteq Workers \ Takers(n)
  BY DEF Takers, Senders, Attends, At
<1>1. /\ IsFiniteSet(Takers(n)) /\ IsFiniteSet(Senders(n)')
      /\ Cardinality(Takers(n)) \in Nat /\ Cardinality(Senders(n)') \in Nat /\ Cardinality(Workers) \in Nat
  BY <1>0, WorkersFinite
<1>2. lostWorkers \in Nat /\ Tallied(n) /\ sent[n] \in Nat
  BY DEF NoticeBound, NoticeInv, NoticeTyped
<1>3. Cardinality(Takers(n)) + Cardinality(Senders(n)') <= Cardinality(Workers)
  <2> DEFINE T == Takers(n)
             S == Senders(n)'
  <2>0. T \cap S = {} /\ T \cup S \in SUBSET Workers /\ IsFiniteSet(T) /\ IsFiniteSet(S)
        /\ Cardinality(T) \in Nat /\ Cardinality(S) \in Nat
    BY <1>0, <1>1
  <2> HIDE DEF T, S
  <2>1. Cardinality(T \cup S) = Cardinality(T) + Cardinality(S) - Cardinality(T \cap S)
    BY <2>0, FS_Union
  <2>2. Cardinality(T \cap S) = 0
    BY <2>0, FS_EmptySet
  <2>3. Cardinality(T \cup S) <= Cardinality(Workers)
    BY <2>0, WorkersFinite
  <2>4. Cardinality(T) + Cardinality(S) <= Cardinality(Workers)
    BY <2>0, <2>1, <2>2, <2>3
  <2> QED
    BY <2>4 DEF T, S
<1>4. sent[n] <= lostWorkers + Cardinality(Takers(n))
  BY <1>2 DEF Tallied
<1>5. sent'[n] = sent[n] /\ lostWorkers' = lostWorkers
  OBVIOUS
<1> QED
  BY <1>1, <1>2, <1>3, <1>4, <1>5 DEF Tallied

LEMMA LogBound == ASSUME NoticeInv, NoticeBound, NEW w \in Workers, Log(w) PROVE NoticeBound'
<1>1. /\ At(w, "log") /\ UNCHANGED <<open, age, marked, sent, doubtful, lostWorkers>>
      /\ logged \subseteq logged' /\ logged' \subseteq logged \cup {worker[w].notice}
      /\ worker'[w].at = "mark" /\ worker'[w].notice = worker[w].notice
      /\ \A v \in Workers \ {w} : worker'[v] = worker[v]
      /\ worker[w].notice \in SlaNotices
  BY DEF Log, NoticeInv, NoticeTyped, Duty, Duties, At
<1>2. ASSUME NEW x \in SlaNotices PROVE Tallied(x)'
  <2>1. /\ Senders(x)' = Senders(x) /\ Takers(x) \subseteq Takers(x)'
        /\ Settled(x) => Settled(x)'
    BY <1>1 DEF Senders, Takers, Attends, At, Settled
  <2>2. CASE Settled(x)' <=> Settled(x)
    BY <1>1, <2>1, <2>2, SameTally
  <2>3. CASE ~Settled(x) /\ Settled(x)'
    BY <1>1, <2>1, <2>3, Settles
  <2> QED
    BY <2>1, <2>2, <2>3
<1> QED
  BY <1>1, <1>2 DEF NoticeBound

LEMMA LeaveBound ==
  ASSUME NoticeInv, NoticeBound, NEW w \in Workers, Mark(w) \/ WorkerDies(w)
  PROVE  NoticeBound'
<1>1. /\ worker' = [worker EXCEPT ![w] = OffDuty] /\ UNCHANGED <<open, age, logged, sent>>
      /\ ~At(w, "rest")
  BY DEF Mark, WorkerDies, At
<1>2. /\ worker'[w].at = "rest" /\ worker[w].notice \in SlaNotices
      /\ \A v \in Workers \ {w} : worker'[v] = worker[v]
  BY <1>1, OffDutyTyped DEF NoticeInv, NoticeTyped
<1>3. \A x : Senders(x)' \subseteq Senders(x)
  BY <1>2 DEF Senders, At
<1>4. CASE Mark(w)
  <2>1. /\ At(w, "mark") /\ marked' = marked \cup {worker[w].notice} /\ UNCHANGED <<doubtful, lostWorkers>>
    BY <1>4 DEF Mark, Attempts
  <2>2. ASSUME NEW x \in SlaNotices PROVE Tallied(x)'
    <3>1. /\ Settled(x) => Settled(x)'
          /\ x = worker[w].notice => Settled(x)'
          /\ x # worker[w].notice => (Settled(x)' <=> Settled(x)) /\ Takers(x) \subseteq Takers(x)'
      BY <1>1, <1>2, <2>1 DEF Takers, Attends, Settled
    <3>2. CASE Settled(x)
      BY <1>1, <1>3, <2>1, <3>1, <3>2, StaysSettled
    <3>3. CASE ~Settled(x) /\ Settled(x)'
      BY <1>1, <1>3, <2>1, <3>3, Settles
    <3>4. CASE ~Settled(x) /\ ~Settled(x)'
      BY <1>1, <1>3, <2>1, <3>1, <3>4, SameTally
    <3> QED
      BY <3>2, <3>3, <3>4
  <2> QED
    BY <1>1, <1>2, <2>1, <2>2 DEF NoticeBound
<1>5. CASE WorkerDies(w)
  <2>1. /\ lostWorkers < MaxLostWorkers /\ lostWorkers' = lostWorkers + 1 /\ marked' = marked
        /\ doubtful' \in {doubtful, doubtful \cup {worker[w].notice}}
    BY <1>5 DEF WorkerDies
  <2>4. \A x : Settled(x)' <=> Settled(x)
    BY <1>1, <2>1 DEF Settled
  <2>2. ASSUME NEW x \in SlaNotices PROVE Tallied(x)'
    <3>0. /\ Takers(x) \in SUBSET Workers /\ Senders(x) \in SUBSET Workers
          /\ IsFiniteSet(Takers(x)) /\ IsFiniteSet(Senders(x))
          /\ Cardinality(Takers(x)) \in Nat /\ Cardinality(Senders(x)) \in Nat /\ Cardinality(Workers) \in Nat
          /\ lostWorkers \in Nat /\ Tallied(x) /\ sent[x] \in Nat
      <4>1. Takers(x) \in SUBSET Workers /\ Senders(x) \in SUBSET Workers
        BY DEF Takers, Senders
      <4> QED
        BY <4>1, WorkersFinite DEF NoticeBound, NoticeInv, NoticeTyped
    <3>1. Takers(x)' = Takers(x) \ {w}
      BY <1>2 DEF Takers, Attends
    <3>2. Cardinality(Takers(x)') >= Cardinality(Takers(x)) - 1 /\ Cardinality(Takers(x)') \in Nat
      <4> DEFINE rest == Takers(x) \ {w}
      <4>1. /\ IsFiniteSet(rest)
            /\ Cardinality(rest) = IF w \in Takers(x) THEN Cardinality(Takers(x)) - 1 ELSE Cardinality(Takers(x))
        BY <3>0, FS_RemoveElement
      <4>2. Cardinality(rest) \in Nat
        BY <4>1, FS_CardinalityType
      <4>3. Cardinality(rest) >= Cardinality(Takers(x)) - 1
        BY <3>0, <4>1
      <4> HIDE DEF rest
      <4>4. Takers(x)' = rest
        BY <3>1 DEF rest
      <4> QED
        BY <4>2, <4>3, <4>4
    <3>3. Cardinality(Senders(x)') <= Cardinality(Senders(x)) /\ Cardinality(Senders(x)') \in Nat
      BY <1>3, <3>0, FS_Subset, FS_CardinalityType
    <3> QED
      BY <1>1, <2>1, <2>4, <3>0, <3>2, <3>3 DEF Tallied
  <2>3. lostWorkers' \in 0 .. MaxLostWorkers
    BY <2>1, NoticeAssumption DEF NoticeBound
  <2> QED
    BY <1>1, <1>2, <2>1, <2>2, <2>3 DEF NoticeBound
<1> QED
  BY <1>4, <1>5

LEMMA NoticeBoundStep == NoticeInv /\ NoticeBound /\ [NoticeNext]_noticeVars => NoticeBound'
<1> SUFFICES ASSUME NoticeInv, NoticeBound, [NoticeNext]_noticeVars PROVE NoticeBound'
  OBVIOUS
<1>1. ASSUME NEW w \in Workers, NEW r \in Asked, NEW level \in Levels, CheckSla(w, r, level)
      PROVE  NoticeBound'
  BY <1>1, CheckSlaBound
<1>2. ASSUME NEW w \in Workers, WorkerStep(w) \/ WorkerDies(w) PROVE NoticeBound'
  BY <1>2, SendBound, LogBound, LeaveBound DEF WorkerStep
<1>3. CASE (\E r \in Asked : Close(r) \/ Older(r)) \/ UNCHANGED noticeVars
  <2>1. UNCHANGED <<worker, marked, sent, logged, doubtful, lostWorkers>>
    BY <1>3 DEF Close, Older, noticeVars
  <2>2. open' \subseteq Asked /\ age' \in [Asked -> {0} \cup Levels]
    BY <1>3 DEF Close, Older, noticeVars, NoticeBound, Levels
  <2>3. ASSUME NEW n \in SlaNotices PROVE Tallied(n)'
    BY <2>1 DEF NoticeBound, Tallied, Takers, Senders, Attends, Settled, At
  <2> QED
    BY <2>1, <2>2, <2>3 DEF NoticeBound
<1> QED
  BY <1>1, <1>2, <1>3 DEF NoticeNext

LEMMA NoticeTypesKept == NoticeInit /\ [][NoticeNext]_noticeVars => []NoticeTypeOK
<1>1. NoticeInit => NoticeInv /\ NoticeBound
  BY NoticeInvInit, NoticeBoundInit
<1>2. NoticeInv /\ NoticeBound /\ [NoticeNext]_noticeVars => NoticeInv' /\ NoticeBound'
  BY NoticeInvStep, NoticeBoundStep
<1>3. NoticeInv /\ NoticeBound => NoticeTypeOK
  <2> SUFFICES ASSUME NoticeInv, NoticeBound PROVE NoticeTypeOK
    OBVIOUS
  <2>1. ASSUME NEW n \in SlaNotices PROVE sent[n] \in 0 .. Cardinality(Workers) + MaxLostWorkers
    <3>1. Takers(n) \in SUBSET Workers /\ Senders(n) \in SUBSET Workers
      BY DEF Takers, Senders
    <3>2. /\ Cardinality(Takers(n)) \in Nat /\ Cardinality(Senders(n)) \in Nat /\ Cardinality(Workers) \in Nat
          /\ Cardinality(Takers(n)) <= Cardinality(Workers)
      BY <3>1, WorkersFinite
    <3> QED
      BY <3>2, NoticeAssumption DEF NoticeInv, NoticeTyped, NoticeBound, Tallied
  <2> QED
    BY <2>1 DEF NoticeInv, NoticeTyped, NoticeBound, NoticeTypeOK, Duty, Duties
<1> QED
  BY <1>1, <1>2, <1>3, PTL

(* Workers, marks and the log keep their types, and a notice goes out at   *)
(* most once for each worker there is and each that died (notify under     *)
(* check_sla).                                                             *)
THEOREM NoticeTypesHold == NoticeSpec => []NoticeTypeOK
<1> QED
  BY NoticeTypesKept, PTL DEF NoticeSpec

-----------------------------------------------------------------------------
(* Artwork.                                                                *)
NoPicture == <<0, "none">>
AtPicture == {"fetch", "verify", "store"}
News == [Classes -> Owners \cup {0, Unchanged}]
Task == [at : {"away", "select", "look", "close"} \cup AtPicture,
         scan : {"none"} \cup Classes, todo : SUBSET Pictures,
         picture : Pictures \cup {NoPicture}, adds : BOOLEAN, got : BOOLEAN, news : News]

ImageTyped ==
  /\ path \in [Pictures -> {"remote", "cached"}]
  /\ file \in [Pictures -> Files]
  /\ reported \subseteq Pictures
  /\ place \in [Classes -> Owners \cup {0}]
  /\ curator \in [Curators -> Task]
  /\ \A c \in Curators :
       /\ curator[c].at \in AtPicture <=> Picture(c) \in Pictures
       /\ curator[c].got => CuratorAt(c, "store")
       /\ CuratorAt(c, "select") => curator[c].scan \in Classes
  /\ crowded \subseteq Pictures /\ handled \subseteq Pictures /\ mishaps \in 0 .. MaxMishaps

(* A session alone at a picture: what it looks for is not there, or it has *)
(* it; and an issue is open unless it will add one or has what was missed. *)
OnTrack(c, p) ==
  /\ CuratorAt(c, "fetch") => /\ Validate(p) # "good"
                              /\ curator[c].adds \/ p \in reported
  /\ CuratorAt(c, "verify") => curator[c].adds \/ p \in reported \/ file[p] = "good"
  /\ CuratorAt(c, "store") =>
       IF curator[c].got THEN file[p] = "good"
       ELSE Validate(p) # "good" /\ (curator[c].adds \/ p \in reported)
Recovers(c, p) == OnTrack(c, p) /\ \A d \in Curators : Picture(d) = p => d = c

PictureKnown(p) == p \in handled => Healthy(p) \/ p \in reported

PictureSafe(p) == PictureKnown(p) /\ \A c \in Curators : Picture(c) = p => Recovers(c, p)

ImageInv == ImageTyped /\ \A p \in Pictures \ crowded : PictureSafe(p)

-----------------------------------------------------------------------------
LEMMA NoPictureIsNone == NoPicture \notin Pictures
BY ImageAssumption DEF NoPicture, Pictures

LEMMA UnchangedIsNoOwner == Unchanged \notin Owners \cup {0} /\ Classes = {"movies", "people"}
BY ImageAssumption DEF Unchanged, Classes

LEMMA AwayTyped ==
  /\ Away \in Task /\ Away.at = "away" /\ Away.picture = NoPicture /\ ~Away.got
  /\ Away.todo = {} /\ Away.scan = "none" /\ NoNews \in News
<1>1. NoNews \in News
  BY DEF NoNews, News
<1> QED
  BY <1>1 DEF Away, Task, NoPicture

LEMMA ImageInvInit == ImageInit => ImageInv
<1> SUFFICES ASSUME ImageInit PROVE ImageInv
  OBVIOUS
<1>1. curator \in [Curators -> Task] /\ \A c \in Curators : curator[c] = Away
  BY AwayTyped DEF ImageInit
<1>2. ImageTyped
  BY <1>1, AwayTyped, NoPictureIsNone, ImageAssumption
     DEF ImageInit, ImageTyped, Files, AtPicture, Picture, CuratorAt
<1>3. \A p \in Pictures : PictureSafe(p)
  BY <1>1, AwayTyped, NoPictureIsNone DEF ImageInit, PictureSafe, PictureKnown, Picture
<1> QED
  BY <1>2, <1>3 DEF ImageInv

(* A session that is at no picture, before and after, with nothing changed *)
(* about any picture.                                                      *)
AtNothing(task) ==
  /\ task \in Task /\ task.at \notin AtPicture /\ task.picture = NoPicture /\ ~task.got
  /\ task.at = "select" => task.scan \in Classes

LEMMA IdleTyped ==
  ASSUME ImageInv, NEW c \in Curators, curator[c].at \notin AtPicture
  PROVE  AtNothing(curator[c])
BY DEF ImageInv, ImageTyped, AtNothing, Task, Picture, CuratorAt, AtPicture

LEMMA Leaves ==
  ASSUME ImageInv, NEW c \in Curators, NEW task, AtNothing(task),
         curator' = [curator EXCEPT ![c] = task],
         UNCHANGED <<path, file>>, reported' \subseteq Pictures,
         handled' \subseteq Pictures,
         place' \in [Classes -> Owners \cup {0}],
         crowded' = crowded, mishaps' \in 0 .. MaxMishaps,
         \A p \in Pictures : p \in reported /\ p \notin reported' =>
           Validate(p) = "good" \/ Picture(c) = p,
         \A p \in Pictures \ crowded : PictureKnown(p)'
  PROVE  ImageInv'
<1>1. /\ curator' \in [Curators -> Task] /\ curator'[c] = task
      /\ \A d \in Curators \ {c} : curator'[d] = curator[d]
  BY DEF ImageInv, ImageTyped, AtNothing
<1>2. ImageTyped'
  <2>1. ASSUME NEW d \in Curators
        PROVE  /\ curator'[d].at \in AtPicture <=> curator'[d].picture \in Pictures
               /\ curator'[d].got => curator'[d].at = "store"
               /\ curator'[d].at = "select" => curator'[d].scan \in Classes
    <3>1. CASE d = c
      BY <1>1, <3>1, NoPictureIsNone DEF AtNothing
    <3>2. CASE d # c
      BY <1>1, <3>2 DEF ImageInv, ImageTyped, Picture, CuratorAt
    <3> QED
      BY <3>1, <3>2
  <2> QED
    BY <1>1, <2>1 DEF ImageInv, ImageTyped, Picture, CuratorAt
<1>3. ASSUME NEW p \in Pictures \ crowded', NEW d \in Curators, curator'[d].picture = p
      PROVE  Recovers(d, p)'
  <2>1. d # c /\ curator'[d] = curator[d] /\ Picture(d) = p
    BY <1>1, <1>3, NoPictureIsNone DEF AtNothing, Picture
  <2>2. Recovers(d, p)
    BY <1>3, <2>1 DEF ImageInv, PictureSafe
  <2>3. Picture(c) # p
    BY <2>1, <2>2 DEF Recovers
  <2>4. /\ Validate(p)' = Validate(p) /\ file'[p] = file[p]
        /\ Validate(p) # "good" => (p \in reported => p \in reported')
    BY <1>3, <2>3 DEF Validate
  <2>5. \A e \in Curators : curator'[e].picture = p => e = d
    BY <1>1, <2>1, <2>2, NoPictureIsNone, <1>3 DEF AtNothing, Recovers, Picture
  <2>6. file[p] # "good" => Validate(p) # "good"
    BY DEF Validate
  <2> QED
    BY <2>1, <2>2, <2>4, <2>5, <2>6 DEF Recovers, OnTrack, CuratorAt, Picture
<1> QED
  BY <1>2, <1>3 DEF ImageInv, PictureSafe, Picture

LEMMA AfterIdle ==
  ASSUME NEW class \in Classes, NEW news \in News
  PROVE  AtNothing([After(class) EXCEPT !.news = news]) /\ AtNothing(After(class)) /\ After(class).todo = {}
<1>1. After(class) = IF class = "movies" THEN [Away EXCEPT !.at = "select", !.scan = "people"]
                     ELSE [Away EXCEPT !.at = "close"]
  BY DEF After
<1>2. /\ After(class) \in Task /\ [After(class) EXCEPT !.news = news] \in Task
      /\ After(class).at \in {"select", "close"} /\ After(class).todo = {}
      /\ After(class).picture = NoPicture /\ ~After(class).got
      /\ After(class).at = "select" => After(class).scan \in Classes
  <2>1. ASSUME NEW task, task = After(class),
               \/ task = [Away EXCEPT !.at = "select", !.scan = "people"]
               \/ task = [Away EXCEPT !.at = "close"]
        PROVE  /\ task \in Task /\ task.at \in {"select", "close"} /\ task.todo = {}
               /\ task.picture = NoPicture /\ ~task.got
               /\ task.at = "select" => task.scan \in Classes
    BY <2>1, AwayTyped DEF Task, Classes
  <2>2. \A task \in Task : [task EXCEPT !.news = news] \in Task
    BY DEF Task
  <2> HIDE DEF After
  <2> QED
    BY <1>1, <2>1, <2>2
<1>3. \A task \in Task :
        /\ [task EXCEPT !.news = news].at = task.at
        /\ [task EXCEPT !.news = news].picture = task.picture
        /\ [task EXCEPT !.news = news].got = task.got
        /\ [task EXCEPT !.news = news].scan = task.scan
  BY DEF Task
<1> QED
  BY <1>2, <1>3 DEF AtNothing, AtPicture

LEMMA CommitTyped ==
  ASSUME ImageInv, NEW c \in Curators, Commit(c)
  PROVE  place' \in [Classes -> Owners \cup {0}]
<1>1. curator[c].news \in News /\ place \in [Classes -> Owners \cup {0}]
  BY DEF ImageInv, ImageTyped, Task
<1> QED
  BY <1>1 DEF Commit, News

LEMMA ProceedIdle ==
  ASSUME ImageInv, NEW c \in Curators, NEW p \in Pictures, Proceed(c, p)
  PROVE  \E task : AtNothing(task) /\ curator' = [curator EXCEPT ![c] = task]
<1> DEFINE left == curator[c].todo \ {p}
<1> DEFINE scan == curator[c].scan
<1> DEFINE done == scan # "none" /\ \A q \in left : OwnerOf(q) # OwnerOf(p)
<1> DEFINE news == IF done THEN [NoNews EXCEPT ![scan] = OwnerOf(p)] ELSE NoNews
<1> DEFINE next == IF left # {} THEN [Away EXCEPT !.at = "look", !.scan = scan]
                   ELSE IF scan = "none" THEN Away ELSE After(scan)
<1>1. curator' = [curator EXCEPT ![c] = [next EXCEPT !.todo = left, !.news = news]]
  BY DEF Proceed
<1>2. scan \in {"none"} \cup Classes /\ left \in SUBSET Pictures /\ OwnerOf(p) \in Owners
  BY DEF ImageInv, ImageTyped, Task, Pictures, OwnerOf
<1>3. news \in News
  <2> HIDE DEF left
  <2> QED
    BY <1>2, AwayTyped DEF News
<1> HIDE DEF news, left, scan
<1>4. AtNothing(next)
  BY <1>2, AwayTyped, AfterIdle DEF AtNothing, Task, AtPicture
<1> HIDE DEF next
<1>5. AtNothing([next EXCEPT !.todo = left, !.news = news])
  BY <1>2, <1>3, <1>4 DEF AtNothing, Task
<1> QED
  BY <1>1, <1>5

(* Nothing about any picture changes.                                      *)
LEMMA PicturesSame ==
  ASSUME ImageInv, UNCHANGED <<path, file, reported, handled, crowded>>
  PROVE  \A p \in Pictures \ crowded : PictureKnown(p)'
BY DEF ImageInv, PictureSafe, PictureKnown, Healthy

LEMMA GoesElsewhere ==
  ASSUME ImageInv, NEW c \in Curators, NEW task, AtNothing(task),
         curator' = [curator EXCEPT ![c] = task],
         UNCHANGED <<path, file, reported, handled, crowded>>,
         place' \in [Classes -> Owners \cup {0}], mishaps' \in 0 .. MaxMishaps
  PROVE  ImageInv'
<1>1. reported \subseteq Pictures /\ handled \subseteq Pictures
  BY DEF ImageInv, ImageTyped
<1> QED
  BY <1>1, PicturesSame, Leaves

LEMMA StartStep ==
  ASSUME ImageInv, NEW c \in Curators,
         StartScan(c) \/ \E some \in SUBSET Pictures : StartSome(c, some)
  PROVE  ImageInv'
<1>0. AtNothing(curator[c]) /\ UNCHANGED <<path, file, reported, place, crowded, handled, mishaps>>
  BY IdleTyped DEF StartScan, StartSome, CuratorAt, AtPicture
<1>1. \E task : AtNothing(task) /\ curator' = [curator EXCEPT ![c] = task]
  <2>1. CASE StartScan(c)
    <3>1. AtNothing([curator[c] EXCEPT !.at = "select", !.scan = "movies"])
      BY <1>0 DEF AtNothing, Task, Classes, AtPicture
    <3> QED
      BY <2>1, <3>1 DEF StartScan
  <2>2. ASSUME NEW some \in SUBSET Pictures, StartSome(c, some)
        PROVE  \E task : AtNothing(task) /\ curator' = [curator EXCEPT ![c] = task]
    <3>1. AtNothing([curator[c] EXCEPT !.at = "look", !.todo = some])
      BY <1>0 DEF AtNothing, Task, AtPicture
    <3> QED
      BY <2>2, <3>1 DEF StartSome
  <2> QED
    BY <2>1, <2>2
<1> QED
  BY <1>0, <1>1, GoesElsewhere DEF ImageInv, ImageTyped

LEMMA SelectBatchStep == ASSUME ImageInv, NEW c \in Curators, SelectBatch(c) PROVE ImageInv'
<1> DEFINE class == curator[c].scan
<1> DEFINE batch == FirstOwners({o \in OfClass(class) : o > place[class]}, ImageBatch)
<1> DEFINE over == [After(class) EXCEPT !.news = [curator[c].news EXCEPT ![class] = Reset(class)]]
<1> DEFINE some == [curator[c] EXCEPT !.at = "look", !.todo = {p \in Pictures : OwnerOf(p) \in batch}]
<1>0. CuratorAt(c, "select") /\ UNCHANGED <<path, file, reported, place, crowded, handled, mishaps>>
      /\ curator' = [curator EXCEPT ![c] = IF batch = {} THEN over ELSE some]
  BY DEF SelectBatch
<1>1. AtNothing(curator[c]) /\ class \in Classes
  BY <1>0, IdleTyped DEF CuratorAt, AtPicture, ImageInv, ImageTyped
<1>2. AtNothing(over)
  <2>1. [curator[c].news EXCEPT ![class] = Reset(class)] \in News
    BY <1>1 DEF AtNothing, Task, News, Reset
  <2> QED
    BY <1>1, <2>1, AfterIdle
<1>3. AtNothing(some)
  <2> HIDE DEF batch
  <2> QED
    BY <1>1 DEF AtNothing, Task, AtPicture
<1> HIDE DEF over, some, batch
<1> QED
  BY <1>0, <1>2, <1>3, GoesElsewhere DEF ImageInv, ImageTyped

LEMMA CuratorLeaves ==
  ASSUME ImageInv, NEW c \in Curators,
         CloseScan(c) \/ CuratorDies(c) \/ \E p \in Pictures : FindFatal(c, p)
  PROVE  ImageInv'
<1>1. /\ curator' = [curator EXCEPT ![c] = Away]
      /\ UNCHANGED <<path, file, reported, handled, crowded>>
  BY DEF CloseScan, CuratorDies, FindFatal
<1>2. place' \in [Classes -> Owners \cup {0}]
  BY CommitTyped DEF CloseScan, CuratorDies, FindFatal, ImageInv, ImageTyped
<1>3. mishaps' \in 0 .. MaxMishaps
  BY ImageAssumption DEF CloseScan, CuratorDies, Mishap, FindFatal, ImageInv, ImageTyped
<1>4. AtNothing(Away)
  BY AwayTyped DEF AtNothing, AtPicture
<1> QED
  BY <1>1, <1>2, <1>3, <1>4, GoesElsewhere

(* A healthy picture needs no issue.                                       *)
LEMMA FindHealthyStep ==
  ASSUME ImageInv, NEW c \in Curators, NEW p \in Pictures, FindHealthy(c, p)
  PROVE  ImageInv'
<1>1. /\ Validate(p) = "good" /\ reported' = reported \ {p} /\ handled' = handled \cup {p}
      /\ Commit(c) /\ Proceed(c, p)
      /\ UNCHANGED <<path, file, crowded, mishaps>>
  BY DEF FindHealthy
<1>2. PICK task : AtNothing(task) /\ curator' = [curator EXCEPT ![c] = task]
  BY <1>1, ProceedIdle
<1>3. ASSUME NEW q \in Pictures \ crowded PROVE PictureKnown(q)'
  <2>1. CASE q = p
    BY <1>1, <2>1 DEF PictureKnown, Healthy, Validate
  <2>2. CASE q # p
    BY <1>1, <2>2 DEF ImageInv, PictureSafe, PictureKnown, Healthy
  <2> QED
    BY <2>1, <2>2
<1>4. reported' \subseteq Pictures /\ handled' \subseteq Pictures /\ mishaps' \in 0 .. MaxMishaps
  BY <1>1 DEF ImageInv, ImageTyped
<1> QED
  BY <1>1, <1>2, <1>3, <1>4, CommitTyped, Leaves

(* What was fetched is kept, or an issue is open.                          *)
LEMMA KeepPictureStep == ASSUME ImageInv, NEW c \in Curators, KeepPicture(c) PROVE ImageInv'
<1> DEFINE p == Picture(c)
<1> DEFINE old == IF curator[c].got THEN reported \ {p} ELSE reported
<1>1. /\ CuratorAt(c, "store")
      /\ path' = [path EXCEPT ![p] = IF curator[c].got THEN "cached" ELSE @]
      /\ reported' = IF curator[c].adds THEN old \cup {p} ELSE old
      /\ handled' = handled \cup {p}
      /\ Commit(c) /\ Proceed(c, p)
      /\ UNCHANGED <<file, crowded, mishaps>>
  BY DEF KeepPicture
<1>2. p \in Pictures
  BY <1>1 DEF ImageInv, ImageTyped, CuratorAt, AtPicture
<1>3. PICK task : AtNothing(task) /\ curator' = [curator EXCEPT ![c] = task]
  BY <1>1, <1>2, ProceedIdle
<1>4. /\ path' \in [Pictures -> {"remote", "cached"}]
      /\ \A q \in Pictures \ {p} : path'[q] = path[q] /\ (q \in reported' <=> q \in reported)
      /\ reported' \subseteq Pictures /\ handled' \subseteq Pictures
      /\ curator[c].got => path'[p] = "cached"
  BY <1>1, <1>2 DEF ImageInv, ImageTyped
<1>5. /\ curator' \in [Curators -> Task] /\ curator'[c] = task
      /\ \A d \in Curators \ {c} : curator'[d] = curator[d]
  BY <1>3 DEF ImageInv, ImageTyped, AtNothing
<1>6. ImageTyped'
  <2>1. ASSUME NEW d \in Curators
        PROVE  /\ curator'[d].at \in AtPicture <=> curator'[d].picture \in Pictures
               /\ curator'[d].got => curator'[d].at = "store"
               /\ curator'[d].at = "select" => curator'[d].scan \in Classes
    <3>1. CASE d = c
      BY <1>3, <1>5, <3>1, NoPictureIsNone DEF AtNothing
    <3>2. CASE d # c
      BY <1>5, <3>2 DEF ImageInv, ImageTyped, Picture, CuratorAt
    <3> QED
      BY <3>1, <3>2
  <2> QED
    BY <1>1, <1>4, <1>5, <2>1, CommitTyped DEF ImageInv, ImageTyped, Picture, CuratorAt
<1>7. reported' = IF curator[c].adds THEN (IF curator[c].got THEN reported \ {p} ELSE reported) \cup {p}
                                     ELSE IF curator[c].got THEN reported \ {p} ELSE reported
  BY <1>1
<1> HIDE DEF p
<1>8. ASSUME NEW q \in Pictures \ crowded' PROVE PictureSafe(q)'
  <2>1. PictureSafe(q) /\ q \notin crowded
    BY <1>1, <1>8 DEF ImageInv
  <2>2. CASE q = p
    <3>1. Recovers(c, p)
      BY <2>1, <2>2 DEF PictureSafe, p
    <3>2. (path'[p] = "cached" /\ file'[p] = "good") \/ p \in reported'
      <4>1. CASE curator[c].got
        BY <1>1, <1>4, <3>1, <4>1 DEF Recovers, OnTrack
      <4>2. CASE ~curator[c].got
        <5>1. curator[c].adds \/ p \in reported
          BY <1>1, <3>1, <4>2 DEF Recovers, OnTrack
        <5> QED
          BY <1>7, <4>2, <5>1
      <4> QED
        BY <4>1, <4>2
    <3>3. \A d \in Curators : curator'[d].picture # p
      BY <1>2, <1>3, <1>5, <3>1, NoPictureIsNone DEF AtNothing, Recovers, Picture
    <3> QED
      BY <2>2, <3>2, <3>3 DEF PictureSafe, PictureKnown, Healthy, Picture
  <2>3. CASE q # p
    <3>1. PictureKnown(q)'
      BY <1>1, <1>4, <2>1, <2>3 DEF PictureSafe, PictureKnown, Healthy
    <3>2. ASSUME NEW d \in Curators, curator'[d].picture = q PROVE Recovers(d, q)'
      <4>1. d # c /\ curator'[d] = curator[d] /\ Picture(d) = q
        BY <1>3, <1>5, <1>8, <3>2, NoPictureIsNone DEF AtNothing, Picture
      <4>2. Recovers(d, q)
        BY <2>1, <4>1 DEF PictureSafe
      <4>3. \A e \in Curators : curator'[e].picture = q => e = d
        BY <1>3, <1>5, <1>8, <4>2, NoPictureIsNone DEF AtNothing, Recovers, Picture
      <4> QED
        BY <1>1, <1>4, <2>3, <4>1, <4>2, <4>3 DEF Recovers, OnTrack, Validate, CuratorAt, Picture
    <3> QED
      BY <3>1, <3>2 DEF PictureSafe, Picture
  <2> QED
    BY <2>2, <2>3
<1> QED
  BY <1>6, <1>8 DEF ImageInv

(* A session is at a picture: it alone, unless the picture is crowded.     *)
LEMMA AtWork ==
  ASSUME ImageInv, NEW c \in Curators, NEW p \in Pictures, NEW task \in Task,
         task.picture = p, task.at \in AtPicture, task.got => task.at = "store",
         curator' = [curator EXCEPT ![c] = task],
         UNCHANGED <<path, reported, place, mishaps>>,
         file' \in [Pictures -> Files], \A q \in Pictures \ {p} : file'[q] = file[q],
         handled' \subseteq handled, crowded \subseteq crowded', crowded' \subseteq Pictures,
         p \notin crowded' => /\ \A d \in Curators : Picture(d) = p => d = c
                             /\ OnTrack(c, p)' /\ PictureKnown(p)'
  PROVE  ImageInv'
<1>1. /\ curator' \in [Curators -> Task] /\ curator'[c] = task
      /\ \A d \in Curators \ {c} : curator'[d] = curator[d]
  BY DEF ImageInv, ImageTyped
<1>2. ImageTyped'
  <2>1. ASSUME NEW d \in Curators
        PROVE  /\ curator'[d].at \in AtPicture <=> curator'[d].picture \in Pictures
               /\ curator'[d].got => curator'[d].at = "store"
               /\ curator'[d].at = "select" => curator'[d].scan \in Classes
    <3>1. CASE d = c
      BY <1>1, <3>1 DEF AtPicture
    <3>2. CASE d # c
      BY <1>1, <3>2 DEF ImageInv, ImageTyped, Picture, CuratorAt
    <3> QED
      BY <3>1, <3>2
  <2> QED
    BY <1>1, <2>1 DEF ImageInv, ImageTyped, Picture, CuratorAt
<1>3. ASSUME NEW q \in Pictures \ crowded' PROVE PictureSafe(q)'
  <2>1. PictureSafe(q)
    BY <1>3 DEF ImageInv
  <2>2. CASE q = p
    <3>1. \A d \in Curators : curator'[d].picture = p => d = c
      BY <1>1, <1>3, <2>2 DEF Picture
    <3> QED
      BY <1>3, <2>2, <3>1 DEF PictureSafe, Recovers, Picture
  <2>3. CASE q # p
    <3>1. PictureKnown(q)'
      BY <1>3, <2>1, <2>3 DEF PictureSafe, PictureKnown, Healthy
    <3>2. ASSUME NEW d \in Curators, curator'[d].picture = q PROVE Recovers(d, q)'
      <4>1. d # c /\ curator'[d] = curator[d] /\ Picture(d) = q
        BY <1>1, <2>3, <3>2 DEF Picture
      <4>2. Recovers(d, q)
        BY <2>1, <4>1 DEF PictureSafe
      <4>3. \A e \in Curators : curator'[e].picture = q => e = d
        BY <1>1, <2>3, <4>2 DEF Recovers, Picture
      <4>4. Validate(q)' = Validate(q) /\ file'[q] = file[q]
        BY <1>3, <2>3 DEF Validate
      <4> QED
        BY <4>1, <4>2, <4>3, <4>4 DEF Recovers, OnTrack, CuratorAt, Picture
    <3> QED
      BY <3>1, <3>2 DEF PictureSafe, Picture
  <2> QED
    BY <2>2, <2>3
<1> QED
  BY <1>2, <1>3 DEF ImageInv

LEMMA FindProblemStep ==
  ASSUME ImageInv, NEW c \in Curators, NEW p \in Pictures, FindProblem(c, p)
  PROVE  ImageInv'
<1> DEFINE task == [curator[c] EXCEPT !.at = "fetch", !.picture = p, !.adds = p \notin reported]
<1>1. /\ CuratorAt(c, "look") /\ Validate(p) \in {"none", "bad"}
      /\ curator' = [curator EXCEPT ![c] = task]
      /\ crowded' = IF Busy(p) # {} THEN crowded \cup {p} ELSE crowded
      /\ UNCHANGED <<path, file, reported, place, handled, mishaps>>
  BY DEF FindProblem
<1>2. AtNothing(curator[c])
  BY <1>1, IdleTyped DEF CuratorAt, AtPicture
<1>3. task \in Task /\ task.picture = p /\ task.at = "fetch" /\ ~task.got
      /\ (task.adds \/ p \in reported)
  BY <1>2 DEF AtNothing, Task, AtPicture
<1> HIDE DEF task
<1>4. curator'[c] = task
  BY <1>1 DEF ImageInv, ImageTyped
<1>5. ASSUME p \notin crowded' PROVE /\ \A d \in Curators : Picture(d) = p => d = c
                                     /\ OnTrack(c, p)' /\ PictureKnown(p)'
  <2>1. p \notin crowded /\ \A d \in Curators : Picture(d) # p
    BY <1>1, <1>5 DEF Busy
  <2>2. PictureKnown(p)'
    BY <1>1, <2>1 DEF ImageInv, PictureSafe, PictureKnown, Healthy
  <2>3. OnTrack(c, p)'
    BY <1>1, <1>3, <1>4 DEF OnTrack, CuratorAt, Validate
  <2> QED
    BY <2>1, <2>2, <2>3
<1> QED
  BY <1>1, <1>3, <1>5, AtWork DEF AtPicture, ImageInv, ImageTyped

(* What is at the destination while a session fetches is no picture yet.   *)
LEMMA FetchStep == ASSUME ImageInv, NEW c \in Curators, Fetch(c) PROVE ImageInv'
<1>1. CuratorAt(c, "fetch")
  BY DEF Fetch
<1>2. PICK p \in Pictures : p = Picture(c)
  BY <1>1 DEF ImageInv, ImageTyped, CuratorAt, AtPicture
<1>3. curator[c] \in Task /\ ~curator[c].got
  BY <1>1 DEF ImageInv, ImageTyped, CuratorAt
<1>4. PICK where \in {"verify", "store"} :
        /\ curator' = [curator EXCEPT ![c].at = where]
        /\ file' \in [Pictures -> Files] /\ \A q \in Pictures \ {p} : file'[q] = file[q]
        /\ where = "store" => UNCHANGED file \/ file'[p] = "none"
  <2>1. CASE UNCHANGED file /\ curator' = [curator EXCEPT ![c].at = "store"]
    BY <2>1 DEF ImageInv, ImageTyped
  <2>2. ASSUME NEW content \in Files, NEW where \in {"verify", "store"},
               file' = [file EXCEPT ![p] = content], where = "store" => content = "none",
               curator' = [curator EXCEPT ![c].at = where]
        PROVE  /\ file' \in [Pictures -> Files] /\ \A q \in Pictures \ {p} : file'[q] = file[q]
               /\ where = "store" => file'[p] = "none"
    BY <2>2 DEF ImageInv, ImageTyped
  <2>3. \A q \in Pictures : Download(q) \subseteq Files /\ Chain(q) \subseteq Files
    BY DEF Download, Chain, Files
  <2> QED
    BY <1>2, <2>1, <2>2, <2>3 DEF Fetch
<1>5. /\ handled' = IF curator[c].adds THEN handled \ {p} ELSE handled
      /\ UNCHANGED <<path, reported, place, crowded, mishaps>>
  BY <1>2 DEF Fetch
<1> DEFINE task == [curator[c] EXCEPT !.at = where]
<1>6. /\ task \in Task /\ task.picture = p /\ task.at = where /\ ~task.got
      /\ task.adds = curator[c].adds
      /\ curator' = [curator EXCEPT ![c] = task] /\ curator'[c] = task
  BY <1>2, <1>3, <1>4 DEF Task, Picture, ImageInv, ImageTyped, AtPicture
<1> HIDE DEF task
<1>7. ASSUME p \notin crowded' PROVE /\ \A d \in Curators : Picture(d) = p => d = c
                                     /\ OnTrack(c, p)' /\ PictureKnown(p)'
  <2>1. Recovers(c, p) /\ PictureKnown(p)
    BY <1>2, <1>5, <1>7 DEF ImageInv, PictureSafe
  <2>2. Validate(p) # "good" /\ (curator[c].adds \/ p \in reported)
    BY <1>1, <2>1 DEF Recovers, OnTrack
  <2>3. where = "store" => Validate(p)' # "good"
    BY <1>4, <1>5, <2>2 DEF Validate
  <2>4. PictureKnown(p)'
    BY <1>5, <2>2 DEF PictureKnown
  <2>5. OnTrack(c, p)'
    BY <1>5, <1>6, <2>2, <2>3 DEF OnTrack, CuratorAt
  <2> QED
    BY <2>1, <2>4, <2>5 DEF Recovers
<1>8. /\ handled' \subseteq handled /\ crowded \subseteq crowded' /\ crowded' \subseteq Pictures
      /\ task.at \in AtPicture /\ UNCHANGED <<path, reported, place, mishaps>>
      /\ task \in Task /\ task.picture = p /\ (task.got => task.at = "store")
  BY <1>4, <1>5, <1>6 DEF AtPicture, ImageInv, ImageTyped
<1>9. /\ file' \in [Pictures -> Files] /\ \A q \in Pictures \ {p} : file'[q] = file[q]
      /\ curator' = [curator EXCEPT ![c] = task]
  BY <1>4, <1>6
<1> QED
  BY <1>7, <1>8, <1>9, AtWork

(* A file that is no picture is unlinked; what could not be read ends the  *)
(* session.                                                                *)
LEMMA VerifyStep == ASSUME ImageInv, NEW c \in Curators, Verify(c) PROVE ImageInv'
<1>1. CuratorAt(c, "verify") /\ UNCHANGED <<path, reported, place, crowded, handled, mishaps>>
  BY DEF Verify
<1>2. PICK p \in Pictures : p = Picture(c)
  BY <1>1 DEF ImageInv, ImageTyped, CuratorAt, AtPicture
<1>3. file' = [file EXCEPT ![p] = IF file[p] = "bad" THEN "none" ELSE file[p]]
  BY <1>2 DEF Verify
<1>4. /\ file' \in [Pictures -> Files] /\ \A q \in Pictures \ {p} : file'[q] = file[q]
      /\ file[p] \in Files /\ file'[p] = IF file[p] = "bad" THEN "none" ELSE file[p]
  BY <1>3 DEF ImageInv, ImageTyped, Files
<1>5. CASE file[p] = "fatal"
  <2>1. curator' = [curator EXCEPT ![c] = Away]
    BY <1>2, <1>5 DEF Verify
  <2>2. file' = file
    BY <1>3, <1>5 DEF ImageInv, ImageTyped
  <2> QED
    BY <1>1, <2>1, <2>2, AwayTyped, GoesElsewhere DEF AtNothing, AtPicture, ImageInv, ImageTyped
<1>6. CASE file[p] # "fatal"
  <2> DEFINE task == [curator[c] EXCEPT !.at = "store", !.got = file[p] = "good"]
  <2>1. /\ task \in Task /\ task.picture = p /\ task.at = "store"
        /\ task.got <=> file[p] = "good"
        /\ task.adds = curator[c].adds
        /\ curator' = [curator EXCEPT ![c] = task] /\ curator'[c] = task
    BY <1>2, <1>6 DEF Verify, Task, Picture, ImageInv, ImageTyped, AtPicture
  <2> HIDE DEF task
  <2>2. ASSUME p \notin crowded' PROVE /\ \A d \in Curators : Picture(d) = p => d = c
                                       /\ OnTrack(c, p)' /\ PictureKnown(p)'
    <3>1. Recovers(c, p) /\ PictureKnown(p)
      BY <1>1, <1>2, <2>2 DEF ImageInv, PictureSafe
    <3>2. file[p] = "good" \/ (file'[p] = "none" /\ (curator[c].adds \/ p \in reported))
      BY <1>1, <1>4, <1>6, <3>1 DEF Recovers, OnTrack, Files
    <3>3. OnTrack(c, p)'
      BY <1>1, <1>4, <2>1, <3>2 DEF OnTrack, CuratorAt, Validate
    <3>4. PictureKnown(p)'
      BY <1>1, <1>4, <3>1 DEF PictureKnown, Healthy
    <3> QED
      BY <3>1, <3>3, <3>4 DEF Recovers
  <2> QED
    BY <1>1, <1>4, <2>1, <2>2, AtWork DEF AtPicture, ImageInv, ImageTyped
<1> QED
  BY <1>5, <1>6

(* A picture somebody is at is crowded by damage; another is disturbed.    *)
LEMMA MishapStep ==
  ASSUME ImageInv, NEW p \in Pictures,
         EnrichPath(p) \/ \E left \in Files : Damage(p, left)
  PROVE  ImageInv'
<1>1. /\ handled' = handled \ {p} /\ UNCHANGED <<reported, place, curator>>
      /\ crowded' = crowded \/ crowded' = crowded \cup {p}
      /\ mishaps' \in 0 .. MaxMishaps
  BY ImageAssumption DEF EnrichPath, Damage, Mishap, ImageInv, ImageTyped
<1>2. /\ path' \in [Pictures -> {"remote", "cached"}] /\ file' \in [Pictures -> Files]
      /\ \A q \in Pictures \ {p} : path'[q] = path[q] /\ file'[q] = file[q]
      /\ \/ path'[p] = "remote" /\ file' = file
         \/ p \in crowded' \/ \A d \in Curators : Picture(d) # p
  BY DEF EnrichPath, Damage, Busy, ImageInv, ImageTyped
<1>3. ImageTyped'
  BY <1>1, <1>2 DEF ImageInv, ImageTyped, Picture, CuratorAt
<1>4. ASSUME NEW q \in Pictures \ crowded' PROVE PictureSafe(q)'
  <2>1. PictureSafe(q)
    BY <1>1, <1>4 DEF ImageInv
  <2>2. CASE q # p
    BY <1>1, <1>2, <1>4, <2>1, <2>2
       DEF PictureSafe, PictureKnown, Healthy, Recovers, OnTrack, Validate, CuratorAt, Picture
  <2>3. CASE q = p
    BY <1>1, <1>2, <1>4, <2>1, <2>3
       DEF PictureSafe, PictureKnown, Recovers, OnTrack, Validate, CuratorAt, Picture
  <2> QED
    BY <2>2, <2>3
<1> QED
  BY <1>3, <1>4 DEF ImageInv

LEMMA ImageInvStep == ImageInv /\ [ImageNext]_imageVars => ImageInv'
<1> SUFFICES ASSUME ImageInv, [ImageNext]_imageVars PROVE ImageInv'
  OBVIOUS
<1>1. CASE UNCHANGED imageVars
  BY <1>1 DEF imageVars, ImageInv, ImageTyped, PictureSafe, PictureKnown, Recovers, OnTrack, Healthy,
              Validate, CuratorAt, Picture
<1>2. ASSUME NEW c \in Curators, CuratorStep(c) PROVE ImageInv'
  BY <1>2, SelectBatchStep, CuratorLeaves, FindHealthyStep, FindProblemStep, FetchStep, VerifyStep,
     KeepPictureStep DEF CuratorStep
<1>3. ASSUME NEW c \in Curators,
             \/ StartScan(c) \/ CuratorDies(c) \/ \E p \in Pictures : StartSome(c, {p})
             \/ \E o \in Owners \ People : StartSome(c, {p \in Pictures : OwnerOf(p) = o /\ KindOf(p) # "logo"})
      PROVE  ImageInv'
  <2>1. (\E p \in Pictures : StartSome(c, {p}))
        \/ (\E o \in Owners \ People : StartSome(c, {p \in Pictures : OwnerOf(p) = o /\ KindOf(p) # "logo"}))
        => \E some \in SUBSET Pictures : StartSome(c, some)
    OBVIOUS
  <2> QED
    BY <1>3, <2>1, StartStep, CuratorLeaves
<1> QED
  BY <1>1, <1>2, <1>3, MishapStep DEF ImageNext

LEMMA ImageInvHolds == ImageInit /\ [][ImageNext]_imageVars => []ImageInv
<1> QED
  BY ImageInvInit, ImageInvStep, PTL

LEMMA ImageTypesKept == ImageInit /\ [][ImageNext]_imageVars => []ImageTypeOK
<1>1. ImageInv => ImageTypeOK
  BY DEF ImageInv, ImageTyped, ImageTypeOK, Task, AtPicture
<1> QED
  BY <1>1, ImageInvHolds, PTL

(* Sessions, files and cursors keep their domains (image_fallback.py:      *)
(* recover, scan).                                                         *)
THEOREM ImageTypesHold == ImageSpec => []ImageTypeOK
<1> QED
  BY ImageTypesKept, PTL DEF ImageSpec

(* A picture that was looked at, and not by two at once or disturbed       *)
(* since, is there or has an open issue (image_fallback.py: validate,      *)
(* _download, recover_movie, recover_person).                              *)
THEOREM LossIsReported == ImageSpec => []LossReported
<1>1. ImageInv => LossReported
  <2> SUFFICES ASSUME ImageInv, NEW p \in handled \ crowded PROVE Healthy(p) \/ p \in reported
    BY DEF LossReported
  <2> QED
    BY DEF ImageInv, ImageTyped, PictureSafe, PictureKnown
<1> QED
  BY <1>1, ImageInvHolds, PTL DEF ImageSpec
=============================================================================
