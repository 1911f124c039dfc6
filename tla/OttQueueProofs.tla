--------------------------- MODULE OttQueueProofs ---------------------------
(***************************************************************************)
(* Proofs about OttQueue, for any movies, rows, days, limits and any       *)
(* number of batches at once, whatever fails.                              *)
(***************************************************************************)
EXTENDS OttQueue, FiniteSetTheorems, TLAPS

-----------------------------------------------------------------------------
(* Types.                                                                  *)

RowsTyped ==
  /\ owner \in [Rows -> SUBSET Movies]
  /\ status \in [Rows -> Statuses]
  /\ next \in [Rows -> {"none", "past", "future"}]
  /\ latest \in [Movies -> 0 .. MaxRows]
  /\ due \in [Workers -> SUBSET Rows]

LEMMA WriteTyped ==
  ASSUME TypeOK, NEW i \in Rows, NEW s \in Statuses, NEW n \in {"none", "past", "future"},
         Write(i, s, n)
  PROVE  RowsTyped'
<1>1. Rows \subseteq 0 .. MaxRows
  BY OttQueueAssumption DEF Rows
<1> QED
  BY <1>1 DEF Write, TypeOK, RowsTyped

LEMMA EligibilityTyped ==
  ASSUME TypeOK, NEW m \in Movies, NEW cooling \in BOOLEAN
  PROVE  Eligibility(m, cooling) \in Eligibilities \ {"NONE"}
<1>1. phase[m] \in AllPhases
  BY DEF TypeOK
<1> QED
  BY <1>1 DEF Eligibility, Eligibilities, AllPhases

LEMMA NowTyped ==
  ASSUME TypeOK, NEW m \in Movies
  PROVE  EligibilityNow(m) \in Eligibilities \ {"NONE"}
<1>1. Cooling(m) \in BOOLEAN
  BY DEF Cooling
<1> QED
  BY <1>1, EligibilityTyped DEF EligibilityNow

(* What a classification writes to the rows has the rows' types.           *)
LEMMA AfterTyped ==
  ASSUME TypeOK, NEW m \in Movies, NEW code \in Eligibilities
  PROVE  /\ StatusAfter(m, code) \in [Rows -> Statuses]
         /\ NextAfter(m, code) \in [Rows -> {"none", "past", "future"}]
<1>1. ASSUME NEW i \in Withdrawn(m, code) PROVE code \in Statuses
  BY DEF Withdrawn, Eligibilities, AllPhases, Statuses
<1> QED
  BY <1>1 DEF StatusAfter, NextAfter, TypeOK

LEMMA ClassifyTyped ==
  ASSUME TypeOK, NEW m \in Movies, NEW code \in Eligibilities, Classify(m, code)
  PROVE  RowsTyped' /\ elig' \in [Movies -> Eligibilities]
BY AfterTyped DEF Classify, TypeOK, RowsTyped

LEMMA MonthTyped == \A d \in Days : Month(d) \in Months
BY DEF Months

(* The locals of a batch that is over.                                     *)
LocalsTyped ==
  /\ pc \in [Workers -> Pcs]
  /\ day \in [Workers -> Days]
  /\ batch \in [Workers -> SUBSET Rows]
  /\ cur \in [Workers -> SUBSET Rows]
  /\ asked \in [Workers -> Nat] /\ allowed \in [Workers -> Nat] /\ found \in [Workers -> Nat]
  /\ hears \in [Workers -> Hearings]

LEMMA LeaveTyped ==
  ASSUME TypeOK, NEW w \in Workers, Leave(w)
  PROVE  LocalsTyped'
<1>1. 0 \in Days
  BY OttQueueAssumption DEF Days
<1> QED
  BY <1>1 DEF Leave, TypeOK, LocalsTyped, Pcs, Hearings

LEMMA TypeInit == Init => TypeOK
<1> SUFFICES ASSUME Init PROVE TypeOK
  OBVIOUS
<1>1. 0 \in Days /\ 0 \in 0 .. MaxRows
  BY OttQueueAssumption DEF Days
<1> QED
  BY <1>1, OttQueueAssumption DEF Init, TypeOK, Statuses, Eligibilities, Pcs, Hearings

(* Every variable keeps its type.                                          *)
LEMMA TypeStep == TypeOK /\ [Next]_vars => TypeOK'
<1> SUFFICES ASSUME TypeOK, [Next]_vars PROVE TypeOK'
  OBVIOUS
<1> USE OttQueueAssumption, MonthTyped
<1> USE DEF rows, facts, usage, place, search
<1>1. ASSUME NEW w \in Workers, Start(w) PROVE TypeOK'
  <2>1. Selectable \subseteq Rows
    BY DEF Selectable
  <2>2. PICK selected \in SUBSET Selectable : batch' = [batch EXCEPT ![w] = selected]
    BY <1>1 DEF Start
  <2> QED
    BY <1>1, <2>1, <2>2 DEF Start, TypeOK, Pcs
<1>2. ASSUME NEW w \in Workers, Done(w) PROVE TypeOK'
  BY <1>2, LeaveTyped DEF Done, LocalsTyped, TypeOK
<1>3. ASSUME NEW w \in Workers, Drop(w) PROVE TypeOK'
  BY <1>3, LeaveTyped DEF Drop, LocalsTyped, TypeOK
<1>4. ASSUME NEW w \in Workers, SkipIneligible(w) PROVE TypeOK'
  <2>1. PICK i \in batch[w] : /\ \E code \in Eligibilities \ {"ELIGIBLE"} : Reach(w, i, code)
                              /\ batch' = [batch EXCEPT ![w] = @ \ {i}]
    BY <1>4 DEF SkipIneligible
  <2>2. i \in Rows
    BY DEF TypeOK
  <2>3. RowsTyped' /\ elig' \in [Movies -> Eligibilities]
    BY <2>1, <2>2, ClassifyTyped DEF Reach, TypeOK
  <2> QED
    BY <1>4, <2>1, <2>3 DEF SkipIneligible, TypeOK, RowsTyped
<1>5. ASSUME NEW w \in Workers, StopAtMonthlyBudget(w) PROVE TypeOK'
  <2>1. PICK i \in batch[w] : Reach(w, i, "ELIGIBLE")
    BY <1>5 DEF StopAtMonthlyBudget
  <2>2. RowsTyped' /\ elig' \in [Movies -> Eligibilities]
    BY <2>1, ClassifyTyped DEF Reach, TypeOK, Eligibilities
  <2> QED
    BY <1>5, <2>2, LeaveTyped DEF StopAtMonthlyBudget, LocalsTyped, TypeOK, RowsTyped
<1>6. ASSUME NEW w \in Workers, Choose(w) PROVE TypeOK'
  <2>1. PICK i \in batch[w] : /\ Reach(w, i, "ELIGIBLE")
                              /\ cur' = [cur EXCEPT ![w] = {i}]
                              /\ batch' = [batch EXCEPT ![w] = @ \ {i}]
    BY <1>6 DEF Choose
  <2>2. RowsTyped' /\ elig' \in [Movies -> Eligibilities]
    BY <2>1, ClassifyTyped DEF Reach, TypeOK, Eligibilities
  <2>3. cur' \in [Workers -> SUBSET Rows] /\ batch' \in [Workers -> SUBSET Rows]
    BY <2>1 DEF TypeOK
  <2> QED
    BY <1>6, <2>2, <2>3 DEF Choose, TypeOK, RowsTyped, Pcs
<1>7. ASSUME NEW w \in Workers, ReserveDailyMovie(w) PROVE TypeOK'
  BY <1>7 DEF ReserveDailyMovie, TypeOK, Pcs
<1>8. ASSUME NEW w \in Workers, StopAtDailyLimit(w) PROVE TypeOK'
  BY <1>8, LeaveTyped DEF StopAtDailyLimit, LocalsTyped, TypeOK
<1>9. ASSUME NEW w \in Workers, Mark(w) PROVE TypeOK'
  <2>3. status' \in [Rows -> Statuses]
    BY <1>9 DEF Mark, TypeOK, Statuses
  <2>4. Month(day[w]) \in Months
    BY DEF TypeOK
  <2>5. Smaller(MaxQueries, Remaining(Month(day[w]))) \in Nat
    BY <2>4 DEF Smaller, Remaining, TypeOK
  <2>6. allowed' \in [Workers -> Nat]
    BY <1>9, <2>5 DEF Mark, TypeOK
  <2> QED
    BY <1>9, <2>3, <2>6 DEF Mark, TypeOK, Pcs, Hearings
<1>10. ASSUME NEW w \in Workers, ReserveTavilyQuery(w) PROVE TypeOK'
  BY <1>10 DEF ReserveTavilyQuery, TypeOK, Pcs
<1>11. ASSUME NEW w \in Workers, RefuseTavilyQuery(w) PROVE TypeOK'
  BY <1>11 DEF RefuseTavilyQuery, TypeOK, Pcs
<1>12. ASSUME NEW w \in Workers, Answer(w) PROVE TypeOK'
  <2>1. PICK results \in found[w] .. MaxResults :
          found' = [found EXCEPT ![w] = results] /\ pc' \in {[pc EXCEPT ![w] = "ask"], [pc EXCEPT ![w] = "decide"]}
    BY <1>12 DEF Answer
  <2>2. results \in Nat
    BY DEF TypeOK
  <2> QED
    BY <1>12, <2>1, <2>2 DEF Answer, Send, TypeOK, Pcs, Hearings
<1>13. ASSUME NEW w \in Workers, Fail(w) PROVE TypeOK'
  BY <1>13 DEF Fail, Send, TypeOK, Pcs, Hearings
<1>14. ASSUME NEW w \in Workers, NEW s \in Statuses, EndResearch(w, s) PROVE RowsTyped'
  BY <1>14, WriteTyped DEF EndResearch, TypeOK
<1>15. ASSUME NEW w \in Workers, StoreFailure(w) PROVE TypeOK'
  BY <1>15, <1>14 DEF StoreFailure, GoOn, Statuses, TypeOK, RowsTyped, Pcs, Hearings
<1>16. ASSUME NEW w \in Workers, GiveBack(w) PROVE TypeOK'
  BY <1>16, <1>14, LeaveTyped DEF GiveBack, Statuses, LocalsTyped, TypeOK, RowsTyped
<1>17. ASSUME NEW w \in Workers, FindNothing(w) PROVE TypeOK'
  BY <1>17, <1>14 DEF FindNothing, GoOn, Statuses, TypeOK, RowsTyped, Pcs, Hearings
<1>18. ASSUME NEW m \in Movies, Evaluate(m) PROVE RowsTyped' /\ confirmed' \subseteq Movies
  <2>1. CASE latest[m] = 0
    BY <1>18, <2>1 DEF Evaluate, TypeOK, RowsTyped
  <2>2. CASE latest[m] # 0
    <3>1. latest[m] \in Rows
      BY <2>2 DEF TypeOK, Rows
    <3>2. \A verdict \in Verdicts : verdict \in Statuses
      BY DEF AllVerdicts, Statuses
    <3>3. RowsTyped'
      BY <1>18, <2>2, <3>1, <3>2, WriteTyped DEF Evaluate
    <3> QED
      BY <1>18, <3>3 DEF Evaluate, TypeOK
  <2> QED
    BY <2>1, <2>2
<1>19. ASSUME NEW w \in Workers, RecordEvidence(w) PROVE TypeOK'
  <2>1. RowsTyped' /\ confirmed' \subseteq Movies
    BY <1>19, <1>18 DEF RecordEvidence, TypeOK
  <2>2. found' \in [Workers -> Nat] /\ pc' \in [Workers -> Pcs]
    BY <1>19 DEF RecordEvidence, TypeOK, Pcs
  <2> QED
    BY <1>19, <2>1, <2>2 DEF RecordEvidence, TypeOK, RowsTyped
<1>20. ASSUME NEW w \in Workers, Conclude(w) PROVE TypeOK'
  <2>1. \A verdict \in Verdicts : verdict \in Statuses
    BY DEF AllVerdicts, Statuses
  <2>2. RowsTyped'
    BY <1>20, <2>1, <1>14 DEF Conclude
  <2> QED
    BY <1>20, <2>2 DEF Conclude, GoOn, TypeOK, RowsTyped, Pcs, Hearings
<1>21. ASSUME NEW m \in Movies, Scan(m) PROVE TypeOK'
  <2>1. RowsTyped' /\ elig' \in [Movies -> Eligibilities]
    BY <1>21, NowTyped, ClassifyTyped DEF Scan
  <2> QED
    BY <1>21, <2>1 DEF Scan, TypeOK, RowsTyped
<1>22. ASSUME NEW m \in Movies, Requeue(m) PROVE TypeOK'
  <2>1. latest[m] \in Rows
    BY <1>22 DEF Requeue, TypeOK, Rows
  <2>2. RowsTyped'
    BY <1>22, <2>1, WriteTyped DEF Requeue, Statuses
  <2> QED
    BY <1>22, <2>2 DEF Requeue, TypeOK, RowsTyped, Eligibilities
<1>23. ASSUME NEW m \in Movies, AddRow(m) PROVE TypeOK'
  BY <1>23 DEF AddRow, TypeOK
<1>24. ASSUME NEW m \in Movies, RollBackRow(m) PROVE TypeOK'
  BY <1>24 DEF RollBackRow, TypeOK
<1>25. ASSUME NEW m \in Movies, CommitRow(m) PROVE TypeOK'
  <2>1. Rows \subseteq 0 .. MaxRows
    BY DEF Rows
  <2> QED
    BY <1>25, <2>1 DEF CommitRow, TypeOK, Statuses, Eligibilities
<1>26. ASSUME NEW m \in Movies, AdminQueue(m) PROVE TypeOK'
  <2>1. PICK i \in RowsOf(m) :
          LET code == EligibilityNow(m) IN
          /\ elig' = [elig EXCEPT ![m] = code]
          /\ status' = [StatusAfter(m, code) EXCEPT ![i] = "QUEUED"]
          /\ next' = [NextAfter(m, code) EXCEPT ![i] = "past"]
          /\ due' = [w \in Workers |-> due[w] \ (Withdrawn(m, code) \cup {i})]
          /\ adding' \in {adding, [adding EXCEPT ![m] = @ + 1]}
          /\ UNCHANGED <<owner, latest, facts, usage, pc, place, search>>
    BY <1>26 DEF AdminQueue
  <2>2. i \in Rows
    BY DEF RowsOf
  <2>3. status' \in [Rows -> Statuses] /\ next' \in [Rows -> {"none", "past", "future"}]
    BY <2>1, <2>2, NowTyped, AfterTyped DEF Statuses
  <2>4. due' \in [Workers -> SUBSET Rows]
    BY <2>1 DEF TypeOK
  <2>5. elig' \in [Movies -> Eligibilities]
    BY <2>1, NowTyped DEF TypeOK
  <2>6. adding' \in [Movies -> Nat]
    BY <2>1 DEF TypeOK
  <2> QED
    BY <2>1, <2>3, <2>4, <2>5, <2>6 DEF TypeOK
<1>27. ASSUME NEW m \in Movies, Reconcile(m) PROVE TypeOK'
  BY <1>27, <1>18 DEF Reconcile, TypeOK, RowsTyped
<1>28. ASSUME NEW m \in Movies, ChangePhase(m) PROVE TypeOK'
  BY <1>28 DEF ChangePhase, TypeOK
<1>29. ASSUME NEW i \in Rows, FallDue(i) PROVE TypeOK'
  BY <1>29 DEF FallDue, TypeOK
<1>30. CASE NextDay
  <2>1. today' \in Days
    BY <1>30 DEF NextDay, TypeOK, Days
  <2> QED
    BY <1>30, <2>1 DEF NextDay, TypeOK
<1>31. CASE UNCHANGED vars
  BY <1>31 DEF vars, TypeOK
<1> QED
  BY <1>1, <1>2, <1>3, <1>4, <1>5, <1>6, <1>7, <1>8, <1>9, <1>10, <1>11, <1>12, <1>13,
     <1>15, <1>16, <1>17, <1>19, <1>20, <1>21, <1>22, <1>23, <1>24, <1>25, <1>26, <1>27,
     <1>28, <1>29, <1>30, <1>31 DEF Next, Step

(* The queue rows, counters and locals of the batches keep their types in  *)
(* every behaviour, whatever number of batches runs and however they end.  *)
THEOREM TypeCorrect == Spec => []TypeOK
<1> QED
  BY TypeInit, TypeStep, PTL DEF Spec
-----------------------------------------------------------------------------
(* The budgets.                                                            *)

(* The requests of a month that were paid and are not sent yet.            *)
Paid(n) == {w \in Workers : pc[w] = "answer" /\ Month(day[w]) = n}

MonthPaid(n) ==
  /\ used[n] <= MonthlyBudget
  /\ calls[n] + Cardinality(Paid(n)) <= used[n]

MonthsPaid == \A n \in Months : MonthPaid(n)
DaysKept == \A d \in Days : slots[d] <= DailyLimit

LEMMA PaidFinite ==
  ASSUME NEW n
  PROVE  IsFiniteSet(Paid(n)) /\ Cardinality(Paid(n)) \in Nat
<1>1. Paid(n) \subseteq Workers
  BY DEF Paid
<1>2. IsFiniteSet(Paid(n))
  BY <1>1, OttQueueAssumption, FS_Subset
<1> QED
  BY <1>2, FS_CardinalityType

(* A month is paid for as long as no request of it is added.               *)
LEMMA PaidShrinks ==
  ASSUME TypeOK, NEW n \in Months, MonthPaid(n), Paid(n)' \subseteq Paid(n),
         used'[n] = used[n], calls'[n] = calls[n]
  PROVE  MonthPaid(n)'
<1>1. Cardinality(Paid(n)') <= Cardinality(Paid(n)) /\ Cardinality(Paid(n)') \in Nat
  <2>1. IsFiniteSet(Paid(n)')
    BY PaidFinite, FS_Subset
  <2> QED
    BY <2>1, PaidFinite, FS_Subset, FS_CardinalityType
<1> QED
  BY <1>1, PaidFinite DEF MonthPaid, TypeOK

(* A step that pays nothing, sends nothing and makes no batch wait for an  *)
(* answer.                                                                 *)
Quiet ==
  /\ UNCHANGED <<used, calls>>
  /\ \A w \in Workers : pc'[w] = "answer" => pc[w] = "answer" /\ day'[w] = day[w]

LEMMA QuietKeepsPaid ==
  ASSUME TypeOK, MonthsPaid, Quiet
  PROVE  MonthsPaid'
<1>1. ASSUME NEW n \in Months PROVE MonthPaid(n)'
  <2>1. Paid(n)' \subseteq Paid(n)
    BY DEF Paid, Quiet
  <2> QED
    BY <2>1, PaidShrinks DEF MonthsPaid, Quiet
<1>2. Months' = Months
  BY DEF Months
<1> QED
  BY <1>1, <1>2 DEF MonthsPaid

(* A query is paid before it is sent ...                                   *)
LEMMA ReservationKeepsPaid ==
  ASSUME TypeOK, MonthsPaid, NEW w \in Workers, ReserveTavilyQuery(w)
  PROVE  MonthsPaid'
<1>1. ASSUME NEW n \in Months, n = Month(day[w]) PROVE MonthPaid(n)'
  <2>1. Paid(n)' = Paid(n) \cup {w} /\ w \notin Paid(n)
    BY <1>1 DEF Paid, ReserveTavilyQuery, TypeOK, place
  <2>2. Cardinality(Paid(n)') = Cardinality(Paid(n)) + 1 /\ Cardinality(Paid(n)) \in Nat
    BY <2>1, PaidFinite, FS_AddElement
  <2>3. used'[n] = used[n] + 1 /\ used[n] < MonthlyBudget /\ calls'[n] = calls[n]
    BY <1>1 DEF ReserveTavilyQuery, TypeOK
  <2>4. MonthPaid(n)
    BY DEF MonthsPaid
  <2> QED
    BY <2>2, <2>3, <2>4, OttQueueAssumption DEF MonthPaid, TypeOK
<1>2. ASSUME NEW n \in Months, n # Month(day[w]) PROVE MonthPaid(n)'
  <2>1. Paid(n)' \subseteq Paid(n)
    BY <1>2 DEF Paid, ReserveTavilyQuery, TypeOK, place
  <2>2. used'[n] = used[n] /\ calls'[n] = calls[n]
    BY <1>2 DEF ReserveTavilyQuery, TypeOK
  <2> QED
    BY <2>1, <2>2, PaidShrinks DEF MonthsPaid
<1> QED
  BY <1>1, <1>2 DEF MonthsPaid, Months

(* ... and sent once.                                                      *)
LEMMA SendingKeepsPaid ==
  ASSUME TypeOK, MonthsPaid, NEW w \in Workers, Send(w), UNCHANGED <<used, day>>,
         NEW label \in Pcs \ {"answer"}, pc' = [pc EXCEPT ![w] = label]
  PROVE  MonthsPaid'
<1>1. ASSUME NEW n \in Months, n = Month(day[w]) PROVE MonthPaid(n)'
  <2>1. Paid(n)' = Paid(n) \ {w} /\ w \in Paid(n)
    BY <1>1 DEF Paid, Send, TypeOK
  <2>2. /\ Cardinality(Paid(n)') = Cardinality(Paid(n)) - 1
        /\ Cardinality(Paid(n)) \in Nat
    BY <2>1, PaidFinite, FS_RemoveElement
  <2>3. calls'[n] = calls[n] + 1
    BY <1>1 DEF Send, TypeOK
  <2>4. MonthPaid(n)
    BY DEF MonthsPaid
  <2> QED
    BY <2>2, <2>3, <2>4 DEF MonthPaid, TypeOK
<1>2. ASSUME NEW n \in Months, n # Month(day[w]) PROVE MonthPaid(n)'
  <2>1. Paid(n)' \subseteq Paid(n)
    BY <1>2 DEF Paid, TypeOK
  <2>2. calls'[n] = calls[n]
    BY <1>2 DEF Send, TypeOK
  <2> QED
    BY <2>1, <2>2, PaidShrinks DEF MonthsPaid
<1> QED
  BY <1>1, <1>2 DEF MonthsPaid, Months

(* Every other action is quiet.                                            *)
LEMMA OthersQuiet ==
  ASSUME TypeOK, [Next]_vars,
         \A w \in Workers : ~ReserveTavilyQuery(w) /\ ~Answer(w) /\ ~Fail(w)
  PROVE  Quiet
<1> USE DEF Quiet, TypeOK, rows, facts, usage, place, search
<1>1. ASSUME NEW w \in Workers, Start(w) PROVE Quiet
  BY <1>1 DEF Start
<1>2. ASSUME NEW w \in Workers, Leave(w), UNCHANGED <<used, calls>> PROVE Quiet
  BY <1>2 DEF Leave
<1>3. ASSUME NEW w \in Workers, GoOn(w), UNCHANGED <<used, calls>> PROVE Quiet
  BY <1>3 DEF GoOn
<1>4. ASSUME NEW w \in Workers, Done(w) \/ Drop(w) \/ StopAtMonthlyBudget(w)
               \/ StopAtDailyLimit(w) \/ GiveBack(w)
      PROVE  Quiet
  BY <1>2, <1>4 DEF Done, Drop, StopAtMonthlyBudget, StopAtDailyLimit, GiveBack
<1>5. ASSUME NEW w \in Workers, StoreFailure(w) \/ FindNothing(w) \/ Conclude(w) PROVE Quiet
  BY <1>3, <1>5 DEF StoreFailure, FindNothing, Conclude
<1>6. ASSUME NEW w \in Workers, SkipIneligible(w) PROVE Quiet
  BY <1>6 DEF SkipIneligible
<1>7. ASSUME NEW w \in Workers, Choose(w) PROVE Quiet
  BY <1>7 DEF Choose
<1>8. ASSUME NEW w \in Workers, ReserveDailyMovie(w) PROVE Quiet
  BY <1>8 DEF ReserveDailyMovie
<1>9. ASSUME NEW w \in Workers, Mark(w) PROVE Quiet
  BY <1>9 DEF Mark
<1>10. ASSUME NEW w \in Workers, RefuseTavilyQuery(w) \/ RecordEvidence(w) PROVE Quiet
  BY <1>10 DEF RefuseTavilyQuery, RecordEvidence
<1>11. ASSUME NEW m \in Movies, Scan(m) \/ Requeue(m) \/ AddRow(m) \/ RollBackRow(m)
                \/ CommitRow(m) \/ AdminQueue(m) \/ Reconcile(m) \/ ChangePhase(m)
       PROVE  Quiet
  BY <1>11 DEF Scan, Requeue, AddRow, RollBackRow, CommitRow, AdminQueue, Reconcile, ChangePhase
<1>12. ASSUME NEW i \in Rows, FallDue(i) PROVE Quiet
  BY <1>12 DEF FallDue
<1>13. CASE NextDay \/ UNCHANGED vars
  BY <1>13 DEF NextDay, vars
<1> QED
  BY <1>1, <1>4, <1>5, <1>6, <1>7, <1>8, <1>9, <1>10, <1>11, <1>12, <1>13 DEF Next, Step

LEMMA PaidStep ==
  ASSUME TypeOK, MonthsPaid, [Next]_vars
  PROVE  MonthsPaid'
<1>1. ASSUME NEW w \in Workers, ReserveTavilyQuery(w) PROVE MonthsPaid'
  BY <1>1, ReservationKeepsPaid
<1>2. ASSUME NEW w \in Workers, Answer(w) PROVE MonthsPaid'
  <2>1. PICK label \in {"ask", "decide"} : pc' = [pc EXCEPT ![w] = label]
    BY <1>2 DEF Answer
  <2> QED
    BY <1>2, <2>1, SendingKeepsPaid DEF Answer, Pcs, usage, place
<1>3. ASSUME NEW w \in Workers, Fail(w) PROVE MonthsPaid'
  BY <1>3, SendingKeepsPaid DEF Fail, Pcs, usage, place
<1> QED
  BY <1>1, <1>2, <1>3, OthersQuiet, QuietKeepsPaid

LEMMA DayStep ==
  ASSUME TypeOK, DaysKept, [Next]_vars
  PROVE  DaysKept'
<1>1. ASSUME NEW w \in Workers, ReserveDailyMovie(w) PROVE DaysKept'
  BY <1>1, OttQueueAssumption DEF ReserveDailyMovie, DaysKept, TypeOK, Days
<1>2. CASE UNCHANGED slots
  BY <1>2 DEF DaysKept, Days
<1>3. ASSUME \A w \in Workers : ~ReserveDailyMovie(w) PROVE UNCHANGED slots
  <2> USE DEF usage
  <2>1. ASSUME NEW w \in Workers, Start(w) \/ Drop(w) PROVE UNCHANGED slots
    BY <2>1 DEF Start, Drop
  <2>2. ASSUME NEW w \in Workers, Step(w) PROVE UNCHANGED slots
    BY <1>3, <2>2 DEF Step, Done, SkipIneligible, StopAtMonthlyBudget, Choose, StopAtDailyLimit,
       Mark, ReserveTavilyQuery, RefuseTavilyQuery, Answer, Fail, StoreFailure, GiveBack,
       FindNothing, RecordEvidence, Conclude
  <2>3. ASSUME NEW m \in Movies, Scan(m) \/ Requeue(m) \/ AddRow(m) \/ RollBackRow(m)
                 \/ CommitRow(m) \/ AdminQueue(m) \/ Reconcile(m) \/ ChangePhase(m)
        PROVE  UNCHANGED slots
    BY <2>3 DEF Scan, Requeue, AddRow, RollBackRow, CommitRow, AdminQueue, Reconcile, ChangePhase
  <2>4. ASSUME NEW i \in Rows, FallDue(i) PROVE UNCHANGED slots
    BY <2>4 DEF FallDue
  <2>5. CASE NextDay \/ UNCHANGED vars
    BY <2>5 DEF NextDay, vars
  <2> QED
    BY <2>1, <2>2, <2>3, <2>4, <2>5 DEF Next
<1> QED
  BY <1>1, <1>2, <1>3

BudgetInv == TypeOK /\ MonthsPaid /\ DaysKept

LEMMA BudgetInit == Init => BudgetInv
<1> SUFFICES ASSUME Init PROVE BudgetInv
  OBVIOUS
<1>1. ASSUME NEW n \in Months PROVE MonthPaid(n)
  <2>1. Paid(n) = {}
    BY DEF Paid, Init
  <2>2. Cardinality(Paid(n)) = 0
    BY <2>1, FS_EmptySet
  <2> QED
    BY <1>1, <2>2, OttQueueAssumption DEF MonthPaid, Init
<1>2. DaysKept
  BY OttQueueAssumption DEF DaysKept, Init
<1> QED
  BY <1>1, <1>2, TypeInit DEF BudgetInv, MonthsPaid

LEMMA BudgetFollows == BudgetInv => BudgetKept
<1> SUFFICES ASSUME BudgetInv PROVE BudgetKept
  OBVIOUS
<1>1. ASSUME NEW n \in Months PROVE calls[n] <= MonthlyBudget
  <2>1. MonthPaid(n)
    BY DEF BudgetInv, MonthsPaid
  <2> QED
    BY <1>1, <2>1, PaidFinite, OttQueueAssumption DEF MonthPaid, BudgetInv, TypeOK
<1> QED
  BY <1>1 DEF BudgetInv, DaysKept, BudgetKept

(* However many batches run at once and wherever they die, no more         *)
(* requests are charged to a month than its budget and no more movies to a *)
(* day than its limit.                                                     *)
THEOREM BudgetIsKept == Spec => []BudgetKept
<1>1. BudgetInv /\ [Next]_vars => BudgetInv'
  BY TypeStep, PaidStep, DayStep DEF BudgetInv
<1> QED
  BY BudgetInit, <1>1, BudgetFollows, PTL DEF Spec

-----------------------------------------------------------------------------
(* Failures.                                                               *)

(* Whoever has heard a failure is about to store it.                       *)
FailureStands == \A w \in Workers : hears[w] = "failure" => pc[w] = "failed"

FailureInv == TypeOK /\ FailureStands

LEMMA FailureStep ==
  ASSUME FailureInv, [Next]_vars
  PROVE  FailureStands'
<1> USE DEF FailureInv, FailureStands, TypeOK, rows, facts, usage, place, search
<1>1. ASSUME NEW w \in Workers, Start(w) PROVE FailureStands'
  BY <1>1 DEF Start
<1>2. ASSUME NEW w \in Workers, Leave(w) PROVE FailureStands'
  BY <1>2 DEF Leave
<1>3. ASSUME NEW w \in Workers, GoOn(w) PROVE FailureStands'
  BY <1>3 DEF GoOn
<1>4. ASSUME NEW w \in Workers, Done(w) \/ Drop(w) \/ StopAtMonthlyBudget(w)
               \/ StopAtDailyLimit(w) \/ GiveBack(w)
      PROVE  FailureStands'
  BY <1>2, <1>4 DEF Done, Drop, StopAtMonthlyBudget, StopAtDailyLimit, GiveBack
<1>5. ASSUME NEW w \in Workers, StoreFailure(w) \/ FindNothing(w) \/ Conclude(w)
      PROVE  FailureStands'
  BY <1>3, <1>5 DEF StoreFailure, FindNothing, Conclude
<1>6. ASSUME NEW w \in Workers, SkipIneligible(w) PROVE FailureStands'
  BY <1>6 DEF SkipIneligible
<1>7. ASSUME NEW w \in Workers, Choose(w) PROVE FailureStands'
  <2>1. pc[w] = "visit"
    BY <1>7 DEF Choose, Reach
  <2> QED
    BY <1>7, <2>1 DEF Choose
<1>8. ASSUME NEW w \in Workers, ReserveDailyMovie(w) PROVE FailureStands'
  BY <1>8 DEF ReserveDailyMovie
<1>9. ASSUME NEW w \in Workers, Mark(w) PROVE FailureStands'
  BY <1>9 DEF Mark
<1>10. ASSUME NEW w \in Workers, ReserveTavilyQuery(w) \/ RefuseTavilyQuery(w) PROVE FailureStands'
  BY <1>10 DEF ReserveTavilyQuery, RefuseTavilyQuery
<1>11. ASSUME NEW w \in Workers, Answer(w) PROVE FailureStands'
  <2>1. PICK label \in {"ask", "decide"} : pc' = [pc EXCEPT ![w] = label]
    BY <1>11 DEF Answer
  <2>2. hears' = [hears EXCEPT ![w] = "answers"]
    BY <1>11 DEF Answer
  <2> QED
    BY <2>1, <2>2
<1>12. ASSUME NEW w \in Workers, Fail(w) PROVE FailureStands'
  BY <1>12 DEF Fail
<1>13. ASSUME NEW w \in Workers, RecordEvidence(w) PROVE FailureStands'
  BY <1>13 DEF RecordEvidence
<1>14. ASSUME NEW m \in Movies, Scan(m) \/ Requeue(m) \/ AddRow(m) \/ RollBackRow(m)
                \/ CommitRow(m) \/ AdminQueue(m) \/ Reconcile(m) \/ ChangePhase(m)
       PROVE  FailureStands'
  BY <1>14 DEF Scan, Requeue, AddRow, RollBackRow, CommitRow, AdminQueue, Reconcile, ChangePhase
<1>15. ASSUME NEW i \in Rows, FallDue(i) PROVE FailureStands'
  BY <1>15 DEF FallDue
<1>16. CASE NextDay \/ UNCHANGED vars
  BY <1>16 DEF NextDay, vars
<1> QED
  BY <1>1, <1>4, <1>5, <1>6, <1>7, <1>8, <1>9, <1>10, <1>11, <1>12, <1>13, <1>14, <1>15,
     <1>16 DEF Next, Step

(* A research that ends as NOT_FOUND ends by FindNothing.                  *)
LEMMA WhoWritesNotFound ==
  ASSUME TypeOK, [Next]_vars, NEW w \in Workers, NEW i \in Rows, i \in cur[w], i \notin cur'[w],
         status[i] # "NOT_FOUND", status'[i] = "NOT_FOUND"
  PROVE  FindNothing(w)
<1> USE DEF TypeOK, rows, facts, usage, place, search
<1>1. ASSUME NEW v \in Workers, Leave(v) \/ GoOn(v), v # w PROVE FALSE
  BY <1>1 DEF Leave, GoOn
<1>2. ASSUME NEW v \in Workers, Start(v) PROVE FALSE
  BY <1>2 DEF Start
<1>3. ASSUME NEW v \in Workers, Done(v) \/ Drop(v) \/ StopAtDailyLimit(v) PROVE FALSE
  BY <1>3 DEF Done, Drop, StopAtDailyLimit
<1>4. ASSUME NEW v \in Workers, NEW m \in Movies, NEW code \in Eligibilities, Classify(m, code)
      PROVE FALSE
  BY <1>4 DEF Classify, StatusAfter, Withdrawn, Eligibilities, AllPhases
<1>5. ASSUME NEW v \in Workers, NEW j \in batch[v], NEW code \in Eligibilities, Reach(v, j, code)
      PROVE FALSE
  BY <1>4, <1>5 DEF Reach
<1>6. ASSUME NEW v \in Workers, SkipIneligible(v) PROVE FALSE
  BY <1>5, <1>6 DEF SkipIneligible
<1>7. ASSUME NEW v \in Workers, StopAtMonthlyBudget(v) \/ Choose(v) PROVE FALSE
  <2>1. PICK j \in batch[v] : Reach(v, j, "ELIGIBLE")
    BY <1>7 DEF StopAtMonthlyBudget, Choose
  <2> QED
    BY <1>5, <2>1 DEF Eligibilities
<1>8. ASSUME NEW v \in Workers, ReserveDailyMovie(v) \/ ReserveTavilyQuery(v)
               \/ RefuseTavilyQuery(v) \/ Answer(v) \/ Fail(v)
      PROVE FALSE
  BY <1>8 DEF ReserveDailyMovie, ReserveTavilyQuery, RefuseTavilyQuery, Answer, Fail
<1>9. ASSUME NEW v \in Workers, Mark(v) PROVE FALSE
  BY <1>9 DEF Mark
<1>10. ASSUME NEW v \in Workers, NEW s \in Statuses \ {"NOT_FOUND"}, EndResearch(v, s) PROVE FALSE
  BY <1>10 DEF EndResearch, Write
<1>11. ASSUME NEW v \in Workers, StoreFailure(v) \/ GiveBack(v) PROVE FALSE
  BY <1>10, <1>11 DEF StoreFailure, GiveBack, Statuses
<1>12. ASSUME NEW v \in Workers, FindNothing(v) PROVE FindNothing(w)
  BY <1>1, <1>12 DEF FindNothing
<1>13. ASSUME NEW v \in Workers, RecordEvidence(v) PROVE FALSE
  BY <1>13 DEF RecordEvidence
<1>14. ASSUME NEW v \in Workers, Conclude(v) PROVE FALSE
  <2>1. PICK verdict \in Verdicts \ {"UNKNOWN"} : EndResearch(v, verdict)
    BY <1>14 DEF Conclude
  <2>2. verdict \in Statuses \ {"NOT_FOUND"}
    BY OttQueueAssumption DEF AllVerdicts, Statuses
  <2> QED
    BY <1>10, <2>1, <2>2
<1>15. ASSUME NEW m \in Movies, Scan(m) \/ Requeue(m) \/ AddRow(m) \/ RollBackRow(m)
                \/ CommitRow(m) \/ AdminQueue(m) \/ Reconcile(m) \/ ChangePhase(m)
       PROVE  FALSE
  BY <1>15 DEF Scan, Requeue, AddRow, RollBackRow, CommitRow, AdminQueue, Reconcile, ChangePhase
<1>16. ASSUME NEW j \in Rows, FallDue(j) PROVE FALSE
  BY <1>16 DEF FallDue
<1>17. CASE NextDay \/ UNCHANGED vars
  BY <1>17 DEF NextDay, vars
<1> QED
  BY <1>2, <1>3, <1>6, <1>7, <1>8, <1>9, <1>11, <1>12, <1>13, <1>14, <1>15, <1>16, <1>17
     DEF Next, Step

(* A search that raised is never stored as NOT_FOUND: between the failure  *)
(* and the batch's commit of FAILED nothing else ends the research but the *)
(* end of the task.                                                        *)
THEOREM FailuresStayFailures == Spec => FailureIsNotNotFound
<1>1. Init => FailureInv
  <2>1. Init => FailureStands
    BY DEF Init, FailureStands
  <2> QED
    BY <2>1, TypeInit DEF FailureInv
<1>2. FailureInv /\ [Next]_vars => FailureInv'
  BY TypeStep, FailureStep DEF FailureInv
<1>3. FailureInv /\ [Next]_vars => [~NotFoundAfter("failure")]_vars
  <2> SUFFICES ASSUME FailureInv, [Next]_vars, NotFoundAfter("failure") PROVE FALSE
    OBVIOUS
  <2>1. PICK w \in Workers, i \in Rows :
          /\ i \in cur[w] /\ i \notin cur'[w]
          /\ status[i] # "NOT_FOUND" /\ status'[i] = "NOT_FOUND"
          /\ hears[w] = "failure"
    BY DEF NotFoundAfter
  <2>2. pc[w] = "decide"
    BY <2>1, WhoWritesNotFound DEF FailureInv, FindNothing
  <2> QED
    BY <2>1, <2>2 DEF FailureInv, FailureStands
<1> QED
  BY <1>1, <1>2, <1>3, PTL DEF Spec, FailureIsNotNotFound
=============================================================================
