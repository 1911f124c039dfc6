------------------------------ MODULE OttQueue ------------------------------
(***************************************************************************)
(* The OTT research queue: the rows of ott_evidence without a source_url   *)
(* (queue rows), what classify_movie stores of a movie's eligibility       *)
(* (app/services/release_status.py), how movies enter the queue            *)
(* (queue_movie in app/services/operations.py and research_movie_ott in    *)
(* app/api/v1/admin.py), the two usage counters (ResearchUsageService),    *)
(* and _ott_research_batch of app/workers/tasks.py with the Tavily client. *)
(*                                                                         *)
(* Two tasks run that batch: operations.ott_research under its lock, and   *)
(* the orchestrator without one.  Each is a worker here.                   *)
(***************************************************************************)
EXTENDS Naturals, FiniteSets

CONSTANTS
  Movies,         \* movies of the catalogue
  Workers,        \* tasks that may run _ott_research_batch at once
  MaxRows,        \* bound on the queue rows ever inserted
  MaxSessions,    \* bound on sessions about to insert a row for one movie
  MaxDay,         \* bound on the days that pass
  DaysPerMonth,   \* length of a month
  DailyLimit,     \* settings.OTT_DAILY_RESEARCH_MOVIE_LIMIT
  MonthlyBudget,  \* settings.TAVILY_MONTHLY_APP_BUDGET
  MaxQueries,     \* settings.TAVILY_MAX_QUERIES_PER_MOVIE, two in the client
  MaxResults,     \* results whose evidence is recorded, three in the code
  Phases,         \* the answers of research_eligibility a run lets the dates give
  Verdicts        \* the answers of evaluate_movie a run considers

Rows == 1 .. MaxRows
Days == 0 .. MaxDay
Month(d) == d \div DaysPerMonth
Months == {Month(d) : d \in Days}

(* What the dates alone say: not released or too recent, no date known,    *)
(* too old without a request, or open for research.                        *)
AllPhases == {"WAITING_RELEASE", "METADATA_REPAIR", "TOO_OLD", "OPEN"}
AllVerdicts == {"UNKNOWN", "POSSIBLE", "CONFLICTING", "NEEDS_REVIEW", "CONFIRMED"}
Eligibilities == (AllPhases \ {"OPEN"}) \cup {"NONE", "CONFIRMED", "COOLDOWN", "ELIGIBLE"}

ASSUME OttQueueAssumption ==
  /\ IsFiniteSet(Workers)
  /\ MaxRows \in Nat /\ MaxSessions \in Nat /\ MaxDay \in Nat
  /\ DaysPerMonth \in Nat \ {0}
  /\ DailyLimit \in Nat /\ MonthlyBudget \in Nat
  /\ MaxQueries \in Nat \ {0} /\ MaxResults \in Nat \ {0}
  /\ Phases \subseteq AllPhases
  /\ Verdicts \subseteq AllVerdicts

VARIABLES
  owner,      \* OttEvidence.movie_id of a queue row, a set of one, or {}
  status,     \* OttEvidence.status, NONE for a row not inserted yet
  next,       \* OttEvidence.next_check: none, past or future
  latest,     \* per movie: its row with the latest updated_at, 0 for none; no
              \* UPDATE writes that column, so this is the row inserted last
  adding,     \* per movie: sessions that added a row and have not committed
  elig,       \* Movie.ott_research_eligibility
  phase,      \* per movie: what its dates say today
  confirmed,  \* movies with a canonical row that confirmed_canonical_ott accepts
  today,      \* the day
  used,       \* per month: processed_count of tavily_usage:<month>
  slots,      \* per day: processed_count of ott_research_daily:<day>
  pc,         \* per worker: where it is in the batch
  day,        \* per worker: the day of the batch's now
  due,        \* per worker: rows whose next_check is not after the batch's now
  batch,      \* per worker: rows selected and not visited
  cur,        \* per worker: the row it researches, a set of one at most
  asked,      \* per worker: last_query_count of its provider object
  allowed,    \* per worker: max_queries of this search
  found,      \* per worker: results to record
  calls,      \* history, per month charged: requests sent to Tavily
  hears       \* history, per worker: what this research heard from Tavily

rows == <<owner, status, next, latest>>
facts == <<phase, confirmed, today>>
usage == <<used, slots>>
place == <<day, batch, cur>>
search == <<asked, allowed, found, calls, hears>>
vars == <<rows, adding, elig, facts, usage, pc, due, place, search>>

Statuses == {"NONE", "UNKNOWN", "QUEUED", "RESEARCHING", "POSSIBLE", "CONFLICTING",
             "NOT_FOUND", "NEEDS_REVIEW", "FAILED", "CONFIRMED",
             "WAITING_RELEASE", "METADATA_REPAIR", "TOO_OLD"}
OPEN == {"UNKNOWN", "QUEUED", "RESEARCHING", "POSSIBLE", "CONFLICTING", "NOT_FOUND",
         "NEEDS_REVIEW", "FAILED"}
Researchable == {"UNKNOWN", "QUEUED", "POSSIBLE", "NOT_FOUND", "CONFLICTING", "FAILED"}
WithdrawableQueued == {"UNKNOWN", "QUEUED", "POSSIBLE", "NOT_FOUND", "FAILED"}
Withdrawable == {"UNKNOWN", "QUEUED", "RESEARCHING", "POSSIBLE", "NOT_FOUND", "FAILED"}
Requeueable == {"WAITING_RELEASE", "METADATA_REPAIR", "TOO_OLD"}
Pcs == {"idle", "visit", "slot", "mark", "ask", "answer", "failed", "decide", "record"}
Hearings == {"nothing", "answers", "failure"}

TypeOK ==
  /\ owner \in [Rows -> SUBSET Movies]
  /\ status \in [Rows -> Statuses]
  /\ next \in [Rows -> {"none", "past", "future"}]
  /\ latest \in [Movies -> 0 .. MaxRows]
  /\ adding \in [Movies -> Nat]
  /\ elig \in [Movies -> Eligibilities]
  /\ phase \in [Movies -> AllPhases]
  /\ confirmed \subseteq Movies
  /\ today \in Days
  /\ used \in [Months -> Nat] /\ slots \in [Days -> Nat]
  /\ pc \in [Workers -> Pcs]
  /\ day \in [Workers -> Days]
  /\ due \in [Workers -> SUBSET Rows]
  /\ batch \in [Workers -> SUBSET Rows]
  /\ cur \in [Workers -> SUBSET Rows]
  /\ asked \in [Workers -> Nat] /\ allowed \in [Workers -> Nat] /\ found \in [Workers -> Nat]
  /\ calls \in [Months -> Nat]
  /\ hears \in [Workers -> Hearings]

Init ==
  /\ owner = [i \in Rows |-> {}]
  /\ status = [i \in Rows |-> "NONE"]
  /\ next = [i \in Rows |-> "none"]
  /\ latest = [m \in Movies |-> 0]
  /\ adding = [m \in Movies |-> 0]
  /\ elig = [m \in Movies |-> "NONE"]
  /\ phase \in [Movies -> Phases]
  /\ confirmed = {}
  /\ today = 0
  /\ used = [n \in Months |-> 0] /\ slots = [d \in Days |-> 0]
  /\ pc = [w \in Workers |-> "idle"]
  /\ day = [w \in Workers |-> 0]
  /\ due = [w \in Workers |-> {}]
  /\ batch = [w \in Workers |-> {}]
  /\ cur = [w \in Workers |-> {}]
  /\ asked = [w \in Workers |-> 0] /\ allowed = [w \in Workers |-> 0]
  /\ found = [w \in Workers |-> 0]
  /\ calls = [n \in Months |-> 0]
  /\ hears = [w \in Workers |-> "nothing"]

-----------------------------------------------------------------------------
(* Classification.                                                         *)

RowsOf(m) == {i \in Rows : m \in owner[i]}

(* research_eligibility, where cooling says that next_check is after now.  *)
Eligibility(m, cooling) ==
  CASE m \in confirmed      -> "CONFIRMED"
    [] m \notin confirmed /\ phase[m] # "OPEN" -> phase[m]
    [] OTHER                -> IF cooling THEN "COOLDOWN" ELSE "ELIGIBLE"

Cooling(m) == latest[m] # 0 /\ next[latest[m]] = "future"
EligibilityNow(m) == Eligibility(m, Cooling(m))

(* A batch's now is the time it began: what was written since is later.    *)
CoolingFor(w, m) == latest[m] # 0 /\ next[latest[m]] # "none" /\ latest[m] \notin due[w]
EligibilityFor(w, m) == Eligibility(m, CoolingFor(w, m))

Write(i, s, n) ==
  /\ status' = [status EXCEPT ![i] = s]
  /\ next' = [next EXCEPT ![i] = n]
  /\ due' = [w \in Workers |-> due[w] \ {i}]
  /\ UNCHANGED <<owner, latest>>

(* _sync_ineligible_evidence: the latest row of a movie follows the code.  *)
Withdrawn(m, code) ==
  IF /\ code \notin {"ELIGIBLE", "COOLDOWN"}
     /\ latest[m] # 0
     /\ status[latest[m]] \in Withdrawable
    THEN {latest[m]}
    ELSE {}

StatusAfter(m, code) ==
  [i \in Rows |-> IF i \in Withdrawn(m, code) THEN code ELSE status[i]]

NextAfter(m, code) ==
  [i \in Rows |-> IF i \in Withdrawn(m, code)
                    THEN IF code \in {"CONFIRMED", "TOO_OLD"} THEN "none" ELSE "future"
                    ELSE next[i]]

Classify(m, code) ==
  /\ elig' = [elig EXCEPT ![m] = code]
  /\ status' = StatusAfter(m, code)
  /\ next' = NextAfter(m, code)
  /\ due' = [w \in Workers |-> due[w] \ Withdrawn(m, code)]
  /\ UNCHANGED <<owner, latest>>

ScanOnce(m) ==
  /\ elig[m] = "NONE"
  /\ Classify(m, EligibilityNow(m))
  /\ UNCHANGED <<adding, facts, usage, pc, place, search>>

(* data_health's scan goes over the whole catalogue again and again; every *)
(* other call of classify_movie outside a batch stores the same.           *)
Scan(m) ==
  /\ Classify(m, EligibilityNow(m))
  /\ UNCHANGED <<adding, facts, usage, pc, place, search>>

-----------------------------------------------------------------------------
(* Entering the queue.                                                     *)

HasOpenRow(m) == \E i \in RowsOf(m) : status[i] \in OPEN
Insertable(m) ==
  /\ EligibilityNow(m) = "ELIGIBLE"
  /\ ~HasOpenRow(m)
  /\ latest[m] # 0 => status[latest[m]] \notin Requeueable

(* queue_movie on a movie that was withdrawn before.                       *)
Requeue(m) ==
  /\ EligibilityNow(m) = "ELIGIBLE"
  /\ ~HasOpenRow(m)
  /\ latest[m] # 0 /\ status[latest[m]] \in Requeueable
  /\ elig' = [elig EXCEPT ![m] = "ELIGIBLE"]
  /\ Write(latest[m], "QUEUED", "past")
  /\ UNCHANGED <<adding, facts, usage, pc, place, search>>

(* queue_movie finds no row and adds one; its caller commits later, after  *)
(* other movies of its loop, or rolls back.                                *)
AddRow(m) ==
  /\ Insertable(m)
  /\ adding[m] < MaxSessions
  /\ adding' = [adding EXCEPT ![m] = @ + 1]
  /\ UNCHANGED <<rows, elig, facts, usage, pc, due, place, search>>

RollBackAnyway(m) ==
  /\ Insertable(m)
  /\ adding' = [adding EXCEPT ![m] = @ - 1]
  /\ UNCHANGED <<rows, elig, facts, usage, pc, due, place, search>>

RollBackRow(m) ==
  /\ adding[m] > 0
  /\ adding' = [adding EXCEPT ![m] = @ - 1]
  /\ UNCHANGED <<rows, elig, facts, usage, pc, due, place, search>>

Free(i) == status[i] = "NONE" /\ \A j \in Rows : j < i => status[j] # "NONE"

CommitRow(m) ==
  /\ adding[m] > 0
  /\ \E i \in Rows :
       /\ Free(i)
       /\ owner' = [owner EXCEPT ![i] = {m}]
       /\ status' = [status EXCEPT ![i] = "QUEUED"]
       /\ next' = [next EXCEPT ![i] = "past"]
       /\ latest' = [latest EXCEPT ![m] = i]
  /\ adding' = [adding EXCEPT ![m] = @ - 1]
  /\ elig' = [elig EXCEPT ![m] = "ELIGIBLE"]
  /\ UNCHANGED <<facts, usage, pc, due, place, search>>

(* research_movie_ott: the administrator queues the movie's newest row     *)
(* whatever its eligibility, unless it is being researched.  A row that    *)
(* queue_movie added is not flushed, so the query does not see it, and the *)
(* older one is queued beside it.                                          *)
AdminQueue(m) ==
  \E i \in RowsOf(m) :
    LET code == EligibilityNow(m) IN
    /\ \A j \in RowsOf(m) : j <= i
    /\ StatusAfter(m, code)[i] # "RESEARCHING"
    /\ elig' = [elig EXCEPT ![m] = code]
    /\ status' = [StatusAfter(m, code) EXCEPT ![i] = "QUEUED"]
    /\ next' = [NextAfter(m, code) EXCEPT ![i] = "past"]
    /\ due' = [w \in Workers |-> due[w] \ (Withdrawn(m, code) \cup {i})]
    /\ \/ Insertable(m) /\ adding[m] < MaxSessions /\ adding' = [adding EXCEPT ![m] = @ + 1]
       \/ ~Insertable(m) /\ UNCHANGED adding
    /\ UNCHANGED <<owner, latest, facts, usage, pc, place, search>>

-----------------------------------------------------------------------------
(* The research batch.                                                     *)

Selectable ==
  {i \in Rows : /\ status[i] \in Researchable
               /\ next[i] = "past"
               /\ \A m \in owner[i] : elig[m] = "ELIGIBLE"}

Smaller(a, b) == IF a <= b THEN a ELSE b

(* The order of the selection (requests, dates, popularity) is left open.  *)
Start(w) ==
  /\ pc[w] = "idle"
  /\ used[Month(today)] < MonthlyBudget
  /\ slots[today] < DailyLimit
  /\ \E selected \in SUBSET Selectable :
       /\ Cardinality(selected) =
            Smaller(Cardinality(Selectable), DailyLimit - slots[today])
       /\ batch' = [batch EXCEPT ![w] = selected]
  /\ day' = [day EXCEPT ![w] = today]
  /\ due' = [due EXCEPT ![w] = {i \in Rows : next[i] = "past"}]
  /\ asked' = [asked EXCEPT ![w] = 0]
  /\ pc' = [pc EXCEPT ![w] = "visit"]
  /\ UNCHANGED <<rows, adding, elig, facts, usage, cur, allowed, found, calls, hears>>

(* The task is over: the batch's last commit, a break, or an exception or  *)
(* a kill, which rolls back what was not committed.                        *)
Leave(w) ==
  /\ pc' = [pc EXCEPT ![w] = "idle"]
  /\ batch' = [batch EXCEPT ![w] = {}]
  /\ cur' = [cur EXCEPT ![w] = {}]
  /\ day' = [day EXCEPT ![w] = 0]
  /\ asked' = [asked EXCEPT ![w] = 0]
  /\ allowed' = [allowed EXCEPT ![w] = 0]
  /\ found' = [found EXCEPT ![w] = 0]
  /\ hears' = [hears EXCEPT ![w] = "nothing"]

Done(w) ==
  /\ pc[w] = "visit" /\ batch[w] = {}
  /\ Leave(w)
  /\ due' = [due EXCEPT ![w] = {}]
  /\ UNCHANGED <<rows, adding, elig, facts, usage, calls>>

Drop(w) ==
  /\ pc[w] # "idle"
  /\ Leave(w)
  /\ due' = [due EXCEPT ![w] = {}]
  /\ UNCHANGED <<rows, adding, elig, facts, usage, calls>>

(* The movie is classified again as the batch reaches it.                  *)
Reach(w, i, code) ==
  /\ pc[w] = "visit"
  /\ i \in batch[w]
  /\ \E m \in owner[i] : code = EligibilityFor(w, m) /\ Classify(m, code)

SkipIneligible(w) ==
  /\ \E i \in batch[w] :
       /\ \E code \in Eligibilities \ {"ELIGIBLE"} : Reach(w, i, code)
       /\ batch' = [batch EXCEPT ![w] = @ \ {i}]
  /\ UNCHANGED <<adding, facts, usage, pc, day, cur, search>>

StopAtMonthlyBudget(w) ==
  /\ \E i \in batch[w] : Reach(w, i, "ELIGIBLE")
  /\ used[Month(day[w])] >= MonthlyBudget
  /\ Leave(w)
  /\ UNCHANGED <<adding, facts, usage, calls>>

Choose(w) ==
  /\ used[Month(day[w])] < MonthlyBudget
  /\ \E i \in batch[w] :
       /\ Reach(w, i, "ELIGIBLE")
       /\ cur' = [cur EXCEPT ![w] = {i}]
       /\ batch' = [batch EXCEPT ![w] = @ \ {i}]
  /\ pc' = [pc EXCEPT ![w] = "slot"]
  /\ UNCHANGED <<adding, facts, usage, day, search>>

ReserveDailyMovie(w) ==
  /\ pc[w] = "slot"
  /\ slots[day[w]] < DailyLimit
  /\ slots' = [slots EXCEPT ![day[w]] = @ + 1]
  /\ pc' = [pc EXCEPT ![w] = "mark"]
  /\ UNCHANGED <<rows, adding, elig, facts, used, due, place, search>>

StopAtDailyLimit(w) ==
  /\ pc[w] = "slot"
  /\ slots[day[w]] >= DailyLimit
  /\ Leave(w)
  /\ due' = [due EXCEPT ![w] = {}]
  /\ UNCHANGED <<rows, adding, elig, facts, usage, calls>>

Remaining(n) == IF used[n] < MonthlyBudget THEN MonthlyBudget - used[n] ELSE 0

(* RESEARCHING is committed by the snapshot of the month.  When that says  *)
(* that nothing is left, search is not called, and last_query_count still  *)
(* tells of the search before.                                             *)
Mark(w) ==
  LET remaining == Smaller(MaxQueries, Remaining(Month(day[w]))) IN
  /\ pc[w] = "mark"
  /\ status' = [i \in Rows |-> IF i \in cur[w] THEN "RESEARCHING" ELSE status[i]]
  /\ allowed' = [allowed EXCEPT ![w] = remaining]
  /\ asked' = [asked EXCEPT ![w] = IF remaining > 0 THEN 0 ELSE @]
  /\ found' = [found EXCEPT ![w] = 0]
  /\ hears' = [hears EXCEPT ![w] = "nothing"]
  /\ pc' = [pc EXCEPT ![w] = IF remaining > 0 THEN "ask" ELSE "decide"]
  /\ UNCHANGED <<owner, latest, next, due, adding, elig, facts, usage, place, calls>>

ReserveUnchecked(w) ==
  /\ pc[w] = "ask"
  /\ used' = [used EXCEPT ![Month(day[w])] = @ + 1]
  /\ asked' = [asked EXCEPT ![w] = @ + 1]
  /\ pc' = [pc EXCEPT ![w] = "answer"]
  /\ UNCHANGED <<rows, adding, elig, facts, slots, due, place, allowed, found, calls, hears>>

(* _request: the query is paid before it is sent.  A refusal ends the      *)
(* search, as every further query would be refused too.                    *)
ReserveTavilyQuery(w) ==
  /\ pc[w] = "ask"
  /\ used[Month(day[w])] < MonthlyBudget
  /\ used' = [used EXCEPT ![Month(day[w])] = @ + 1]
  /\ asked' = [asked EXCEPT ![w] = @ + 1]
  /\ pc' = [pc EXCEPT ![w] = "answer"]
  /\ UNCHANGED <<rows, adding, elig, facts, slots, due, place, allowed, found, calls, hears>>

RefuseTavilyQuery(w) ==
  /\ pc[w] = "ask"
  /\ used[Month(day[w])] >= MonthlyBudget
  /\ pc' = [pc EXCEPT ![w] = "decide"]
  /\ UNCHANGED <<rows, adding, elig, facts, usage, due, place, search>>

Send(w) ==
  /\ pc[w] = "answer"
  /\ calls' = [calls EXCEPT ![Month(day[w])] = @ + 1]

(* Only the first answer can make the second query needless.               *)
Answer(w) ==
  /\ Send(w)
  /\ hears' = [hears EXCEPT ![w] = "answers"]
  /\ \E results \in found[w] .. MaxResults :
       /\ found' = [found EXCEPT ![w] = results]
       /\ \/ asked[w] < allowed[w] /\ pc' = [pc EXCEPT ![w] = "ask"]
          \/ /\ asked[w] = allowed[w] \/ (asked[w] = 1 /\ results > 0)
             /\ pc' = [pc EXCEPT ![w] = "decide"]
  /\ UNCHANGED <<rows, adding, elig, facts, usage, due, place, asked, allowed>>

(* What ends the research of w's row is its new status, and the day of its *)
(* next check.                                                             *)
EndResearch(w, s) == \E i \in cur[w] : Write(i, s, "future")

(* The batch goes on with the next row.                                    *)
GoOn(w) ==
  /\ cur' = [cur EXCEPT ![w] = {}]
  /\ allowed' = [allowed EXCEPT ![w] = 0]
  /\ found' = [found EXCEPT ![w] = 0]
  /\ hears' = [hears EXCEPT ![w] = "nothing"]
  /\ pc' = [pc EXCEPT ![w] = "visit"]
  /\ UNCHANGED <<day, batch, asked>>

(* A timeout, an HTTP error, 402 or 429: the search raises, and the batch  *)
(* stores FAILED.                                                          *)
SwallowFailure(w) ==
  /\ Send(w)
  /\ hears' = [hears EXCEPT ![w] = "failure"]
  /\ pc' = [pc EXCEPT ![w] = "decide"]
  /\ UNCHANGED <<rows, adding, elig, facts, usage, due, place, asked, allowed, found>>

Fail(w) ==
  /\ Send(w)
  /\ hears' = [hears EXCEPT ![w] = "failure"]
  /\ pc' = [pc EXCEPT ![w] = "failed"]
  /\ UNCHANGED <<rows, adding, elig, facts, usage, due, place, asked, allowed, found>>

StoreFailure(w) ==
  /\ pc[w] = "failed"
  /\ EndResearch(w, "FAILED")
  /\ GoOn(w)
  /\ UNCHANGED <<adding, elig, facts, usage, calls>>

(* No query was paid: the row waits a day and the batch breaks.            *)
GiveBack(w) ==
  /\ pc[w] = "decide" /\ asked[w] = 0
  /\ EndResearch(w, "QUEUED")
  /\ Leave(w)
  /\ UNCHANGED <<adding, elig, facts, usage, calls>>

(* NOT_FOUND is committed with the batch's next commit: until then a       *)
(* failure of the task loses it.                                           *)
FindNothing(w) ==
  /\ pc[w] = "decide" /\ asked[w] > 0 /\ found[w] = 0
  /\ EndResearch(w, "NOT_FOUND")
  /\ GoOn(w)
  /\ UNCHANGED <<adding, elig, facts, usage, calls>>

(* evaluate_movie: reconciliation may confirm the movie or take that back, *)
(* and the latest row follows its verdict.                                 *)
Evaluate(m) ==
  /\ confirmed' \in {confirmed \cup {m}, confirmed \ {m}}
  /\ \/ /\ latest[m] # 0
        /\ \E verdict \in Verdicts : Write(latest[m], verdict, "future")
     \/ latest[m] = 0 /\ UNCHANGED <<rows, due>>

(* record_evidence commits for each result.                                *)
RecordEvidence(w) ==
  /\ \/ pc[w] = "decide" /\ asked[w] > 0
     \/ pc[w] = "record"
  /\ found[w] > 0
  /\ \E i \in cur[w] : \E m \in owner[i] : Evaluate(m)
  /\ found' = [found EXCEPT ![w] = @ - 1]
  /\ pc' = [pc EXCEPT ![w] = "record"]
  /\ UNCHANGED <<adding, elig, phase, today, usage, place, asked, allowed, calls, hears>>

(* The row follows the evidence of this batch, again with the next commit. *)
Conclude(w) ==
  /\ pc[w] = "record" /\ found[w] = 0
  /\ \E verdict \in Verdicts \ {"UNKNOWN"} : EndResearch(w, verdict)
  /\ GoOn(w)
  /\ UNCHANGED <<adding, elig, facts, usage, calls>>

-----------------------------------------------------------------------------
(* The rest of the system.                                                 *)

(* Evidence from another service, a manual verdict, a rejection.           *)
Reconcile(m) ==
  /\ Evaluate(m)
  /\ UNCHANGED <<adding, elig, phase, today, usage, pc, place, search>>

(* Dates pass or are edited, a request comes or goes.                      *)
ChangePhase(m) ==
  /\ \E p \in Phases : phase' = [phase EXCEPT ![m] = p]
  /\ UNCHANGED <<rows, adding, elig, confirmed, today, usage, pc, due, place, search>>

FallDue(i) ==
  /\ next[i] = "future"
  /\ next' = [next EXCEPT ![i] = "past"]
  /\ UNCHANGED <<owner, status, latest, adding, elig, facts, usage, pc, due, place, search>>

NextDay ==
  /\ today < MaxDay
  /\ today' = today + 1
  /\ UNCHANGED <<rows, adding, elig, phase, confirmed, usage, pc, due, place, search>>

Step(w) ==
  \/ Done(w) \/ SkipIneligible(w) \/ StopAtMonthlyBudget(w) \/ Choose(w)
  \/ ReserveDailyMovie(w) \/ StopAtDailyLimit(w) \/ Mark(w)
  \/ ReserveTavilyQuery(w) \/ RefuseTavilyQuery(w) \/ Answer(w) \/ Fail(w)
  \/ StoreFailure(w) \/ GiveBack(w) \/ FindNothing(w) \/ RecordEvidence(w) \/ Conclude(w)

Next ==
  \/ \E w \in Workers : Start(w) \/ Step(w) \/ Drop(w)
  \/ \E m \in Movies :
       \/ Scan(m) \/ Requeue(m) \/ AddRow(m) \/ RollBackRow(m) \/ CommitRow(m)
       \/ AdminQueue(m) \/ Reconcile(m) \/ ChangePhase(m)
  \/ \E i \in Rows : FallDue(i)
  \/ NextDay

Spec == Init /\ [][Next]_vars

(* data_health is scheduled every 15 minutes and its cursor starts again   *)
(* after the last movie.                                                   *)
LiveSpec == Spec /\ \A m \in Movies : WF_vars(Scan(m))

-----------------------------------------------------------------------------
(* Properties.                                                             *)

(* The concurrent batches never send Tavily more requests in a month's     *)
(* name than the budget, and never research more movies in a day's name    *)
(* than the limit: reservations are taken under the row's lock before the  *)
(* call, and are not given back when the task dies.                        *)
BudgetKept ==
  /\ \A n \in Months : calls[n] <= MonthlyBudget
  /\ \A d \in Days : slots[d] <= DailyLimit

(* The steps that make a row NOT_FOUND, of a research that heard h.        *)
NotFoundAfter(h) ==
  \E w \in Workers, i \in Rows :
    /\ i \in cur[w] /\ i \notin cur'[w]
    /\ status[i] # "NOT_FOUND" /\ status'[i] = "NOT_FOUND"
    /\ hears[w] = h

(* A search that met an HTTP failure never ends as NOT_FOUND, also when    *)
(* the query before it was answered with nothing.                          *)
FailureIsNotNotFound == [][~NotFoundAfter("failure")]_vars

(* Nor does a search that asked nothing because the budget was exhausted.  *)
QuotaIsNotNotFound == [][~NotFoundAfter("nothing")]_vars

(* A movie that stays ineligible does not keep its latest row in the       *)
(* queue or in research for ever, not even when the task that researched   *)
(* it died or a batch wrote its result over the withdrawn row.             *)
IneligibleLeavesQueue ==
  \A m \in Movies :
    []<>(\/ m \notin confirmed /\ phase[m] = "OPEN"
         \/ latest[m] = 0
         \/ status[latest[m]] \notin OPEN \ {"CONFLICTING", "NEEDS_REVIEW"})

(* A movie put aside by COOLDOWN comes back: when its dates keep it open   *)
(* and its row stays due, it is stored as ELIGIBLE again, which the        *)
(* selection of the batch asks for.                                        *)
DueIsSelectable ==
  \A m \in Movies :
    []<>(\/ m \in confirmed \/ phase[m] # "OPEN"
         \/ latest[m] = 0
         \/ next[latest[m]] # "past"
         \/ elig[m] = "ELIGIBLE")
=============================================================================
