-------------------------------- MODULE Ratings --------------------------------
(***************************************************************************)
(* IMDb ratings (app/services/rating_provider.py): the lifecycle of a row  *)
(* of movie_ratings, the batches that refresh due rows, the callers that   *)
(* refresh one movie, and the recovery of missing IMDb ids                 *)
(* (IMDbIdRecoveryService of app/services/backfill.py).  A batch asks the  *)
(* provider movie by movie and commits once, at its end.                   *)
(***************************************************************************)
EXTENDS Integers, FiniteSets

CONSTANTS
  Ranked,        \* movies, numbered by the order in which a batch takes them
  Poisoned,      \* movies the provider always fails for
  Raters,        \* sessions that refresh
  RatingBatch,   \* batch_limit
  RecoveryWindow,\* candidates an id recovery looks at
  LongWait,      \* rest after an answer, longer than after any failure
  MaxOutages     \* bound on quota stops, failures for sound movies and deaths

ASSUME RatingAssumption ==
  /\ Ranked \subseteq Nat \ {0} /\ IsFiniteSet(Ranked) /\ Poisoned \subseteq Ranked
  /\ RatingBatch \in Nat \ {0} /\ RecoveryWindow \in Nat \ {0}
  /\ LongWait \in Nat /\ LongWait > 1 /\ MaxOutages \in Nat

VARIABLES
  rating,    \* status of the IMDb row, NONE before it
  wait,      \* refresh periods until next_check_at
  attempts,  \* attempt_count, counted up to LongWait
  holds,     \* movies with an IMDb id
  sought,    \* backfill record of the id recovery: NONE, PERMANENT or waits
  rater,     \* what a session is at: movies left and results not committed
  ran,       \* the refresh of this period has begun
  outages

ratingVars == <<rating, wait, attempts, holds, sought, rater, ran, outages>>

(* An answer is a rating, none yet, or no such title: each rests for days. *)
Answers == {"ANSWERED"}
Failures == {"TEMPORARY_FAILURE", "BLOCKED_BY_QUOTA", "INVALID_ID"}
RatingStatuses == {"NONE", "PENDING"} \cup Answers \cup Failures
Free == [at |-> "rest", left |-> {}, news |-> <<>>]

RatingTypeOK ==
  /\ rating \in [Ranked -> RatingStatuses]
  /\ wait \in [Ranked -> 0 .. LongWait] /\ attempts \in [Ranked -> 0 .. LongWait]
  /\ holds \subseteq Ranked
  /\ sought \in [Ranked -> {"NONE", "PENDING", "PERMANENT"}]
  /\ \A r \in Raters : /\ rater[r].at \in {"rest", "ask", "commit"}
                       /\ rater[r].left \subseteq Ranked
                       /\ DOMAIN rater[r].news \subseteq Ranked
  /\ ran \in BOOLEAN /\ outages \in 0 .. MaxOutages

RatingInit ==
  /\ rating = [m \in Ranked |-> "NONE"]
  /\ wait = [m \in Ranked |-> 0] /\ attempts = [m \in Ranked |-> 0]
  /\ holds \in {Ranked, {}}
  /\ sought = [m \in Ranked |-> "NONE"]
  /\ rater = [r \in Raters |-> Free]
  /\ ran = FALSE /\ outages = 0

-----------------------------------------------------------------------------
(* The next of the movies in S by rank.                                    *)
NextOf(S) == CHOOSE m \in S : \A n \in S : m <= n
FirstOf(S, k) == {m \in S : Cardinality({n \in S : n < m}) < k}

Due(m) ==
  /\ m \in holds
  /\ \/ rating[m] = "NONE"
     \/ rating[m] # "INVALID_ID" /\ wait[m] = 0

(* next_rating_check in periods of six hours.  A temporary failure doubles *)
(* the hours with every attempt there ever was; attempt_count is never     *)
(* reset.                                                                  *)
LongestBackoff == LongWait - 1
FlatBackoff(tries) == 1
UncappedBackoff(tries) == tries * tries
Backoff(tries) == IF tries <= 2 THEN 1 ELSE tries - 1
NextCheck(status, tries) ==
  CASE status \in Answers -> LongWait
    [] status = "TEMPORARY_FAILURE" -> Backoff(tries)
    [] status = "BLOCKED_BY_QUOTA" -> 2
    [] OTHER -> 0

(* refresh: the batch of due movies, in order of interest.                 *)
BeginRefresh(r) ==
  LET batch == FirstOf({m \in Ranked : Due(m)}, RatingBatch) IN
  /\ rater[r].at = "rest" /\ ~ran /\ batch # {}
  /\ ran' = TRUE
  /\ rater' = [rater EXCEPT ![r].at = "ask", ![r].left = batch]
  /\ UNCHANGED <<rating, wait, attempts, holds, sought, outages>>

(* refresh_movie and the repairs: one movie, due or not.                   *)
BeginRefreshMovie(r, m) ==
  /\ rater[r].at = "rest" /\ m \in holds
  /\ outages < MaxOutages /\ outages' = outages + 1
  /\ rater' = [rater EXCEPT ![r].at = "ask", ![r].left = {m}]
  /\ UNCHANGED <<rating, wait, attempts, holds, sought, ran>>

(* fetch for one movie of the batch.  An answer goes on with the next; a   *)
(* limit, a spent quota or a failure ends the batch, and what was answered *)
(* before is committed with it.                                            *)
Heard(news, m, status) == [n \in DOMAIN news \cup {m} |-> IF n = m THEN status ELSE news[n]]
Ask(r) ==
  LET m == NextOf(rater[r].left)
      stops == Failures \ {"INVALID_ID"}
      sound == m \notin Poisoned
  IN
  /\ rater[r].at = "ask"
  /\ \E status \in IF sound THEN Answers \cup Failures ELSE {"TEMPORARY_FAILURE"} :
       /\ outages' = IF sound /\ status \in Failures THEN outages + 1 ELSE outages
       /\ outages' <= MaxOutages
       /\ rater' = [rater EXCEPT ![r] =
            [at |-> IF status \in stops \/ @.left = {m} THEN "commit" ELSE "ask",
             left |-> IF status \in stops THEN {} ELSE @.left \ {m},
             news |-> Heard(@.news, m, status)]]
  /\ UNCHANGED <<rating, wait, attempts, holds, sought, ran>>

(* One commit for the batch.                                               *)
Tries(m) == IF attempts[m] = LongWait THEN LongWait ELSE attempts[m] + 1
CommitRefresh(r) ==
  LET news == rater[r].news
      told == DOMAIN news
  IN
  /\ rater[r].at = "commit"
  /\ rating' = [m \in Ranked |-> IF m \in told THEN news[m] ELSE rating[m]]
  /\ attempts' = [m \in Ranked |-> IF m \in told THEN Tries(m) ELSE attempts[m]]
  /\ wait' = [m \in Ranked |-> IF m \in told THEN NextCheck(news[m], Tries(m)) ELSE wait[m]]
  /\ rater' = [rater EXCEPT ![r] = Free]
  /\ UNCHANGED <<holds, sought, ran, outages>>

(* The session dies, or another one has inserted a row of its batch and    *)
(* the commit fails: everything heard is lost.                             *)
RefreshLost(r) ==
  /\ rater[r].at # "rest"
  /\ outages < MaxOutages /\ outages' = outages + 1
  /\ rater' = [rater EXCEPT ![r] = Free]
  /\ UNCHANGED <<rating, wait, attempts, holds, sought, ran>>

(* The six hours between two refreshes, which no batch outlasts.           *)
PeriodPasses ==
  /\ \A r \in Raters : rater[r].at = "rest"
  /\ ran \/ \A m \in Ranked : ~Due(m)
  /\ wait' = [m \in Ranked |-> IF wait[m] = 0 THEN 0 ELSE wait[m] - 1]
  /\ ran' = FALSE
  /\ UNCHANGED <<rating, attempts, holds, sought, rater, outages>>

(* An id comes with an enrichment or is recovered, and its pending row     *)
(* with it.  The recovery looks at the first candidates only and passes    *)
(* over the ones TMDB has no more to say about.                            *)
Gains(m) ==
  /\ holds' = holds \cup {m}
  /\ rating' = [rating EXCEPT ![m] = IF @ = "NONE" THEN "PENDING" ELSE @]

EnrichmentFindsId(m) ==
  /\ m \notin holds /\ Gains(m)
  /\ UNCHANGED <<wait, attempts, sought, rater, ran, outages>>

RecoverId(m) ==
  /\ m \in FirstOf(Ranked \ holds, RecoveryWindow) /\ sought[m] # "PERMANENT"
  /\ \/ Gains(m) /\ UNCHANGED sought
     \/ /\ \E answer \in {"PENDING", "PERMANENT"} : sought' = [sought EXCEPT ![m] = answer]
        /\ UNCHANGED <<holds, rating>>
  /\ UNCHANGED <<wait, attempts, rater, ran, outages>>

RatingNext ==
  \/ \E r \in Raters : \/ BeginRefresh(r) \/ Ask(r) \/ CommitRefresh(r) \/ RefreshLost(r)
                       \/ \E m \in Ranked : BeginRefreshMovie(r, m)
  \/ PeriodPasses
  \/ \E m \in Ranked : EnrichmentFindsId(m) \/ RecoverId(m)

(* Beat starts a refresh in every period, a worker that lives goes on, and *)
(* time passes.                                                            *)
RatingFairness ==
  /\ \A r \in Raters : WF_ratingVars(Ask(r) \/ CommitRefresh(r))
  /\ WF_ratingVars(\E r \in Raters : BeginRefresh(r))
  /\ WF_ratingVars(PeriodPasses)

RatingSpec == RatingInit /\ [][RatingNext]_ratingVars /\ RatingFairness

-----------------------------------------------------------------------------
(* The refreshes keep up: in the longest rest of a title that always fails *)
(* there are more batches than these titles end, each of them one, and the *)
(* others fill.                                                            *)
KeepsUp == Cardinality(Poisoned) + Cardinality(Ranked \ Poisoned) \div RatingBatch < LongestBackoff

(* As long as they do, a title whose rating is due is answered for, also   *)
(* when the provider fails for ever for titles that come before it and     *)
(* every batch ends with the first failure.                                *)
DueIsAnswered ==
  KeepsUp => \A m \in Ranked \ Poisoned : Due(m) ~> rating[m] \in Answers \cup {"INVALID_ID"}
=============================================================================
