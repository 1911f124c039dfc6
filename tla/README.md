# A verification of the Indian OTT tracker's background work

The repository is a FastAPI application, a Celery worker and a Celery Beat
scheduler that share one PostgreSQL database and one Redis broker.  It imports
Indian films from TMDB, researches when and where each of them can be streamed,
and publishes what the evidence supports.  The processes talk to each other
only through rows and messages; no process holds an in-memory lock.  What can go
wrong is therefore in the order in which transactions commit, messages are
delivered and processes die, which tests of single functions hardly reach.

The modules here are TLA+ for TLC and TLAPS.  All paths are below `src/`.

## 1. Inventory

State of each component, its operations, how it meets the others, what is hard
about it, and what makes it correct.

| component | code | state | operations | hard behaviour | correct when |
|---|---|---|---|---|---|
| Research runs and locks | `app/services/research.py`, `app/workers/tasks.py` 53-91, 219-262, 756-831, `app/workers/celery_app.py` 64-100, `app/models/research.py` | rows of `research_runs`: status, `active_key` (UNIQUE, NULL when free) | create, execute, execute the eligible queue, fail, retry, failure signal | two requests at once, late acknowledgement and second delivery, retries with the lock held, crash between two commits | one worker per key; the lock covers the work; released exactly with the outcome; COMPLETE is final |
| Resumable backfills | `app/services/backfill.py`, `_continue` in `tasks.py` 94-122, `start_backfill` in `app/api/v1/admin.py` 2148 | `backfill_records` (status, attempts), a row of `operation_states` | start or resume, one batch, send itself again | a chain that breaks or doubles, a batch selected up front, an attempt interrupted | each entity tried at most `BACKFILL_MAX_ATTEMPTS` times, never after success; COMPLETE is true; a chain finishes |
| IMDb identifier recovery | `backfill.py` 347-505 | records with PENDING, PERMANENT, due times | as a backfill, but periodic | retry dates, permanent failures | no permanent record is tried again, a due one is |
| Repair orchestrator | `tasks.py` 893-954 | cursor over seven stages | one batch of the current stage, then itself again | two chains over one cursor; the last stage shares the cursor of the periodic health scan | no stage is passed over that is not done; the health pass covers the catalogue |
| OTT research queue | `app/services/operations.py` 391-753, `_ott_research_batch` in `tasks.py` 550-753 | `ott_evidence` rows as queue items and as evidence | queue missing, queue one, research a batch, evaluate, verify, reject | a crash leaves RESEARCHING; two batches at once; quota in the middle | an item is researched by one batch, is never lost, and is due again |
| Usage budgets | `operations.py` 310-388 | month and day counters in `operation_states` | reserve a query, reserve a movie | concurrent reservations, a new month | never beyond the limit |
| Provider controls | `app/services/ott/provider_controls.py`, `ott/intelligence.py` | budget periods, health with circuit breaker, cache | reserve, execute, fail, cache | debit lost in a crash, health read before a call and written after it | never over budget; few calls while open |
| Reconciliation | `app/services/ott/reconciliation.py`, `operations.py` (evidence and verdicts), `ott/pipeline.py` | evidence rows, canonical `ott_availability`, decisions, the issue `ott_conflicting` | record, verify, reject, accept, reconcile, transition | order of verdicts and evidence, publication switched off, stale canonical row | the public date is what the highest authority says, or none; a dispute is on record and hidden |
| Public pages | `app/api/v1/public.py`, summaries of `release_status.py` | none: functions of the committed rows and today | card, home, OTT pages, calendar, detail | five pages ask five different questions of one row | no page dates what another one hides as disputed |
| Release classification | `app/services/release_status.py` | class and eligibility of each movie, a cursor | classify one, classify a batch | dates pass while the cursor is COMPLETE | a class is not older than the promised refresh |
| Movie requests | `app/services/movie_requests.py`, `app/api/v1/operations.py` 44-236, `admin.py` (requests) | `movie_requests` with the outcome of each mail | submit, prepare, reconcile, complete, send, retry, admin update | mail before its record, a failure reported after the delivery, duplicate senders, a verdict during a pass | one mail of a kind for each attempt the record knows; a rejection is not completed |
| Notifications | `app/services/notification_service.py`, `check_sla` | `notification_logs`, the marks on a request | notify, SLA check | cool-down read before, written after; a batch smaller than the backlog | no second notice; every old request is escalated |
| Movie discovery | `app/services/movie_discovery.py` | discovery runs, candidates | scheduled, weekly, manual run; dismiss, match | overlapping scans, a verdict during a scan, one film under two TMDB ids, a match that sees part of the catalogue | a dismissal stands; one film is one movie |
| IMDb ratings | `app/services/rating_provider.py` | status, attempts, next check | refresh one, refresh due | quota, poisoned head of the queue, one commit per batch | every due title is answered for |
| Source synchronisation | `app/services/ott_source_sync.py`, `ott/matching.py` | state row meant as a lease, source releases | sync, dismiss, match | two syncs over one record, dead holder, verdict during a sync | one sync at a time; a source recovers; a dismissal stands |
| Catalogue import | `app/services/tmdb/`, `movie_metadata_service.py`, `tmdb.metadata_enrichment` | movies, ids, credits, cursor, checkpoint file | import a page, a block, the newest; enrich one or a batch | failing pages, ids given out before they are committed, two enrichments of one movie | checkpoints trail the work; a credit is stored once |
| Images | `app/services/image_fallback.py`, `posters/` | cached files, columns, issues, cursors | scan, recover one, backfill | files are visible at once, rows at commit; an uncaught error | a lost picture is reported; scans reach every picture |
| Data health, gold set | `operations.py` 36-307, `app/services/ott/gold_set.py` | issues with a cursor; sample and results | scan, evaluate | two scans over one cursor; a second writer of `ott_conflicting` | a cycle covers every movie; an open issue is of a real gap |
| TMDB client, trailers, deep search, repositories, frontend, sessions | `tmdb/client.py`, `trailers.py`, `deep_search.py`, `repositories/`, `frontend/`, `core/` | none that outlives a request, or one row | read | none | no model |

How they interact: the admin and public API create rows and send messages; Beat
sends messages on a schedule; a worker task works on rows and may send itself
again (`_continue`, the orchestrator) or other tasks (discovery sends
`tmdb.enrich`, a submitted request sends `research.movie_request`).  Research
runs call metadata, ratings, the OTT queue and reconciliation as plain
functions.  Celery's signals write `operation_states` and, for three task
names, the failed run.

`PROJECT.json` lists the hazards with their lines and the properties aimed at
each.

## 2. Modules

| module | what it is |
|---|---|
| `ResearchLock` | abstract: one lock per key, taken once by a run, work under it by one worker, released |
| `ResearchRuns` | the rows, the API handlers, the broker and the workers |
| `MCResearchRuns` | instances for TLC |
| `ResearchRunsProofs` | theorems about `ResearchRuns`, and that it implements `ResearchLock` |
| `Backfill` | one backfill: records, operation row, chain of tasks, administrator |
| `MCBackfill` | instances for TLC |
| `BackfillProofs` | theorems about `Backfill` |
| `OttQueue` | queue rows, eligibility, usage counters, the research batch on several workers |
| `MCOttQueue` | instances for TLC |
| `OttQueueProofs` | theorems about `OttQueue` |
| `Reconciliation` | evidence, canonical rows, decisions, issue of one movie |
| `PublicPages` | what the pages say, over the variables of `Reconciliation` |
| `ProviderControl` | budget, circuit breaker and cache of a metered provider |
| `OfferProofs` | theorems about these three |
| `MovieRequests` | requests, their completion and their mail |
| `Notices` | notices about old requests |
| `Discovery` | discovery runs and candidates |
| `SourceSync` | the sync of one OTT source |
| `Catalogue` | importers and enrichment |
| `ImportProofs` | theorems about `MovieRequests`, `Discovery` and `Catalogue` |
| `Ratings` | ratings, and the recovery of ids |
| `Images` | artwork recovery |
| `UpkeepProofs` | theorems about `Notices` and `Images` |
| `RepairChain` | the repair orchestrator and the cursor of the health scan |
| `MCCatalogue`, `MCProgress` | the above composed in two, and instances for TLC |
| `CatalogueProofs` | theorems about `RepairChain`, and about `MCCatalogue` as a whole |
| `ProgressProofs` | theorems about `SourceSync` and `Ratings`, and about `MCProgress` as a whole |

A module of proofs extends the modules it is about, which share no variable, and
reasons about the specification of each alone; `CatalogueProofs` and `ProgressProofs`
also put the parts together.

`MCCatalogue` and `MCProgress` instantiate several components at once.  These share no
variable, so one of them, the `part`, moves in a behaviour and the others stay at their
initial state: the state spaces add up, and every run of a component is a run of the
instance.  A property of a component that is an invariant or an action property is
checked as it is; a liveness property is conditional on the part.

### ResearchRuns

`status`, `lock` (the column `active_key`) and `target` (the key a run was
created with) are the table.  `cpc`, `ckey`, `crun` are API requests in the
middle of a handler; `queue` is the set of messages the broker has; `pc`,
`msg`, `run`, `key`, `todo` are a worker process in the middle of a task.  One
action is one committed transaction or one message; the code between two
commits has no effect that another process could see.

A handler selects (`CallerSelects`), inserts (`CallerInserts`, where the UNIQUE
constraint decides a race), publishes, and fails the run if it cannot.  A worker
takes a message and goes where the kind of task takes it: `research.movie` and a
child run read the status and execute; the queue task first marks its parent;
a request and a scheduled job create their run themselves; discovery works at
once.  For a movie that no longer exists `execute` finishes the run FAILED and goes no
further.  An exception (`Raise`) leads to `Retry` or, with the retries used up, to
`GiveUp` and `FailureSignal`, the handler of `task_failure`, which releases the
run only for the three tasks whose message names it.  Faults, each with a budget:

| fault | what happens | where it comes from |
|---|---|---|
| `api` | an API process dies between insert and publish | |
| `publish` | `send_task` raises though the broker has the message | ambiguous network failure |
| `child` | the pool child is killed: acknowledged, reported as failed | Celery's default for a lost child |
| `host` | the worker dies, the message is delivered again | `task_acks_late` |
| `visibility` | the message is delivered again though its worker lives | Redis's visibility timeout, left at its default |
| `late` | the task fails after its last commit, reading the row back | `db.refresh`, `serialize` |

Abstracted: what the provider steps write about the movie, the errors and
statistics a row keeps, the 404 and 422 answers, identity preparation of a
request (it may only raise).  Messages are a set, so two equal messages that
wait at the same moment are one.

### Backfill

`record` and `attempts` are `backfill_records`, `state` and `recent` the status
of the operation's row and whether its last success is younger than the 15
minutes `start_backfill` looks at.  `waiting` counts the task's messages.  Per
worker: `pc`, the batch it selected, the entity it works on, the status it read
(`state.status = "RUNNING"` sends no UPDATE when it was read as RUNNING), and the
flags 429 and "nothing left".  Each commit of `run`, `_start`, `_finish`,
`_summary` and `_continue` is an action.  `Trailers` chooses
`TrailerBackfillService`, which does not ask for COMPLETE first and may stop its
chain; the loops of the other three are the same control.  The ORM's
`attempts += 1` is one step here; two chains that insert one record at once make
one of the tasks fail, which `TaskDies` covers.  `Patient` says whether the
administrator waits until no task of the operation is left.

### OttQueue

A queue row is an `ott_evidence` row without a `source_url`.  `owner`, `status`
and `next` (is `next_check` unset, passed or ahead) are the rows; `latest` is the
row of a movie with the newest `updated_at`, which is the one that
`classify_movie`, `queue_movie` and `evaluate_movie` look at.  `elig` is the
stored eligibility, `phase` and `confirmed` what `research_eligibility` would
find out about dates and confirmed availability, `used` and `slots` the two
counters of `ResearchUsageService`.

Per worker: `day`, `due`, `batch`, `cur`, `asked`, `allowed`, `found` are locals of
`_ott_research_batch` and of the Tavily client.  `now` is taken once, when the
batch begins, so `day` stays and a batch that runs over midnight goes on charging
the old day and month; `due` holds the rows whose `next_check` is not after that
`now`, so a row another process wrote since looks as if it cooled down.
`asked` is `last_query_count`, which only `search` sets back to 0: when nothing
is left in the month `search` is not called and the count of the movie before is
read instead.  `calls` and `hears` are history and no guard reads them.

`Start` selects, `SkipIneligible`/`StopAtMonthlyBudget`/`Choose` classify the movie
again and go on, leave or take it, `ReserveDailyMovie`/`StopAtDailyLimit` take the
slot, `Mark` commits RESEARCHING, `ReserveTavilyQuery`/`RefuseTavilyQuery` pay,
`Answer`/`Fail` are the request, and `StoreFailure`, `GiveBack`, `FindNothing`,
`RecordEvidence` and `Conclude` end the movie.  `Drop` is a task that dies
anywhere.  Outside the batch `Scan` stands for every other `classify_movie`,
`AddRow`/`CommitRow`/`RollBackRow` for a session of `queue_movie` (it selects and
inserts in different moments, no constraint stops a second row), `Requeue` for
the withdrawn row it queues again, `AdminQueue` for `research_movie_ott`,
`Reconcile` for evidence and verdicts from elsewhere, `ChangePhase`, `FallDue` and
`NextDay` for time and edits.

Abstracted: providers other than Tavily, the priority order and the attempts of
rows, notes and evidence, how `evaluate_movie` comes to its verdict.  A
classification and the commit that ends it are one step, and so is `Requeue`.
`NOT_FOUND` and the last status of a movie are written at once, though the code
commits them with the next commit of the batch; a `Drop` before it loses nothing
that a property sees.

Two things the code does not prevent, and no property claims: a movie may have
two open rows, researched by two batches, and a task that dies leaves the row of
an *eligible* movie in RESEARCHING, which no selection takes up.  Only a movie that
becomes ineligible frees it (`IneligibleLeavesQueue`).

### Reconciliation and PublicPages

One movie in one country.  `evidence` are its rows with a source, each with the
content the decision reads (`Kind`: offer, fact, date, weight, source, by hand),
its status, and whether it was rejected.  `weight` sums up authority and
confidence as reconcile tells them apart: official from 95, credible from 70 with
a date confidence of 65, weak else.  `canon`, `decided`, `premiere`, `issue` and
`flagged` are the canonical rows, the current decisions, the premiere marks, the
open issue `ott_conflicting`, and whether the movie's latest queue row is
CONFLICTING.  The issue has two writers: `reconcile`, from the evidence, and the
data-health scan, from the queue row (`ScanHealth`); the row is CONFLICTING when
`evaluate_movie` finds the same evidence in conflict, and no longer when a research
batch takes it (`QueueTakes`).  `scanned` notes that a scan came last.

`Reconcile(rows)` is the whole of `reconcile`, one transaction: groups by offer
(`Group`), what they are credible about (`Credible`, `On`), who is right
(`ChosenDates`), who disagrees (`Disputed`, `Superseded`), and what is written
(`Canonised`, `StatusIn`, `StateAfter`, `Premieres`).  The operations call it with
the rows as they are about to be.  `CollectEvidence` is the path with automatic
publication off, which leaves evidence unreconciled: `settled` tells the two
apart.  Each page is an operator over the rows; `sure` is any set of offers
whose confidence has reached the threshold of the cards and the calendar.

Abstracted: confidence as a number, the scraping of pages, what the summary of a
decision says, evidence without a source (that is `OttQueue`).

### ProviderControl

`refresh_movie` around `execute`: `ServeCached`, `Look` (the circuit; the
session's copy of the health row is `seen`), `FindNoPeriod` and `Reserve` (both
period rows locked until the commit after the call, `rowLock`), `Succeed` or
`Fail` with their commit, `Store`.  A commit writes the columns whose value
differs from the copy (`Written`), which is how a success of a caller that looked
earlier closes a circuit another opened.  `Die` loses the transaction, with it
the debit of a call that was made; `PauseEnds`, `Expire`, `Midnight` are time.
`Midnight` falls between calls.

### MovieRequests and Notices

A process has jobs before it: the rows a pass has read, which it completes and
writes about one after the other.  A mail's status is read (`Address`), it is
delivered, and only then is the outcome committed (`Report`), each a step.  Any
exception makes the outcome FAILED, also one that comes after the server took the
message, a reply that times out or the goodbye (`movie_requests.py:167-174`):
`DeliverUnseen`, which counts the copy in `unseen` too.  It shares the bound
`MaxFaults` with deaths.  A retry of that attempt sends a further copy, so what
`MailOnce` claims is one copy and one more for each such attempt, and a record that
says SENT exactly when an attempt was seen to go out.  `suspect` notes the mails whose
sender died at it or had company, `refused` the requests rejected while no process
had them in hand.

In `Notices` an SLA pass asks the log, delivers, logs and marks, step by step; `Batch`
is the window of the oldest.  A channel may take a notice and raise all the same: it is
`sent`, and not logged if no other channel accepted it.  The mark is written either
way, so the notice is not sent again (`NoticeOnce`), unless its worker dies before the
mark; `OnRecord` says when a death leaves no doubt.

### Discovery

A run lists a language (`ListLanguage`), takes a title (`TakeTitle`), asks TMDB
(`DecideTitle`), imports it (`ImportTitle`) and marks it, in the transactions of the
code; `read` is the status its session holds and `MarkStale` writes through it.
`ImportTitle` is the commit `enrich_movie` makes by itself, before the movie is
classified and queued, so `FailTitle` from the step after it leaves a movie that is
imported and a candidate that is FAILED.

`FilmOf` gives movies that one normalised title, year and language make the same; it is
an equivalence, so that a movie with two names bridges two films is left out.
`_title_identity_match` does not see the catalogue: it reads the first 500 movies of the
language and year that the database names, in no order (`movie_discovery.py:339`).
`Looks` are the possible ones, any `MatchWindow` movies of the shelf (`ShelfOf`), all of
it if it is no larger.  `Others` are movies that only the other importers bring
(`ImportElsewhere`); these look for the TMDB id alone and fill the shelf.
`FilmImportedOnce` therefore claims a film only while the rest of its shelf fits into
one look, no two runs were at it together and no other importer brought it; beyond
500 movies of a language and year the code does import a film twice without any race. A
film that *was* contested and has two movies is matched by neither:
`_title_identity_match` wants exactly one, so a third id of it is imported as well
(`movie_discovery.py:349`).  The run has no mirrored rows (`Releases` is empty).  The
mirror of unmatched source records overwrites an administrator's verdict about them
(`movie_discovery.py:428`), which is why `DismissalStands` speaks of titles.

### SourceSync

`state` is the row `source.<name>` with its status and whether it is younger than
half an hour.  `updated_at` is written by the insert only
(`models/mixins.py:20` has a `server_onupdate`, which tells the ORM that the
database would do it), so that age is the row's own, and later syncs find it old.
A sync works through the feed with a copy per record; what it wrote is its own
until a commit (`wrote`), and a record another transaction wrote is locked.
`FindMovie` is the matching with its scores, on what the feed and the catalogue
say.

### Catalogue

`rows` are the ids in the order they were given out, which is at the flush that inserts
a movie (`StoreMovie`); `visible` are those whose page was committed since
(`CommitPage`), and `held` what an importer has flushed and not committed.  Several
importers work at once, so ids become visible out of order, and some never do: a page
that fails is rolled back (`BlockPageFails`) and its ids are lost.  An insert of a film
that another session holds waits for it.  `Pages` and `Newest` are what TMDB lists.

`LookUp` and `SaveEnriched` are the two ends of an enrichment, with other sessions
between them; `cursor` moves with the commit of each movie and the next batch takes what
is visible behind it.  An id that is committed when the cursor, or a run that will move
it, is past it waits for the next cycle: `late` notes these, and is emptied when a cycle
begins and no run is under way.  `CheckpointsTrailWork` excepts them: within a cycle the
cursor does pass uncommitted ids (`incremental_sync.py:81-87`, `tasks.py:280-300`).  A
credit stands for the credits of a payload, whose unique constraint has NULL columns.

### Ratings

Titles are numbered in the order a batch takes them.  A batch asks title by
title and commits once; an answer goes on, a failure ends it.  Time is counted in
the six hours between two refreshes.  `Poisoned` titles fail for ever.  The rest after a
failure grows with every attempt and is capped at 168 hours, 28 periods
(`rating_provider.py:162`), here `LongestBackoff`, one less than `LongWait`, the rest
after an answer (a week at least in the code).  A batch ends with its first failure
(365-371).  So the others get a turn only while there are fewer failing titles than
batches in the longest rest, and `EveryDueAnswered` claims no more: `KeepsUp`.  With 28
titles or more that always fail, and come first, the rest starve.
`RecoverId` is the window of the identifier recovery.

### Images

`file` is what lies at a picture's destination, seen at once by everybody; `path`,
`reported` and `place` change with a commit.  A scan selects owners, looks at a
picture (`FindHealthy`, `FindProblem`), fetches (`Download`, or the chain of poster
providers), verifies and stores.  `fatal` is a file on which verification raises
something `_verify` does not catch: the task fails there, now and every time.
An empty answer of a download leaves the file alone; a failed one unlinks it.
`handled` are the pictures a scan has dealt with since something came between.  A
logo is never found healthy, because its column holds TMDB's path whatever lies in
the file, so every scan fetches it anew over a good file, with no open issue yet:
what was handled is open again from the fetch until the scan commits
(`Fetch`).

### RepairChain

A task reads the stage (`BeginRun`), runs one batch of it (`BatchEnds`,
`EndHealthScan`), moves the cursor with the commit at its end (`CloseRun`) and sends
itself again (`SendAgain`).  A batch commits, so `state.cursor += 1` reads the row anew
(`Reload`); `actor[r].to` is what the session will write.  After the research the row of
`data_health` is read to be reset (`ReadHealth`), and the reset is part of the commit
(`CloseRun`), unless the cursor was read as 0: the ORM then omits the UPDATE, and what a
scan has put there since stays.  The health pass begins with the reset, or with the read
that found 0.  What a batch does is in `Backfill` and `OttQueue`; here it answers done
or not done.  Overlapping chains may push the cursor past the last stage, by one for
each that reloads there, and nothing bounds it but the number of stages ended, so its
type is a natural number.  `healthAt` is the cursor of `data_health`, read when a scan
begins and written when it ends, by the orchestrator's health pass and by the scan every
15 minutes.  Two chains come from an administrator whose second start meets a batch of
more than 15 minutes, or from a dying host.

## 3. What is checked

Twelve runs.  All states are explored; `Symmetry` permutes runs, workers and
callers, or entities and workers, and only in runs without liveness.  Deadlock is not
checked: a system with nothing to do and no start left in its bound stops.

| run | instance | shows |
|---|---|---|
| `research_safety` (193,658 states) | all kinds of task, 4 runs, 2 callers, 2 workers, 2 starts, 1 retry, one `api` and one `child` fault | `MutualExclusion`, `WorkUnderLock`, `UnlockedIffOver`, `CompleteStaysComplete`, and that the rows implement `ResearchLock` |
| `research_liveness` (273,099) | movie and discovery, 1 start, 2 retries, one of every fault but `api` | `LocksReturned` |
| `research_host_loss` | movie, one `host` fault | violates `NoConcurrentRuns` |
| `research_left_behind` | queue, no fault | violates `NoLockLeftBehind` |
| `backfill_chain` (32,460) | trailers, 3 entities, batches of 2, 2 attempts, 3 starts, a dying task, a failing and a doubtful publish | `AttemptsBounded`, `OneChain`, `CompleteMeansNothingLeft`, `SuccessKept` |
| `backfill_resume` (243,814) | 2 entities, batches of 1, 2 attempts, 2 impatient starts, one dying host | `ChainsFinish` |
| `backfill_overlap` | 2 impatient starts, no fault | violates `SuccessKept` |
| `ott_queue` (571,808) | 2 batches, 1 movie, 1 row, 2 days of one month, one slot a day, two queries a month, two a movie | `BudgetKept`, `FailureIsNotNotFound`, `IneligibleLeavesQueue`, `DueIsSelectable` |
| `ott_queue_quota` | 2 batches, 2 movies with a row each, two queries a month, one a movie; only batches move | violates `QuotaIsNotNotFound` |
| `catalogue` (1,933,601) | eight parts: 2 processes over 1 request with a mail taken for failed or a death, 2 scans over 2 titles of one film and a third movie that another importer brings, with looks of one movie, 2 enrichers and 2 importers over 2 movies of one IMDb id, 3 evidence rows of eight kinds over 2 offers and 2 days, 3 callers with 2 calls a day and 3 a month, 2 sessions over one poster, 2 workers over one notice, two chains of repairs and a periodic scan over 2 stages of backfill and 2 movies | `MailOnce`, `RejectionRespected`, `DismissalStands`, `FilmImportedOnce`, `CheckpointsTrailWork`, `CreditOnce`, `DatesEarned`, `LockHolds`, `DisputeHidden`, `ProviderBudgetKept`, `FewStrays`, `LossReported`, `NoticeOnce`, `StagesInSequence`, `HealthPassWhole` |
| `progress` (446,656) | four parts: 2 workers over one item of a feed, one worker over 2 open requests with a batch of 1, 2 sessions over 3 ratings two of which always fail, one over a poster and a profile | `DismissalKept`, `SourceRecovers`, `Escalated`, `EveryDueAnswered`, `EveryPictureScanned` |
| `source_overlap` | as `progress` | violates `OneSync` |

Why the bounds are enough to be interesting.  Two starts on two workers give
every pair of kinds of task that can meet on one key, a queue task needs a run
for itself and one for its child, so four runs let two such tasks go on; one
retry makes a task meet the run its first try left.  With two entities and two
attempts each a backfill has interrupted, failed and finished records at once,
and batches smaller than what is left make the chain continue.  With two batches
and one slot a day the second reservation is the one that must fail, and with two
days of one month the second research meets a month with less than it wants; one
row is enough for a batch to write over what the scan withdrew.  `ott_queue_quota`
starts from `Queued`, which `AddRow` and `CommitRow` reach, to keep its
counterexample to the batches.

Bounds, all named: `MaxStarts` (tasks started), `FaultBudget` (strikes of each
fault), `MaxRetries` (the code's 2 and 3 are instantiated as 1 and 2), the sets of
`Runs`, `Callers`, `Workers`, `Entities`, `Movies`, and `MaxAttempts` (the code's
default is 3).  In `OttQueue`: `MaxRows`, `MaxSessions` (sessions in the middle of
adding a row), `MaxDay`, `DaysPerMonth`, `DailyLimit`, `MonthlyBudget`, `MaxQueries` (2 in
the client), `MaxResults` (3 in the code, instantiated as 1), and the dates and
verdicts of a run, `Phases` and `Verdicts`.  In the later modules: `MaxEvidence`,
`MaxDate`, `MaxDays`, `MaxCalls`, `MaxRequests`, `MaxOpen`, `MaxImports`, `Items`
(sizes); `MaxFaults`, `MaxSyncDeaths`, `MaxLostWorkers`, `MaxMishaps`, `MaxOutages`
and `MaxRepairFaults` (faults); `MaxActs`, `MaxStarts` and `MaxRepairStarts` (an
administrator's acts); `Catalogued` movies and `Backfills` stages (5 in the code,
instantiated as 2); the batches `EnrichBatch`, `SlaBatch`, `RatingBatch`,
`ImageBatch`, `ScanBatch` and `RecoveryWindow`, and the look of `MatchWindow` movies (500
in the code, 1 in the run), smaller than in the code so that what they leave behind
exists; `LongWait`, the rest after an answer in periods, one more than the longest rest
after failures, which is 3 periods in the run and 28 in the code.

Three rows of evidence give every dispute there is: two that disagree and a third
that decides, agrees with one, or comes from an administrator; eight kinds cover
each weight on each side.  Two titles are one film and two movies one IMDb id,
since a conflict needs two; a third movie overfills the shelf.  Two importers flush ids
in one order and commit them in the other.  With a batch of one and two requests or two
owners something is always behind the first.  Two failing ratings come before a sound
one, which is as many as a longest rest of three periods allows.  Three callers let two look
before the one that opens the circuit.  Two stages of backfill let a chain be
overtaken by another before and after a change of stage; two movies scanned one at a
time let the periodic scan come between.  The month's limit is one above the day's,
so each of them is the one that refuses.

Fairness.  `Spec` of `ResearchRuns` gives weak fairness to each API request that has
begun and to each worker, `Spec` of `Backfill` to each worker: a process that runs goes
on, and Celery takes a message when it is idle.  `LiveSpec` of `OttQueue` asks it of
`Scan` alone: Beat sends `data_health` every 15 minutes, and its cursor goes round the
catalogue.  `PartFairness` of `MCProgress` is the fairness of its four modules: Beat
starts a source sync, an SLA pass and a refresh of ratings again and again, time passes,
and a worker that lives takes its next step.  The scan for artwork is given strong
fairness, because scheduled scans wait on the queue and are taken in the end though a
worker is busy in between.  The batches may stop or die wherever they are.  Nothing is
assumed of exceptions, faults, the clock, Beat, or the administrator.

### Disagreements between the documents and the code

* `research_host_loss`.  `docs/ADMIN.md:11`: the locks "prevent concurrent
  duplicate runs".  `execute` turns away only COMPLETE runs
  (`research.py:235`).  A host that dies after committing FAILED has its message
  delivered again, and the run executes without its lock, next to a new one.
* `research_left_behind`.  The same line: the locks "are released after completion
  or queue failure".  When the queue task raises inside a child run
  (`research.py:378-382`), its retry skips the child as already running and the
  failure signal knows only the parent: the child's lock stays.
* `backfill_overlap`.  `docs/JOBS.md:23`: "Successful records are never
  repeated".  `start_backfill` accepts a second start until the first success is
  recorded, and `_start` (`backfill.py:97`) does not look at a record it selected
  earlier: a DONE record is set back to RUNNING.
* `ott_queue_quota`.  `docs/OTT_RESEARCH.md:23`: an exhausted quota is "never
  translated into `NOT_FOUND`".  `_ott_research_batch` reads what is left of the month
  again at `Mark`; when another batch has used the rest since the check, `search` is
  not called and `last_query_count` is that of the movie before (`tasks.py:657`), so
  the row becomes NOT_FOUND though nobody asked about it.
* `source_overlap`.  `app/services/ott_source_sync.py:54`: a source is synchronised
  "without parallel duplicates".  A start is refused while the row is active and its
  `updated_at` less than half an hour old (line 132), but no UPDATE writes that
  column: half an hour after the row's first insert each RUNNING row looks
  abandoned, and a second sync starts beside the first.

Met while modelling, and without a run of its own:

* `updated_at` has the same effect wherever it orders rows: `_canonical_ott_rows`,
  the OTT landing page, the order of `retry_failed_email`, "last check" of the
  dashboard.
* `docs/OTT_RESEARCH.md:27` asks for more than a title to match a record;
  `_find_movie` (`ott_source_sync.py:189`) falls back to a title alone when one row
  has it.
* `docs/IMAGE_FALLBACK.md:7` has scheduled scans cover everything; a file whose
  verification raises something else than `UnidentifiedImageError` or `OSError`
  (`image_fallback.py:45`) ends each of them at its owner.  `EveryPictureScanned`
  excepts it.  A failed download unlinks the file that was there, and a person's
  cached path is asked of TMDB.
* Home and the OTT pages list confirmed offers below the threshold that the cards
  and the calendar apply, so a movie can be listed for a date its card lacks.
* `docs/OTT_RESEARCH.md:29`: a conflict of credible sources "creates a data-quality
  issue".  The next health scan opens or resolves `ott_conflicting` from the latest
  queue row alone (`operations.py:267`), so the issue goes though the dispute stands,
  or comes without one.  `DisputeHidden` claims it until that scan only.
* A row whose dispute was rejected away keeps the state CONFLICTING
  (`reconciliation.py:287`) although nothing is disputed any more.
* `docs/JOBS.md:23`: the stages run "in sequence".  Two chains that end a batch of one
  stage one after the other pass over the next, since `state.cursor += 1` adds to what
  the row says then (`tasks.py:927`); `StagesInSequence` excepts it.  Each stage also has
  its own task, which picks up what was passed over.
* The same line: the chain ends with a "whole-database health pass".  A periodic scan in
  flight when the pass resets the cursor (`tasks.py:934`) sets it past the movies it had
  begun after; `HealthPassWhole` excepts it.
* `docs/JOBS.md` says ratings are due daily, after 3 or 30 days; the code waits 30 or
  90.  And 28 titles that always fail use up every batch (see `Ratings`).
* `movie_requests.py:183`: "Idempotent requester updates beyond the fixed
  received/added/rejected fields".  A mail whose delivery ended in an exception is FAILED and
  is sent again, also when the server had it.
* The match of a new title against the catalogue reads 500 movies of its language and
  year in no order (`movie_discovery.py:339`), so that in a larger year a film can be
  imported again under another TMDB id.
* The enrichment cursor passes ids that another importer has flushed and not yet
  committed; their movies wait for the next cycle (`incremental_sync.py:82`,
  `tasks.py:280`).
* A scheduled run that fails after its last commit, reading the row back, is rewritten
  from COMPLETE to FAILED by `tasks.py:81-90`.  `CompleteStaysComplete` excepts it: it is
  checked, and proved, with a budget of 0 for `late`.
* An importer overwrites a release date with none when TMDB has none;
  `incremental_sync.py:89` stops at the first page without a new movie.

## 4. What is proved

TLAPS proves the following for every value of the constants.

`ResearchRunsProofs`.  `TypeCorrect` needs nothing but the assumption on the constants.
The others have two assumptions.  `NoRedelivery`: the budgets of `publish`, `host` and
`visibility` are 0, so no message is delivered twice.  `NoLateFailure`: the budget of
`late` is 0, so no task fails between its last commit and its end.  `api` and `child`
faults, exceptions and retries stay unbounded.  Without the first the properties are
false, as `research_host_loss` shows; without the second an exception after the commit
of COMPLETE is handled at `tasks.py:81-90` and makes the run FAILED, with no second
delivery at all, so completion is final only under both.  The invariant `IInv` says,
beyond the types:

* `CarriedOnce`, `CarriedExists`: a run is carried by at most one caller, message
  or worker, and what is carried exists.  This is why only one process at a time
  can end a run, and what a second delivery would break.
* `Placed`: a worker is only where its kind of task takes it.
* `UniqueLock`, `LockIsTarget`, `AbsentUnlocked`, `UnlockedIffOver`: the table.
* `LockCarried`: a run that is carried and not over has its lock.

`MutualExclusion` follows: two workers in the provider steps of one key carry runs
with that lock, the lock is unique, so the runs are one, and it is carried
once.  No two conjuncts alone are inductive: `LockCarried` needs `CarriedOnce`,
to know that another process's `Finish` is of another run.  There is one lemma per
conjunct with one step per action.  Theorems: `LocksExclude`, `LocksCoverWork`,
`LocksFollowStatus`, `CompletionFinal`.

It also proves `RunsImplementLock`: under the same assumptions each
step of `ResearchRuns` is a step of `ResearchLock`, or leaves `holder`, `spent` and
`busy` alone.  An insert is `Acquire`, the step into the provider steps is
`StartWork`, every `Finish` is `Release`, an exception in the steps is `StopWork`.

`BackfillProofs`.  `TypeCorrect` again needs no assumption.  The others assume
`NotDoubled`: the administrator is patient and no host dies; tasks may die and
publishing fail, certainly or doubtfully, without bound.  `OneChain` is
inductive by itself; on it rests `Holds`, what a task knows: its batch can still be
tried, the record it has open is RUNNING, and "nothing left" stays true because
`Left` never grows.  Theorems: `AttemptsStop`, `ChainStaysSingle`,
`CompleteIsTrue`, `SuccessIsKept`.

`OttQueueProofs`.  All three theorems hold without further assumption, for any
number of batches, rows, movies, days and limits.  `BudgetIsKept` rests on `MonthsPaid`:
in each month the requests sent, and the workers that have paid and not sent yet,
are together at most `used`, and `used` is at most the budget.  The second half of
that sum is needed because a worker between `ReserveTavilyQuery` and its request
may be any of them; a dead one only lowers it.  `FailuresStayFailures` rests on
`FailureStands` (a worker that heard a failure is where it can only store FAILED
or die) and on which steps write NOT_FOUND at all.

`OfferProofs`.  No assumption beyond those on the constants.
About `Reconciliation` and `PublicPages`:
`DatesAreEarned` says that a date is chosen only on evidence that earned it
(`ChosenIsEarned`, against a definition that does not mention how the code decides),
and that a row gets its date from nowhere else (`RowOfGroup`: a row is as it was, in
doubt, or has the date of its group).  `LocksHold` needs that a lock is a
confirmation.  `DisputesHidden` rests on `DisputesMarked`: since the last
reconciliation a dispute is the decision on record, the issue is open exactly if
there is one until a health scan writes it, and a disputed row is in doubt or locked;
pages date confirmed rows only.  `FactsDecide` is behind all
three: statuses, which reconcile itself rewrites, do not influence it.

`ReconTypesHold` types every column as well.

About `ProviderControl`, for any number of callers: by `ControlInv` the period rows are
locked exactly by the caller in its call, so there is one at most; the calls are those
debited, the one pending and those lost with a process (`Counters`, `CallsCounted`); so
`reserve` compares with all that count. `StraysAreFew` counts the callers that had
looked before the circuit opened: each can stray once, and the one that opened it is not
among them.

`ImportProofs`. About `MovieRequests`: `MailsGoOutOnce` rests on `MailAccounted`: a mail
that is not suspect has one sender at most; while it has one it is not SENT, and an
attempt was seen to go out exactly if that sender delivered it; without one exactly if
it is SENT; and beyond that attempt the copies are those taken for failed (`unseen`).
`RejectionsRespected` rests on `StaysRejected`: no process has the completion of a
refused request anywhere on its list. That is why the lists are sequences of jobs with
proved facts about their tails (`FirstJob`, `RestHarmless`), and why a pass is shown to
take active requests only (`GivenCompletions`). `RequestsTyped`.

About `Discovery`: `DismissalsStand` rests on `Stands`: a dismissed title is in no
run's hands unless it was when it was dismissed.  `FilmsImportedOnce` rests on
`OneTitlePerFilm`: of a film nobody contested one title at most is a movie while its
shelf fits into one look, and when a run is about to import it no movie of it exists and
other runs are about to import the same title.  A look takes the whole of a shelf that
fits (`InSight`), and shelves only grow, so one that fits has always fitted
(`ShelvesGrow`).  That the code asks for *exactly* one local match is enough because of
that: `NoneOrOne`.  The theorem keeps the three conditions of the property: no contest
between runs, no other importer of the film, and a shelf that fits.

About `Catalogue`: `CheckpointsTrail` rests on what a session has at hand: every visible
movie before the one an enrichment task is at was enriched or is `late`, and that one
too once the cursor is about to move (`EnrichWork`); an importer in a block has stored
every film of the pages before the one it is at, and stored or holds what it has dealt
with on that page, or the block is torn (`ImportWork`). A page that is committed adds to
`late` whatever a cursor, or a run with its batch in hand, would pass. Rows are never
deleted, so what was stored stays stored. `CreditsOnce` rests on `OneStores`: of a film
that was not shared one enricher at most is about to save, and if it found the credit
absent none is stored. `CatalogueTypesHold` bounds the copies of a credit by the number
of enrichers, since each that found it absent stores one.

`UpkeepProofs`. About `Notices`: `NoticesGoOutOnce`: of a notice that is not doubtful at
most one worker is the sender (`Attends`), it is not sent before it delivers, and what
was sent is logged, marked, or about to be (`Settled`, `Accounted`). `NoticeTypesHold`
also bounds how often a doubtful one goes out, by one for each worker and each death:
until the log has it, each delivery is about to be logged or its worker died; afterwards
only those deliver who had looked before (`Tallied`).

About `Images`: `LossIsReported` rests on `PictureSafe`: a picture that nobody crowded
has one session at it at most (`Recovers`), which fetches only what was not good, and
until the file is good has its issue open or to be opened with its commit (`OnTrack`);
once handled it is healthy or reported (`PictureKnown`). TLC checks the property with an
album of one poster; the theorem is about every album, and it was the proof, failing for
a logo, that showed the fetch over a good file described above. `ImageTypesHold`.

`CatalogueProofs`. About `RepairChain`, without a further assumption and for any number
of chains, scans, movies and stages. `RepairStagesInSequence` rests on `RunInOrder`: the
stage a run read and the cursor it is about to write are `Ready`, every stage before
them having answered, unless the chain was overtaken; and only the research starts the
health pass. `RepairEndsWithWholePass` rests on `ScanInOrder`: unless a scan straddled
the beginning of the pass, the movies up to the cursor of `data_health` have been looked
at, so have those before the one a scan in flight began after, and the scan that ends
the cycle found the last movie looked at (`ScanPasses`). A reset that the ORM omits is
no exception: the cursor was 0 when it was read, and there the pass began.
`RepairTypesHold` counts messages: those in the broker and those about to be sent are
bounded by the starts and the deaths.

About the whole of `MCCatalogue`: `PartsTypesHold`, the types and bounds of all eight
parts.  A step of the whole is a step of each part or leaves it alone (`PartSteps`), so
the specification of the whole implies that of each part, whose theorem then holds.

`ProgressProofs`. About `SourceSync`: `DismissalsKept` rests on `StaysDismissed`: the
dismissal is in the record, in what a sync has written of it and not yet committed, and
in the copy of a sync about to write it. Matching, whatever its scores, is not looked
into: a record that is dismissed keeps its decision by `Decision` alone.
`SyncTypesHold`.

About `Ratings`: `RatingTypesHold`.  `RatingInv` adds to the types that a session that
asks has a movie left, since else it would ask about a movie that is none
(`NextOfLeft`: among numbered movies one comes first, by the well-founded order of the
naturals).  `WaitBounded`: the wait after failures, which grows with every one, does not
outgrow the rest after an answer.  About the whole of `MCProgress`: `ProgressTypesHold`,
as for the catalogue.

Proofs changed the model in five places.  `Images` opens a picture that is fetched over
a good file.  The type of the repair's cursor and that of a credit's copies held only
of the instance, and are now what holds in general.  `Catalogue` and `Notices` name
what they took for granted of their constants: finitely many films, enrichers and
workers, pages that are sequences of sets of films.  `MovieRequests` gives the
order in which a pass completes and `retry_failed_email` sends, which the code
determines.  And `Ratings` asks for a longest rest of two periods at least, since a
spent quota rests for two: with one, the type invariant was false.

Only model-checked, and why:

* The liveness properties `LocksReturned`, `ChainsFinish`, `IneligibleLeavesQueue`,
  `DueIsSelectable`, `SourceRecovers`, `Escalated`, `EveryDueAnswered` and
  `EveryPictureScanned`: they rest on fairness, and with it on ENABLED, which the
  prover does not handle.
* The five properties of section 3 that the code violates are only refuted by TLC.

Every other invariant and action property of the runs is a theorem.

## 5. Plan

What is left, most important first.

1. That the rests of `Ratings` only grow while it fails; the safety part of the
   liveness properties (what a due row, a held lock or a waiting message needs to stay
   selectable), as invariants of their own.
2. The records of the identifier recovery with their due dates, and the IMDb and queue
   backfills.
3. Issues of data health other than `ott_conflicting`, against rows that change
   between a batch's select and its commit.
4. `ReleaseStatus`: classification over a bounded calendar, with the cursor that is
   COMPLETE while dates pass.
5. Larger instances of `MCCatalogue` part by part (three titles of one film take four
   million states).
6. Movies that two names bridge: a match by any of several names, which is no
   equivalence and imports by the order in which titles come.

## 6. Not modelled

Read-only endpoints, serialisation, HTML and JSON parsing of providers, the
frontend, sessions and rate limits have no protocol between processes.  Deep search
answers a request from providers and keeps nothing.  The gold set is statistics over
other components' rows.  Trailers, the choice of a primary image, scoring weights
and the fields of a movie are data that no property here tells apart.
Timing is abstract: retry backoff, countdowns, check intervals and the 15 minutes
are nondeterministic.  The research batch is modelled as it runs with Tavily, the
provider with a monthly budget; with another one the month is not looked at.
The scans of two components that touch the same movie (an import and a discovery, a
backfill and an enrichment) are modelled in one of them only: the movies
that other importers bring to `Discovery` (`Others`) are committed at once and are not
titles of its scans, and no scan runs in `Catalogue`.

To repeat the checks, from this directory: `tlc -config ResearchRunsSafety.cfg
MCResearchRuns.tla` (and so for each configuration), `tlapm ResearchRunsProofs.tla`.
