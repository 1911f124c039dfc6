------------------------------ MODULE SourceSync ------------------------------
(***************************************************************************)
(* The synchronisation of one OTT source (app/services/ott_source_sync.py):*)
(* its operation_states row, which is to be the lease of the running sync,  *)
(* the rows of ott_source_releases and the identity matching of            *)
(* app/services/ott/matching.py, with the administrator's start button and *)
(* decisions on single records (run_source, update_source_release).        *)
(* Sessions do not flush before a query: a sync reads a record, and writes *)
(* the columns it changed when the item is flushed; both reach the others  *)
(* with the next commit, that of record_evidence or of the finished sync.  *)
(***************************************************************************)
EXTENDS Integers

CONSTANTS
  Syncs,      \* worker processes
  Items,      \* length of the feed; its order is the same in every answer
  Films,      \* movies the catalogue may come to hold
  Candidate,  \* [Keys -> what the feed says]
  Film,       \* [Films -> what the catalogue says]
  MaxSyncDeaths, MaxStarts,  \* bounds: processes lost, administrator's starts
  None

Keys == 1 .. Items   \* the external keys

(* Identifiers, titles, languages and years are compared only; 0 or "" is  *)
(* absent.  extra is the score of runtime, director and cast.              *)
Identity == [tmdb : Nat, imdb : Nat, title : STRING, year : Nat, language : STRING,
             extra : {0, 3, 5, 7, 8, 10, 12, 15}, released : Nat, citable : BOOLEAN]

ASSUME SyncAssumption ==
  /\ None \notin Films /\ Items \in Nat
  /\ DOMAIN Candidate = Keys /\ DOMAIN Film = Films
  /\ \A k \in Keys : Candidate[k] \in Identity
  /\ \A f \in Films : Film[f] \in Identity
  /\ MaxSyncDeaths \in Nat /\ MaxStarts \in Nat

VARIABLES
  library,   \* films in the catalogue
  record,    \* committed rows of ott_source_releases
  cited,     \* committed evidence of this source: pairs of film and key
  state,     \* the row source.<name>: status, and whether it is young
  sync,      \* per process: pc, item, the copy it read, what it wrote
  ordered,   \* tasks of the administrator not yet taken by a worker
  dismissed, \* history: records dismissed while no sync was at work
  syncDeaths, starts

syncVars == <<library, record, cited, state, sync, ordered, dismissed, syncDeaths, starts>>

Dismissed == {"IGNORED", "TV_SERIES", "DUPLICATE"}
RecordStatuses == {"NONE", "UNMATCHED", "MATCHED"} \cup Dismissed
Record == [status : RecordStatuses, film : Films \cup {None}, byHand : BOOLEAN]
NoRecord == [status |-> "NONE", film |-> None, byHand |-> FALSE]
Fresh == [NoRecord EXCEPT !.status = "UNMATCHED"]    \* column defaults
Waiting == [pc |-> "idle", key |-> 1, copy |-> NoRecord,
            wrote |-> [k \in {} |-> NoRecord]]

SyncTypeOK ==
  /\ library \subseteq Films
  /\ record \in [Keys -> Record]
  /\ cited \subseteq Films \X Keys
  /\ state \in [status : {"IDLE", "QUEUED", "RUNNING", "COMPLETE", "FAILED"}, young : BOOLEAN]
  /\ \A s \in Syncs :
       /\ sync[s].pc \in {"idle", "fetch", "read", "write", "broken"}
       /\ sync[s].key \in 1 .. Items + 1
       /\ sync[s].copy \in Record
       /\ DOMAIN sync[s].wrote \subseteq Keys
       /\ \A k \in DOMAIN sync[s].wrote : sync[s].wrote[k] \in Record
  /\ ordered \in 0 .. MaxStarts
  /\ dismissed \subseteq Keys
  /\ syncDeaths \in 0 .. MaxSyncDeaths /\ starts \in 0 .. MaxStarts

SyncInit ==
  /\ library = {}
  /\ record = [k \in Keys |-> NoRecord]
  /\ cited = {}
  /\ state = [status |-> "IDLE", young |-> TRUE]
  /\ sync = [s \in Syncs |-> Waiting]
  /\ ordered = 0 /\ dismissed = {} /\ syncDeaths = 0 /\ starts = 0

-----------------------------------------------------------------------------
(* MovieMatchService.match                                                 *)

Distance(a, b) == IF a > b THEN a - b ELSE b - a
Known(a, b) == a # 0 /\ b # 0

ById(c, films) ==
  LET tmdb == {f \in films : Known(c.tmdb, Film[f].tmdb) /\ c.tmdb = Film[f].tmdb}
      imdb == {f \in films : Known(c.imdb, Film[f].imdb) /\ c.imdb = Film[f].imdb}
  IN IF tmdb # {} THEN tmdb ELSE imdb

Comparable(c, f) ==
  /\ c.title = Film[f].title
  /\ Known(c.year, Film[f].year) => Distance(c.year, Film[f].year) <= 1
  /\ c.language # "" /\ Film[f].language # "" => c.language = Film[f].language

Score(c, f) ==
  45 + (IF ~Known(c.year, Film[f].year) THEN 0 ELSE IF c.year = Film[f].year THEN 25 ELSE 15)
     + (IF c.language # "" /\ Film[f].language # "" THEN 15 ELSE 0)
     + c.extra

AutoMatch == 85

(* The film of status MATCHED, or None for review and rejection.           *)
Match(c, films) ==
  LET rows == {f \in films : Comparable(c, f)}
      best == {f \in rows : \A g \in rows : Score(c, g) <= Score(c, f)}
  IN IF ById(c, films) # {} THEN CHOOSE f \in ById(c, films) : TRUE
     ELSE IF \E f \in best : best = {f} /\ Score(c, f) >= AutoMatch
            THEN CHOOSE f \in best : TRUE
     ELSE None

(* _find_movie: what match does not settle is searched again by title.     *)
FindMovie(c, films) ==
  LET named == {f \in films : c.title = Film[f].title /\ c.language \in {"", Film[f].language}}
      near == {f \in named : Film[f].year # 0 /\ Distance(Film[f].year, c.released) <= 1}
      rows == IF c.released # 0 /\ near # {} THEN near ELSE named
  IN IF Match(c, films) # None THEN Match(c, films)
     ELSE IF \E f \in rows : rows = {f} THEN CHOOSE f \in rows : TRUE
     ELSE None

-----------------------------------------------------------------------------
(* sync                                                                    *)

Active == state.status \in {"QUEUED", "RUNNING"}
InPc(s, pc) == sync[s].pc = pc
Step(s, new) == sync' = [sync EXCEPT ![s] = new]

(* sync answers that it is already running while the row is active and its *)
(* updated_at less than half an hour old.  Nothing writes that column      *)
(* after the insert (models/mixins.py), so that is the row's own age.  The *)
(* variant never gives up on a row that a dead worker left behind.         *)
RefusesForGood == Active
Refuses == Active /\ state.young

(* Beat, or a worker that takes the administrator's task, calls sync.      *)
StartWith(s, tasks) ==
  /\ InPc(s, "idle")
  /\ ~Refuses
  /\ ordered' = tasks
  /\ state' = [state EXCEPT !.status = "RUNNING"]
  /\ Step(s, [Waiting EXCEPT !.pc = "fetch"])
  /\ UNCHANGED <<library, record, cited, dismissed, syncDeaths, starts>>

StartDaily(s) == StartWith(s, ordered)
StartSent(s) == ordered > 0 /\ StartWith(s, ordered - 1)

(* "Source sync is already running", and the task is gone.                 *)
RefuseSent(s) ==
  /\ InPc(s, "idle") /\ ordered > 0
  /\ Refuses
  /\ ordered' = ordered - 1
  /\ UNCHANGED <<library, record, cited, state, sync, dismissed, syncDeaths, starts>>

Fetched(s) ==
  /\ InPc(s, "fetch")
  /\ Step(s, [sync[s] EXCEPT !.pc = "read"])
  /\ UNCHANGED <<library, record, cited, state, ordered, dismissed, syncDeaths, starts>>

(* The adapter fails, or the session was left broken by a refused insert.  *)
FetchFails(s) ==
  /\ InPc(s, "fetch") \/ InPc(s, "broken")
  /\ state' = [state EXCEPT !.status = "FAILED"]
  /\ Step(s, Waiting)
  /\ UNCHANGED <<library, record, cited, ordered, dismissed, syncDeaths, starts>>

Sees(s, k) == IF k \in DOMAIN sync[s].wrote THEN sync[s].wrote[k] ELSE record[k]

ReadItem(s) ==
  /\ InPc(s, "read") /\ sync[s].key <= Items
  /\ Step(s, [sync[s] EXCEPT !.pc = "write", !.copy = Sees(s, sync[s].key)])
  /\ UNCHANGED <<library, record, cited, state, ordered, dismissed, syncDeaths, starts>>

Unlocked(s, k) == \A t \in Syncs \ {s} : k \notin DOMAIN sync[t].wrote

(* What _ingest makes of a record; the variant forgets what an             *)
(* administrator dismissed.                                                *)
DecisionAnew(copy, film) ==
  IF film # None THEN [status |-> "MATCHED", film |-> film, byHand |-> FALSE] ELSE Fresh
Decision(copy, film) ==
  IF copy.status \in Dismissed THEN copy
  ELSE IF film # None THEN [status |-> "MATCHED", film |-> film, byHand |-> FALSE]
  ELSE Fresh

(* The columns whose value the item changed; the others keep what another  *)
(* transaction may have committed meanwhile.                               *)
Columns(copy, new, now) ==
  [c \in DOMAIN now |-> IF new[c] = copy[c] THEN now[c] ELSE new[c]]

(* The end of _ingest.  record_evidence commits what the session wrote.    *)
WriteItem(s) ==
  LET k == sync[s].key
      copy == IF sync[s].copy = NoRecord THEN Fresh ELSE sync[s].copy
      film == FindMovie(Candidate[k], library)
      new == Columns(copy, Decision(copy, film), IF record[k] = NoRecord THEN Fresh ELSE record[k])
      wrote == [j \in DOMAIN sync[s].wrote \cup {k} |-> IF j = k THEN new ELSE sync[s].wrote[j]]
      cites == /\ film # None /\ Candidate[k].citable
               /\ copy.status \notin Dismissed /\ <<film, k>> \notin cited
  IN /\ InPc(s, "write") /\ Unlocked(s, k)
     /\ sync[s].copy = NoRecord => Sees(s, k) = NoRecord
     /\ IF cites
          THEN /\ record' = [j \in Keys |-> IF j \in DOMAIN wrote THEN wrote[j] ELSE record[j]]
               /\ cited' = cited \cup {<<film, k>>}
               /\ Step(s, [Waiting EXCEPT !.pc = "read", !.key = k + 1])
          ELSE /\ UNCHANGED <<record, cited>>
               /\ Step(s, [sync[s] EXCEPT !.pc = "read", !.key = k + 1, !.copy = NoRecord, !.wrote = wrote])
     /\ UNCHANGED <<library, state, ordered, dismissed, syncDeaths, starts>>

(* Another sync inserted the record meanwhile: the unique key refuses this *)
(* insert, and the session answers every later statement with an error.    *)
InsertFails(s) ==
  /\ InPc(s, "write") /\ Unlocked(s, sync[s].key)
  /\ sync[s].copy = NoRecord /\ record[sync[s].key] # NoRecord
  /\ Step(s, [Waiting EXCEPT !.pc = "broken"])
  /\ UNCHANGED <<library, record, cited, state, ordered, dismissed, syncDeaths, starts>>

Finish(s) ==
  /\ InPc(s, "read") /\ sync[s].key > Items
  /\ record' = [j \in Keys |-> IF j \in DOMAIN sync[s].wrote THEN sync[s].wrote[j] ELSE record[j]]
  /\ state' = [state EXCEPT !.status = "COMPLETE"]
  /\ Step(s, Waiting)
  /\ UNCHANGED <<library, cited, ordered, dismissed, syncDeaths, starts>>

(* A worker dies: its transaction is rolled back, the row stays RUNNING.   *)
SyncDies(s) ==
  /\ ~InPc(s, "idle") /\ syncDeaths < MaxSyncDeaths
  /\ syncDeaths' = syncDeaths + 1
  /\ Step(s, Waiting)
  /\ UNCHANGED <<library, record, cited, state, ordered, dismissed, starts>>

(* Thirty minutes since the row was inserted.                              *)
HalfAnHour ==
  /\ state.young
  /\ state' = [state EXCEPT !.young = FALSE]
  /\ UNCHANGED <<library, record, cited, sync, ordered, dismissed, syncDeaths, starts>>

-----------------------------------------------------------------------------
(* The administrator and the catalogue.                                    *)

RunSource ==
  /\ ~Active /\ starts < MaxStarts
  /\ state' = [state EXCEPT !.status = "QUEUED"]
  /\ ordered' = ordered + 1
  /\ starts' = starts + 1
  /\ UNCHANGED <<library, record, cited, sync, dismissed, syncDeaths>>

Reachable(k) == record[k] # NoRecord /\ \A s \in Syncs : k \notin DOMAIN sync[s].wrote

MatchRecord(k, f) ==
  /\ Reachable(k) /\ f \in library
  /\ record' = [record EXCEPT ![k] = [status |-> "MATCHED", film |-> f, byHand |-> TRUE]]
  /\ cited' = IF Candidate[k].citable THEN cited \cup {<<f, k>>} ELSE cited
  /\ dismissed' = dismissed \ {k}
  /\ UNCHANGED <<library, state, sync, ordered, syncDeaths, starts>>

DismissRecord(k, status) ==
  /\ Reachable(k) /\ status \in Dismissed
  /\ record' = [record EXCEPT ![k].status = status, ![k].film = None]
  /\ dismissed' = IF \A s \in Syncs : InPc(s, "idle") THEN dismissed \cup {k} ELSE dismissed
  /\ UNCHANGED <<library, cited, state, sync, ordered, syncDeaths, starts>>

AddFilm(f) ==
  /\ f \notin library
  /\ library' = library \cup {f}
  /\ UNCHANGED <<record, cited, state, sync, ordered, dismissed, syncDeaths, starts>>

SyncStep(s) ==
  Fetched(s) \/ FetchFails(s) \/ InsertFails(s) \/ ReadItem(s) \/ WriteItem(s) \/ Finish(s)

SyncNext ==
  \/ \E s \in Syncs : StartDaily(s) \/ StartSent(s) \/ RefuseSent(s) \/ SyncStep(s) \/ SyncDies(s)
  \/ HalfAnHour \/ RunSource
  \/ \E k \in Keys : \/ \E f \in Films : MatchRecord(k, f)
                     \/ \E d \in {"IGNORED"} : DismissRecord(k, d)
  \/ \E f \in Films : AddFilm(f)

(* Time passes, beat calls sync every day on some worker, and a worker     *)
(* that lives goes on.                                                     *)
SyncFairness ==
  /\ WF_syncVars(HalfAnHour)
  /\ WF_syncVars(\E s \in Syncs : StartDaily(s))
  /\ \A s \in Syncs : WF_syncVars(SyncStep(s))

SyncSpec == SyncInit /\ [][SyncNext]_syncVars /\ SyncFairness

-----------------------------------------------------------------------------
(* A source is never synchronized twice at once                            *)
(* (app/services/ott_source_sync.py: without parallel duplicates).         *)
OneSync == \A s, t \in Syncs : ~InPc(s, "idle") /\ ~InPc(t, "idle") => s = t

(* A record the administrator dismissed between two syncs stays dismissed, *)
(* whatever later syncs find, until the administrator matches it.          *)
DismissalKept == \A k \in dismissed : record[k].status \in Dismissed

(* A started or queued sync does not block the source for good: the row    *)
(* gets to COMPLETE or FAILED, also when the worker died or the task was   *)
(* refused by the row's own QUEUED.                                        *)
SourceRecovers == Active ~> ~Active
=============================================================================
