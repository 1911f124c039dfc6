--------------------------- MODULE ProgressProofs ---------------------------
(*****************************************************************************)
(* Theorems about the sync of a source, SourceSync, for any feed and any    *)
(* number of syncs, about Ratings, for any titles and sessions, and about   *)
(* the instance that checks them with Notices and Images: whichever part    *)
(* moves, every variable of every part keeps its type, and what an          *)
(* administrator dismissed stays dismissed.                                 *)
(*****************************************************************************)
EXTENDS MCProgress, UpkeepProofs, WellFoundedInduction

-----------------------------------------------------------------------------
(* Source synchronisation.                                                 *)
Written == UNION {[K -> Record] : K \in SUBSET Keys}
Session == [pc : {"idle", "fetch", "read", "write", "broken"}, key : 1 .. Items + 1,
            copy : Record, wrote : Written]

SyncTyped ==
  /\ library \subseteq Films
  /\ record \in [Keys -> Record]
  /\ cited \subseteq Films \X Keys
  /\ state \in [status : {"IDLE", "QUEUED", "RUNNING", "COMPLETE", "FAILED"}, young : BOOLEAN]
  /\ sync \in [Syncs -> Session]
  /\ \A s \in Syncs : /\ InPc(s, "idle") => sync[s] = Waiting
                      /\ InPc(s, "write") => sync[s].key \in Keys
  /\ ordered \in Nat /\ starts \in 0 .. MaxStarts /\ ordered <= starts
  /\ dismissed \subseteq Keys
  /\ syncDeaths \in 0 .. MaxSyncDeaths

(* A dismissal is in the table, in what a sync has written of the record,  *)
(* and in the copy of a sync that is about to write it.                    *)
StaysDismissed(k) ==
  /\ record[k].status \in Dismissed
  /\ \A s \in Syncs :
       /\ k \in DOMAIN sync[s].wrote => sync[s].wrote[k].status \in Dismissed
       /\ InPc(s, "write") /\ sync[s].key = k => sync[s].copy.status \in Dismissed

SyncInv == SyncTyped /\ \A k \in dismissed : StaysDismissed(k)

-----------------------------------------------------------------------------
LEMMA RecordsTyped ==
  /\ NoRecord \in Record /\ NoRecord.status \notin Dismissed
  /\ Fresh \in Record
BY DEF NoRecord, Fresh, Record, RecordStatuses, Dismissed

LEMMA WaitingTyped ==
  /\ Waiting \in Session /\ Waiting.pc = "idle" /\ Waiting.wrote \in Written
  /\ Waiting.key = 1 /\ Waiting.copy = NoRecord /\ DOMAIN Waiting.wrote = {}
<1>1. [k \in {} |-> NoRecord] \in Written
  BY DEF Written
<1>2. 1 \in 1 .. Items + 1
  BY SyncAssumption
<1> QED
  BY <1>1, <1>2, RecordsTyped DEF Waiting, Session

LEMMA ColumnsTyped ==
  ASSUME NEW copy \in Record, NEW new \in Record, NEW now \in Record
  PROVE  /\ Columns(copy, new, now) \in Record
         /\ Columns(copy, copy, now).status = now.status
<1> DEFINE cols == Columns(copy, new, now)
<1>1. DOMAIN now = {"status", "film", "byHand"}
  BY DEF Record
<1>2. cols = [status |-> IF new.status = copy.status THEN now.status ELSE new.status,
              film |-> IF new.film = copy.film THEN now.film ELSE new.film,
              byHand |-> IF new.byHand = copy.byHand THEN now.byHand ELSE new.byHand]
  BY <1>1 DEF Columns
<1>3. cols \in Record
  <2> HIDE DEF cols
  <2> QED
    BY <1>2 DEF Record
<1>4. Columns(copy, copy, now).status = now.status
  BY <1>1 DEF Columns
<1> QED
  BY <1>3, <1>4

LEMMA FoundTyped ==
  ASSUME NEW c, NEW films \in SUBSET Films
  PROVE  FindMovie(c, films) \in Films \cup {None}
<1>1. Match(c, films) \in Films \cup {None}
  <2>1. ById(c, films) \subseteq films
    BY DEF ById
  <2> DEFINE rows == {f \in films : Comparable(c, f)}
  <2> DEFINE best == {f \in rows : \A g \in rows : Score(c, g) <= Score(c, f)}
  <2>2. best \subseteq films
    OBVIOUS
  <2>3. Match(c, films) = IF ById(c, films) # {} THEN CHOOSE f \in ById(c, films) : TRUE
                          ELSE IF \E f \in best : best = {f} /\ Score(c, f) >= AutoMatch
                                 THEN CHOOSE f \in best : TRUE
                          ELSE None
    BY DEF Match
  <2> HIDE DEF best
  <2> QED
    BY <2>1, <2>2, <2>3
<1> DEFINE named == {f \in films : c.title = Film[f].title /\ c.language \in {"", Film[f].language}}
<1> DEFINE near == {f \in named : Film[f].year # 0 /\ Distance(Film[f].year, c.released) <= 1}
<1> DEFINE rows == IF c.released # 0 /\ near # {} THEN near ELSE named
<1>2. rows \subseteq films
  OBVIOUS
<1>3. FindMovie(c, films) = IF Match(c, films) # None THEN Match(c, films)
                            ELSE IF \E f \in rows : rows = {f} THEN CHOOSE f \in rows : TRUE
                            ELSE None
  BY DEF FindMovie
<1> HIDE DEF rows
<1> QED
  BY <1>1, <1>2, <1>3

(* _ingest makes a record of a record, and leaves a dismissed one alone.   *)
LEMMA DecisionTyped ==
  ASSUME NEW copy \in Record, NEW film \in Films \cup {None}
  PROVE  /\ Decision(copy, film) \in Record
         /\ copy.status \in Dismissed => Decision(copy, film) = copy
<1>1. film # None => [status |-> "MATCHED", film |-> film, byHand |-> FALSE] \in Record
  BY DEF Record, RecordStatuses
<1> QED
  BY <1>1, RecordsTyped DEF Decision

LEMMA SyncInvInit == SyncInit => SyncInv
<1> SUFFICES ASSUME SyncInit PROVE SyncInv
  OBVIOUS
<1>1. sync \in [Syncs -> Session] /\ \A s \in Syncs : sync[s] = Waiting
  BY WaitingTyped DEF SyncInit
<1>2. record \in [Keys -> Record]
  BY RecordsTyped DEF SyncInit
<1>3. SyncTyped
  BY <1>1, <1>2, WaitingTyped, SyncAssumption DEF SyncInit, SyncTyped, InPc
<1> QED
  BY <1>3 DEF SyncInit, SyncInv

(* What a session may come to be.                                          *)
Sound(new) ==
  /\ new \in Session
  /\ new.pc = "idle" => new = Waiting
  /\ new.pc = "write" => new.key \in Keys

Respects(new, k) ==
  /\ k \in DOMAIN new.wrote => new.wrote[k].status \in Dismissed
  /\ new.pc = "write" /\ new.key = k => new.copy.status \in Dismissed

LEMMA WaitingRespects == Sound(Waiting) /\ \A k \in Keys : Respects(Waiting, k)
BY WaitingTyped DEF Sound, Respects

(* A step of one session, that may commit records still dismissed.         *)
LEMMA SessionMoves ==
  ASSUME SyncInv, NEW s \in Syncs, NEW new, Sound(new), Step(s, new),
         \A k \in dismissed : Respects(new, k),
         UNCHANGED dismissed, record' \in [Keys -> Record],
         \A k \in dismissed : record'[k].status \in Dismissed,
         UNCHANGED library, cited' \subseteq Films \X Keys,
         state' \in [status : {"IDLE", "QUEUED", "RUNNING", "COMPLETE", "FAILED"}, young : BOOLEAN],
         ordered' \in Nat, ordered' <= starts, UNCHANGED starts,
         syncDeaths' \in 0 .. MaxSyncDeaths
  PROVE  SyncInv'
<1>1. /\ sync' \in [Syncs -> Session] /\ sync'[s] = new
      /\ \A t \in Syncs \ {s} : sync'[t] = sync[t]
  BY DEF Step, Sound, SyncInv, SyncTyped
<1>2. \A t \in Syncs : /\ InPc(t, "idle")' => sync'[t] = Waiting
                       /\ InPc(t, "write")' => sync'[t].key \in Keys
  BY <1>1 DEF Sound, SyncInv, SyncTyped, InPc
<1>3. SyncTyped'
  BY <1>1, <1>2 DEF SyncInv, SyncTyped
<1>4. ASSUME NEW k \in dismissed' PROVE StaysDismissed(k)'
  <2>1. StaysDismissed(k) /\ Respects(new, k) /\ record'[k].status \in Dismissed
    BY DEF SyncInv
  <2> QED
    BY <1>1, <2>1 DEF StaysDismissed, Respects, InPc
<1> QED
  BY <1>3, <1>4 DEF SyncInv

(* The steps of a session that touch no record.                            *)
LEMMA SessionStarts ==
  ASSUME SyncInv, NEW s \in Syncs, StartDaily(s) \/ StartSent(s)
  PROVE  SyncInv'
<1> DEFINE new == [Waiting EXCEPT !.pc = "fetch"]
<1>1. PICK tasks \in {ordered, ordered - 1} : StartWith(s, tasks) /\ (tasks # ordered => ordered > 0)
  BY DEF StartDaily, StartSent
<1>2. /\ Step(s, new) /\ ordered' = tasks /\ state' = [state EXCEPT !.status = "RUNNING"]
      /\ UNCHANGED <<library, record, cited, dismissed, syncDeaths, starts>>
  BY <1>1 DEF StartWith
<1>3. Sound(new) /\ \A k \in Keys : Respects(new, k)
  BY WaitingTyped DEF Sound, Respects, Session
<1>4. ordered' \in Nat /\ ordered' <= starts /\ dismissed \subseteq Keys
  BY <1>1, <1>2, SyncAssumption DEF SyncInv, SyncTyped
<1>5. state' \in [status : {"IDLE", "QUEUED", "RUNNING", "COMPLETE", "FAILED"}, young : BOOLEAN]
  BY <1>2 DEF SyncInv, SyncTyped
<1>6. \A k \in dismissed : record'[k].status \in Dismissed
  BY <1>2 DEF SyncInv, StaysDismissed
<1> HIDE DEF new
<1> QED
  BY <1>2, <1>3, <1>4, <1>5, <1>6, SessionMoves DEF SyncInv, SyncTyped

LEMMA SessionStops ==
  ASSUME SyncInv, NEW s \in Syncs, FetchFails(s) \/ SyncDies(s)
  PROVE  SyncInv'
<1>1. /\ Step(s, Waiting)
      /\ UNCHANGED <<library, record, cited, ordered, dismissed, starts>>
  BY DEF FetchFails, SyncDies
<1>2. state' \in [status : {"IDLE", "QUEUED", "RUNNING", "COMPLETE", "FAILED"}, young : BOOLEAN]
  BY DEF FetchFails, SyncDies, SyncInv, SyncTyped
<1>3. syncDeaths' \in 0 .. MaxSyncDeaths
  BY SyncAssumption DEF FetchFails, SyncDies, SyncInv, SyncTyped
<1>4. \A k \in dismissed : record'[k].status \in Dismissed
  BY <1>1 DEF SyncInv, StaysDismissed
<1> QED
  BY <1>1, <1>2, <1>3, <1>4, WaitingRespects, SessionMoves DEF SyncInv, SyncTyped

LEMMA SessionGoesOn ==
  ASSUME SyncInv, NEW s \in Syncs, Fetched(s) \/ InsertFails(s)
  PROVE  SyncInv'
<1> DEFINE new == IF Fetched(s) THEN [sync[s] EXCEPT !.pc = "read"] ELSE [Waiting EXCEPT !.pc = "broken"]
<1>1. /\ Step(s, new)
      /\ UNCHANGED <<library, record, cited, state, ordered, dismissed, syncDeaths, starts>>
  BY DEF Fetched, InsertFails
<1>2. sync[s] \in Session /\ \A k \in dismissed : StaysDismissed(k)
  BY DEF SyncInv, SyncTyped
<1>3. Sound(new) /\ \A k \in dismissed : Respects(new, k)
  <2>1. CASE Fetched(s)
    BY <1>2, <2>1 DEF Sound, Respects, Session, StaysDismissed
  <2>2. CASE ~Fetched(s)
    BY <2>2, WaitingTyped DEF Sound, Respects, Session
  <2> QED
    BY <2>1, <2>2
<1>4. \A k \in dismissed : record'[k].status \in Dismissed
  BY <1>1, <1>2 DEF StaysDismissed
<1> HIDE DEF new
<1> QED
  BY <1>1, <1>3, <1>4, SessionMoves DEF SyncInv, SyncTyped

(* The copy is of what the session sees: its own writes first.             *)
LEMMA ReadItemStep == ASSUME SyncInv, NEW s \in Syncs, ReadItem(s) PROVE SyncInv'
<1> DEFINE seen == Sees(s, sync[s].key)
<1> DEFINE new == [sync[s] EXCEPT !.pc = "write", !.copy = seen]
<1>1. /\ InPc(s, "read") /\ sync[s].key <= Items /\ Step(s, new)
      /\ UNCHANGED <<library, record, cited, state, ordered, dismissed, syncDeaths, starts>>
  BY DEF ReadItem
<1>2. sync[s] \in Session /\ record \in [Keys -> Record] /\ \A k \in dismissed : StaysDismissed(k)
  BY DEF SyncInv, SyncTyped
<1>3. sync[s].key \in Keys
  BY <1>1, <1>2, SyncAssumption DEF Session, Keys
<1>4. seen \in Record
  BY <1>2, <1>3 DEF Sees, Session, Written
<1>5. \A k \in dismissed : sync[s].key = k => seen.status \in Dismissed
  BY <1>2 DEF Sees, StaysDismissed
<1> HIDE DEF seen
<1>6. Sound(new) /\ \A k \in dismissed : Respects(new, k)
  BY <1>2, <1>3, <1>4, <1>5 DEF Sound, Respects, Session, StaysDismissed
<1>7. \A k \in dismissed : record'[k].status \in Dismissed
  BY <1>1, <1>2 DEF StaysDismissed
<1> HIDE DEF new
<1> QED
  BY <1>1, <1>6, <1>7, SessionMoves DEF SyncInv, SyncTyped

(* The end of _ingest: of a dismissed record nothing is decided anew, and  *)
(* the columns it would write are those that are there.                    *)
LEMMA WriteItemStep == ASSUME SyncInv, NEW s \in Syncs, WriteItem(s) PROVE SyncInv'
<1> DEFINE k == sync[s].key
<1> DEFINE copy == IF sync[s].copy = NoRecord THEN Fresh ELSE sync[s].copy
<1> DEFINE film == FindMovie(Candidate[k], library)
<1> DEFINE now == IF record[k] = NoRecord THEN Fresh ELSE record[k]
<1> DEFINE item == Columns(copy, Decision(copy, film), now)
<1> DEFINE wrote == [j \in DOMAIN sync[s].wrote \cup {k} |-> IF j = k THEN item ELSE sync[s].wrote[j]]
<1> DEFINE commits == /\ record' = [j \in Keys |-> IF j \in DOMAIN wrote THEN wrote[j] ELSE record[j]]
                      /\ cited' = cited \cup {<<film, k>>}
                      /\ film # None
                      /\ Step(s, [Waiting EXCEPT !.pc = "read", !.key = k + 1])
<1> DEFINE keeps == /\ UNCHANGED <<record, cited>>
                    /\ Step(s, [sync[s] EXCEPT !.pc = "read", !.key = k + 1, !.copy = NoRecord, !.wrote = wrote])
<1>1. /\ InPc(s, "write")
      /\ UNCHANGED <<library, state, ordered, dismissed, syncDeaths, starts>>
      /\ commits \/ keeps
  BY DEF WriteItem
<1>2. /\ sync[s] \in Session /\ k \in Keys /\ k + 1 \in 1 .. Items + 1
      /\ record \in [Keys -> Record]
      /\ \A j \in dismissed : StaysDismissed(j)
      /\ dismissed \subseteq Keys
  BY <1>1, SyncAssumption DEF SyncInv, SyncTyped, Keys
<1>3. copy \in Record /\ now \in Record /\ film \in Films \cup {None}
  <2>1. library \in SUBSET Films
    BY DEF SyncInv, SyncTyped
  <2> QED
    BY <1>2, <2>1, RecordsTyped, FoundTyped DEF Session
<1>4. item \in Record
  <2>1. Decision(copy, film) \in Record
    BY <1>3, DecisionTyped
  <2> HIDE DEF copy, now, film
  <2> QED
    BY <1>3, <2>1, ColumnsTyped
<1>5. k \in dismissed => item.status \in Dismissed
  <2> SUFFICES ASSUME k \in dismissed PROVE item.status \in Dismissed
    OBVIOUS
  <2>1. record[k].status \in Dismissed /\ sync[s].copy.status \in Dismissed
    BY <1>1, <1>2 DEF StaysDismissed
  <2>2. copy = sync[s].copy /\ now = record[k]
    BY <2>1, RecordsTyped
  <2>3. Decision(copy, film) = copy
    BY <1>3, <2>1, <2>2, DecisionTyped
  <2> HIDE DEF copy, now, film
  <2>4. item.status = now.status
    BY <1>3, <2>3, ColumnsTyped
  <2> QED
    BY <2>1, <2>2, <2>4
<1> HIDE DEF copy, now, film, item
<1>6. /\ wrote \in Written /\ DOMAIN wrote \subseteq Keys
      /\ \A j \in DOMAIN wrote : wrote[j] \in Record
      /\ \A j \in dismissed : j \in DOMAIN wrote => wrote[j].status \in Dismissed
  <2>1. DOMAIN sync[s].wrote \subseteq Keys /\ \A j \in DOMAIN sync[s].wrote : sync[s].wrote[j] \in Record
    BY <1>2 DEF Session, Written
  <2>2. wrote \in [DOMAIN sync[s].wrote \cup {k} -> Record]
    BY <1>4, <2>1
  <2>3. wrote \in Written
    BY <1>2, <2>1, <2>2 DEF Written
  <2> QED
    BY <1>2, <1>4, <1>5, <2>1, <2>3 DEF StaysDismissed
<1> HIDE DEF wrote
<1>7. CASE commits
  <2> DEFINE new == [Waiting EXCEPT !.pc = "read", !.key = k + 1]
  <2>1. Sound(new) /\ \A j \in dismissed : Respects(new, j)
    BY <1>2, WaitingTyped DEF Sound, Respects, Session
  <2>2. record' \in [Keys -> Record] /\ \A j \in dismissed : record'[j].status \in Dismissed
    BY <1>2, <1>6, <1>7 DEF StaysDismissed
  <2>3. cited' \subseteq Films \X Keys
    BY <1>2, <1>3, <1>7 DEF SyncInv, SyncTyped
  <2> HIDE DEF new
  <2> QED
    BY <1>1, <1>7, <2>1, <2>2, <2>3, SessionMoves DEF new, SyncInv, SyncTyped
<1>8. CASE keeps
  <2> DEFINE new == [sync[s] EXCEPT !.pc = "read", !.key = k + 1, !.copy = NoRecord, !.wrote = wrote]
  <2>1. Sound(new) /\ \A j \in dismissed : Respects(new, j)
    BY <1>2, <1>6, RecordsTyped DEF Sound, Respects, Session
  <2>2. \A j \in dismissed : record'[j].status \in Dismissed
    BY <1>2, <1>8 DEF StaysDismissed
  <2> HIDE DEF new
  <2> QED
    BY <1>1, <1>8, <2>1, <2>2, SessionMoves DEF new, SyncInv, SyncTyped
<1> QED
  BY <1>1, <1>7, <1>8

LEMMA FinishStep == ASSUME SyncInv, NEW s \in Syncs, Finish(s) PROVE SyncInv'
<1>1. /\ record' = [j \in Keys |-> IF j \in DOMAIN sync[s].wrote THEN sync[s].wrote[j] ELSE record[j]]
      /\ state' = [state EXCEPT !.status = "COMPLETE"]
      /\ Step(s, Waiting)
      /\ UNCHANGED <<library, cited, ordered, dismissed, syncDeaths, starts>>
  BY DEF Finish
<1>2. /\ sync[s] \in Session /\ record \in [Keys -> Record] /\ dismissed \subseteq Keys
      /\ \A k \in dismissed : StaysDismissed(k)
  BY DEF SyncInv, SyncTyped
<1>3. record' \in [Keys -> Record]
  BY <1>1, <1>2 DEF Session, Written
<1>4. \A k \in dismissed : record'[k].status \in Dismissed
  BY <1>1, <1>2 DEF StaysDismissed
<1>5. state' \in [status : {"IDLE", "QUEUED", "RUNNING", "COMPLETE", "FAILED"}, young : BOOLEAN]
  BY <1>1 DEF SyncInv, SyncTyped
<1> QED
  BY <1>1, <1>2, <1>3, <1>4, <1>5, WaitingRespects, SessionMoves DEF SyncInv, SyncTyped

(* Steps that touch neither sessions nor records.                          *)
LEMMA OutsideStep ==
  ASSUME SyncInv, \/ \E s \in Syncs : RefuseSent(s)
                  \/ HalfAnHour \/ RunSource
                  \/ \E f \in Films : AddFilm(f)
                  \/ UNCHANGED syncVars
  PROVE  SyncInv'
<1>1. UNCHANGED <<record, sync, cited, dismissed, syncDeaths>>
  BY DEF RefuseSent, HalfAnHour, RunSource, AddFilm, syncVars
<1>2. state' \in [status : {"IDLE", "QUEUED", "RUNNING", "COMPLETE", "FAILED"}, young : BOOLEAN]
  BY DEF RefuseSent, HalfAnHour, RunSource, AddFilm, syncVars, SyncInv, SyncTyped
<1>3. ordered' \in Nat /\ starts' \in 0 .. MaxStarts /\ ordered' <= starts'
  BY SyncAssumption DEF RefuseSent, HalfAnHour, RunSource, AddFilm, syncVars, SyncInv, SyncTyped
<1>4. library' \subseteq Films
  BY DEF RefuseSent, HalfAnHour, RunSource, AddFilm, syncVars, SyncInv, SyncTyped
<1> QED
  BY <1>1, <1>2, <1>3, <1>4 DEF SyncInv, SyncTyped, StaysDismissed, InPc

(* The administrator matches a record, which is no dismissal any more.     *)
LEMMA MatchRecordStep ==
  ASSUME SyncInv, NEW k \in Keys, NEW f \in Films, MatchRecord(k, f)
  PROVE  SyncInv'
<1> DEFINE row == [status |-> "MATCHED", film |-> f, byHand |-> TRUE]
<1>1. /\ record' = [record EXCEPT ![k] = row]
      /\ cited' = IF Candidate[k].citable THEN cited \cup {<<f, k>>} ELSE cited
      /\ dismissed' = dismissed \ {k}
      /\ UNCHANGED <<library, state, sync, ordered, syncDeaths, starts>>
  BY DEF MatchRecord
<1>2. row \in Record
  BY DEF Record, RecordStatuses
<1> HIDE DEF row
<1>3. record' \in [Keys -> Record] /\ \A j \in Keys \ {k} : record'[j] = record[j]
  BY <1>1, <1>2 DEF SyncInv, SyncTyped
<1>4. SyncTyped'
  BY <1>1, <1>3 DEF SyncInv, SyncTyped, InPc
<1>5. ASSUME NEW j \in dismissed' PROVE StaysDismissed(j)'
  <2>1. j \in Keys \ {k} /\ StaysDismissed(j)
    BY <1>1 DEF SyncInv, SyncTyped
  <2> QED
    BY <1>1, <1>3, <2>1 DEF StaysDismissed, InPc
<1> QED
  BY <1>4, <1>5 DEF SyncInv

(* A dismissal while every sync is idle is what later syncs will read.     *)
LEMMA DismissRecordStep ==
  ASSUME SyncInv, NEW k \in Keys, NEW status \in Dismissed, DismissRecord(k, status)
  PROVE  SyncInv'
<1>1. /\ record' = [record EXCEPT ![k].status = status, ![k].film = None]
      /\ dismissed' = IF \A s \in Syncs : InPc(s, "idle") THEN dismissed \cup {k} ELSE dismissed
      /\ UNCHANGED <<library, cited, state, sync, ordered, syncDeaths, starts>>
  BY DEF DismissRecord
<1>2. /\ record' \in [Keys -> Record] /\ record'[k].status = status
      /\ \A j \in Keys \ {k} : record'[j] = record[j]
  <2>1. record[k] \in Record /\ record \in [Keys -> Record]
    BY DEF SyncInv, SyncTyped
  <2>2. /\ [record[k] EXCEPT !.status = status, !.film = None] \in Record
        /\ [record[k] EXCEPT !.status = status, !.film = None].status = status
    BY <2>1 DEF Record, RecordStatuses
  <2>3. record' = [record EXCEPT ![k] = [record[k] EXCEPT !.status = status, !.film = None]]
    BY <1>1, <2>1
  <2> QED
    BY <2>1, <2>2, <2>3
<1>3. SyncTyped'
  BY <1>1, <1>2 DEF SyncInv, SyncTyped, InPc
<1>4. ASSUME NEW j \in dismissed' PROVE StaysDismissed(j)'
  <2>1. j \in Keys
    BY <1>3 DEF SyncTyped
  <2>2. record'[j].status \in Dismissed
    <3>1. CASE j = k
      BY <1>2, <3>1
    <3>2. CASE j # k
      BY <1>1, <1>2, <2>1, <3>2 DEF SyncInv, StaysDismissed
    <3> QED
      BY <3>1, <3>2
  <2>3. CASE j \in dismissed
    BY <1>1, <2>2, <2>3 DEF SyncInv, StaysDismissed, InPc
  <2>4. CASE j \notin dismissed
    <3>1. \A s \in Syncs : sync[s] = Waiting
      BY <1>1, <2>4 DEF SyncInv, SyncTyped
    <3> QED
      BY <1>1, <2>2, <3>1, WaitingTyped DEF StaysDismissed, InPc
  <2> QED
    BY <2>3, <2>4
<1> QED
  BY <1>3, <1>4 DEF SyncInv

LEMMA SyncInvStep == SyncInv /\ [SyncNext]_syncVars => SyncInv'
<1> SUFFICES ASSUME SyncInv, [SyncNext]_syncVars PROVE SyncInv'
  OBVIOUS
<1>1. ASSUME NEW s \in Syncs, StartDaily(s) \/ StartSent(s) \/ SyncStep(s) \/ SyncDies(s) PROVE SyncInv'
  BY <1>1, SessionStarts, SessionStops, SessionGoesOn, ReadItemStep, WriteItemStep, FinishStep DEF SyncStep
<1>2. ASSUME NEW k \in Keys, \/ \E f \in Films : MatchRecord(k, f)
                             \/ \E d \in {"IGNORED"} : DismissRecord(k, d)
      PROVE  SyncInv'
  BY <1>2, MatchRecordStep, DismissRecordStep DEF Dismissed
<1>3. CASE \/ \E s \in Syncs : RefuseSent(s)
           \/ HalfAnHour \/ RunSource
           \/ \E f \in Films : AddFilm(f)
           \/ UNCHANGED syncVars
  BY <1>3, OutsideStep
<1> QED
  BY <1>1, <1>2, <1>3 DEF SyncNext

LEMMA SyncInvHolds == SyncInit /\ [][SyncNext]_syncVars => []SyncInv
<1>1. SyncInit => SyncInv
  BY SyncInvInit
<1>2. SyncInv /\ [SyncNext]_syncVars => SyncInv'
  BY SyncInvStep
<1> QED
  BY <1>1, <1>2, PTL

LEMMA SyncTypesKept == SyncInit /\ [][SyncNext]_syncVars => []SyncTypeOK
<1>1. SyncInv => SyncTypeOK
  <2> SUFFICES ASSUME SyncInv PROVE SyncTypeOK
    OBVIOUS
  <2>1. ASSUME NEW s \in Syncs
        PROVE  /\ sync[s] \in Session
               /\ DOMAIN sync[s].wrote \subseteq Keys
               /\ \A k \in DOMAIN sync[s].wrote : sync[s].wrote[k] \in Record
    <3>1. sync[s] \in Session /\ sync[s].wrote \in Written
      BY DEF SyncInv, SyncTyped, Session
    <3>2. PICK K \in SUBSET Keys : sync[s].wrote \in [K -> Record]
      BY <3>1 DEF Written
    <3> QED
      BY <3>1, <3>2
  <2>2. ordered \in 0 .. MaxStarts
    BY SyncAssumption DEF SyncInv, SyncTyped
  <2> QED
    BY <2>1, <2>2 DEF SyncInv, SyncTyped, SyncTypeOK, Session
<1> QED
  BY <1>1, SyncInvHolds, PTL

(* Every record and session is in a state the code knows, for every feed   *)
(* and every catalogue (OttSourceRelease, OttSourceSyncService).           *)
THEOREM SyncTypesHold == SyncSpec => []SyncTypeOK
<1> QED
  BY SyncTypesKept, PTL DEF SyncSpec

(* A record dismissed between two syncs stays dismissed whatever later     *)
(* syncs, even several at once, find and write, until the administrator    *)
(* matches it (_ingest's preserved statuses).                              *)
THEOREM DismissalsKept == SyncSpec => []DismissalKept
<1>1. SyncInv => DismissalKept
  BY DEF SyncInv, StaysDismissed, DismissalKept
<1> QED
  BY <1>1, SyncInvHolds, PTL DEF SyncSpec

-----------------------------------------------------------------------------
(* Ratings.  A session that asks has a movie left to ask about, and what   *)
(* it heard are answers and failures about movies.                         *)
Tidings == UNION {[S -> Answers \cup Failures] : S \in SUBSET Ranked}
Refresher == [at : {"rest", "ask", "commit"}, left : SUBSET Ranked, news : Tidings]

RatingRows ==
  /\ rating \in [Ranked -> RatingStatuses]
  /\ wait \in [Ranked -> 0 .. LongWait] /\ attempts \in [Ranked -> 0 .. LongWait]

RatingInv ==
  /\ RatingRows
  /\ holds \subseteq Ranked
  /\ sought \in [Ranked -> {"NONE", "PENDING", "PERMANENT"}]
  /\ rater \in [Raters -> Refresher]
  /\ \A r \in Raters : rater[r].at = "ask" => rater[r].left # {}
  /\ ran \in BOOLEAN /\ outages \in 0 .. MaxOutages

(* Ranks are well ordered: some movie of those left comes first.           *)
LEMMA NextOfLeft ==
  ASSUME NEW S \in SUBSET Ranked, S # {}
  PROVE  NextOf(S) \in S
<1> DEFINE Before == {p \in Nat \X Nat : p[1] < p[2]}
<1>1. IsWellFoundedOn(Before, Nat)
  BY NatLessThanWellFounded DEF OpToRel
<1>2. S \subseteq Nat
  BY RatingAssumption
<1>3. PICK m \in S : \A n \in S : <<n, m>> \notin Before
  <2> HIDE DEF Before
  <2> QED
    BY <1>1, <1>2, WFMin
<1>4. ASSUME NEW n \in S PROVE m <= n
  <2>1. n \in Nat /\ m \in Nat /\ <<n, m>> \notin Before
    BY <1>2, <1>3
  <2>2. n < m => <<n, m>> \in Before
    BY <2>1
  <2> HIDE DEF Before
  <2> QED
    BY <2>1, <2>2
<1> QED
  BY <1>3, <1>4 DEF NextOf

LEMMA FreeTyped == Free \in Refresher /\ Free.at = "rest"
<1>1. <<>> \in [{} -> Answers \cup Failures]
  OBVIOUS
<1>2. <<>> \in Tidings
  BY <1>1 DEF Tidings
<1> QED
  BY <1>2 DEF Free, Refresher

LEMMA HeardTyped ==
  ASSUME NEW news \in Tidings, NEW m \in Ranked, NEW status \in Answers \cup Failures
  PROVE  Heard(news, m, status) \in Tidings
<1>1. PICK S \in SUBSET Ranked : news \in [S -> Answers \cup Failures]
  BY DEF Tidings
<1>2. Heard(news, m, status) \in [S \cup {m} -> Answers \cup Failures]
  BY <1>1 DEF Heard
<1> QED
  BY <1>2 DEF Tidings

LEMMA RatingInvInit == RatingInit => RatingInv
<1> SUFFICES ASSUME RatingInit PROVE RatingInv
  OBVIOUS
<1>1. 0 \in 0 .. LongWait /\ 0 \in 0 .. MaxOutages
  BY RatingAssumption
<1> QED
  BY <1>1, FreeTyped DEF RatingInit, RatingInv, RatingRows, RatingStatuses

LEMMA RefresherMoves ==
  ASSUME RatingInv, NEW r \in Raters, NEW task \in Refresher, task.at = "ask" => task.left # {},
         rater' = [rater EXCEPT ![r] = task], outages' \in 0 .. MaxOutages, ran' \in BOOLEAN,
         UNCHANGED <<holds, sought>>, RatingRows'
  PROVE  RatingInv'
BY DEF RatingInv

LEMMA RowsStay == RatingRows /\ UNCHANGED <<rating, wait, attempts>> => RatingRows'
BY DEF RatingRows

LEMMA BatchStep ==
  ASSUME RatingInv, NEW r \in Raters, BeginRefresh(r) \/ \E m \in Ranked : BeginRefreshMovie(r, m)
  PROVE  RatingInv'
<1>1. PICK batch \in SUBSET Ranked : /\ batch # {}
                                    /\ rater' = [rater EXCEPT ![r].at = "ask", ![r].left = batch]
  <2>1. CASE BeginRefresh(r)
    <3> DEFINE batch == FirstOf({m \in Ranked : Due(m)}, RatingBatch)
    <3>1. batch \subseteq Ranked
      BY DEF FirstOf
    <3>2. batch # {} /\ rater' = [rater EXCEPT ![r].at = "ask", ![r].left = batch]
      BY <2>1 DEF BeginRefresh
    <3> QED
      BY <3>1, <3>2
  <2>2. ASSUME NEW m \in Ranked, BeginRefreshMovie(r, m)
        PROVE  {m} \in SUBSET Ranked /\ rater' = [rater EXCEPT ![r].at = "ask", ![r].left = {m}]
    BY <2>2 DEF BeginRefreshMovie
  <2> QED
    BY <2>1, <2>2
<1> DEFINE task == [rater[r] EXCEPT !.at = "ask", !.left = batch]
<1>2. rater[r] \in Refresher
  BY DEF RatingInv
<1>3. task \in Refresher /\ task.left # {} /\ rater' = [rater EXCEPT ![r] = task]
  BY <1>1, <1>2 DEF Refresher, RatingInv
<1>4. /\ UNCHANGED <<rating, wait, attempts, holds, sought>> /\ outages' \in 0 .. MaxOutages
      /\ ran' = TRUE \/ UNCHANGED ran
  <2>1. CASE BeginRefresh(r)
    BY <2>1 DEF BeginRefresh, RatingInv
  <2>2. ASSUME NEW m \in Ranked, BeginRefreshMovie(r, m)
        PROVE  /\ UNCHANGED <<rating, wait, attempts, holds, sought, ran>>
               /\ outages' \in 0 .. MaxOutages
    <3>1. /\ UNCHANGED <<rating, wait, attempts, holds, sought, ran>>
          /\ outages < MaxOutages /\ outages' = outages + 1
      BY <2>2 DEF BeginRefreshMovie
    <3>2. outages \in 0 .. MaxOutages /\ MaxOutages \in Nat
      BY RatingAssumption DEF RatingInv
    <3> QED
      BY <3>1, <3>2
  <2>3. CASE \E m \in Ranked : BeginRefreshMovie(r, m)
    BY <2>2, <2>3
  <2> QED
    BY <2>1, <2>3
<1>5. RatingRows' /\ ran' \in BOOLEAN
  BY <1>4, RowsStay DEF RatingInv
<1> HIDE DEF task
<1> QED
  BY <1>3, <1>4, <1>5, RefresherMoves

LEMMA AskStep == ASSUME RatingInv, NEW r \in Raters, Ask(r) PROVE RatingInv'
<1> DEFINE m == NextOf(rater[r].left)
<1>1. rater[r] \in Refresher /\ rater[r].at = "ask"
  BY DEF RatingInv, Ask
<1>2. rater[r].left \in SUBSET Ranked /\ rater[r].left # {} /\ rater[r].news \in Tidings
  BY <1>1 DEF RatingInv, Refresher
<1>3. m \in Ranked
  BY <1>2, NextOfLeft
<1> HIDE DEF m
<1>4. PICK status \in Answers \cup Failures :
        /\ outages' \in {outages, outages + 1} /\ outages' <= MaxOutages
        /\ rater' = [rater EXCEPT ![r] =
             [at |-> IF status \in Failures \ {"INVALID_ID"} \/ @.left = {m} THEN "commit" ELSE "ask",
              left |-> IF status \in Failures \ {"INVALID_ID"} THEN {} ELSE @.left \ {m},
              news |-> Heard(@.news, m, status)]]
  BY DEF Ask, m, Failures
<1> DEFINE task ==
      [at |-> IF status \in Failures \ {"INVALID_ID"} \/ rater[r].left = {m} THEN "commit" ELSE "ask",
       left |-> IF status \in Failures \ {"INVALID_ID"} THEN {} ELSE rater[r].left \ {m},
       news |-> Heard(rater[r].news, m, status)]
<1>5. rater' = [rater EXCEPT ![r] = task]
  BY <1>4
<1>6. task \in Refresher
  <2>1. Heard(rater[r].news, m, status) \in Tidings
    BY <1>2, <1>3, HeardTyped
  <2> QED
    BY <1>2, <2>1 DEF Refresher
<1>7. task.at = "ask" => task.left # {}
  BY <1>2
<1>8. UNCHANGED <<rating, wait, attempts, holds, sought, ran>>
  BY DEF Ask
<1>9. outages' \in 0 .. MaxOutages
  BY <1>4, RatingAssumption DEF RatingInv
<1>10. RatingRows' /\ ran' \in BOOLEAN
  BY <1>8, RowsStay DEF RatingInv
<1> HIDE DEF task
<1> QED
  BY <1>5, <1>6, <1>7, <1>8, <1>9, <1>10, RefresherMoves

(* No rest is longer than the longest.                                     *)
LEMMA WaitBounded ==
  ASSUME NEW status \in Answers \cup Failures, NEW tries \in 0 .. LongWait
  PROVE  NextCheck(status, tries) \in 0 .. LongWait
<1>1. Backoff(tries) \in 0 .. LongWait /\ 2 \in 0 .. LongWait
  BY RatingAssumption DEF Backoff
<1>2. /\ status \in Answers => NextCheck(status, tries) = LongWait
      /\ status = "TEMPORARY_FAILURE" => NextCheck(status, tries) = Backoff(tries)
      /\ status = "BLOCKED_BY_QUOTA" => NextCheck(status, tries) = 2
      /\ status = "INVALID_ID" => NextCheck(status, tries) = 0
  BY DEF NextCheck, Answers
<1>3. LongWait \in 0 .. LongWait /\ 0 \in 0 .. LongWait
  BY RatingAssumption
<1> QED
  BY <1>1, <1>2, <1>3 DEF Answers, Failures

LEMMA CommitStep == ASSUME RatingInv, NEW r \in Raters, CommitRefresh(r) PROVE RatingInv'
<1> DEFINE news == rater[r].news
<1> DEFINE told == DOMAIN news
<1>1. \A m \in told : news[m] \in Answers \cup Failures
  <2>1. news \in Tidings
    BY DEF RatingInv, Refresher
  <2>2. PICK S \in SUBSET Ranked : news \in [S -> Answers \cup Failures]
    BY <2>1 DEF Tidings
  <2> QED
    BY <2>2
<1>2. \A m \in Ranked : Tries(m) \in 0 .. LongWait
  BY RatingAssumption DEF Tries, RatingInv, RatingRows
<1>3. /\ rating' = [m \in Ranked |-> IF m \in told THEN news[m] ELSE rating[m]]
      /\ attempts' = [m \in Ranked |-> IF m \in told THEN Tries(m) ELSE attempts[m]]
      /\ wait' = [m \in Ranked |-> IF m \in told THEN NextCheck(news[m], Tries(m)) ELSE wait[m]]
      /\ rater' = [rater EXCEPT ![r] = Free] /\ UNCHANGED <<holds, sought, ran, outages>>
  BY DEF CommitRefresh
<1> HIDE DEF told, news
<1>4. ASSUME NEW m \in Ranked
      PROVE  /\ rating'[m] \in RatingStatuses /\ wait'[m] \in 0 .. LongWait
             /\ attempts'[m] \in 0 .. LongWait
  <2>1. CASE m \in told
    <3>1. NextCheck(news[m], Tries(m)) \in 0 .. LongWait /\ Tries(m) \in 0 .. LongWait
      BY <1>1, <1>2, <2>1, WaitBounded
    <3>2. news[m] \in RatingStatuses
      BY <1>1, <2>1 DEF RatingStatuses
    <3> QED
      BY <1>3, <2>1, <3>1, <3>2
  <2>2. CASE m \notin told
    BY <1>3, <2>2 DEF RatingInv, RatingRows
  <2> QED
    BY <2>1, <2>2
<1>5. RatingRows'
  BY <1>3, <1>4 DEF RatingRows
<1>6. outages' \in 0 .. MaxOutages /\ ran' \in BOOLEAN
  BY <1>3 DEF RatingInv
<1> QED
  BY <1>3, <1>5, <1>6, FreeTyped, RefresherMoves

LEMMA BesidesStep ==
  ASSUME RatingInv,
         \/ \E r \in Raters : RefreshLost(r)
         \/ PeriodPasses
         \/ \E m \in Ranked : EnrichmentFindsId(m) \/ RecoverId(m)
         \/ UNCHANGED ratingVars
  PROVE  RatingInv'
<1>1. ASSUME NEW r \in Raters, RefreshLost(r) PROVE RatingInv'
  <2>1. /\ rater' = [rater EXCEPT ![r] = Free] /\ outages' \in 0 .. MaxOutages
        /\ UNCHANGED <<rating, wait, attempts, holds, sought, ran>>
    BY <1>1, RatingAssumption DEF RefreshLost, RatingInv
  <2>2. RatingRows' /\ ran' \in BOOLEAN
    BY <2>1, RowsStay DEF RatingInv
  <2> QED
    BY <2>1, <2>2, FreeTyped, RefresherMoves
<1>2. CASE PeriodPasses
  <2>1. \A m \in Ranked : (IF wait[m] = 0 THEN 0 ELSE wait[m] - 1) \in 0 .. LongWait
    BY RatingAssumption DEF RatingInv, RatingRows
  <2> QED
    BY <1>2, <2>1 DEF PeriodPasses, RatingInv, RatingRows
<1>3. ASSUME NEW m \in Ranked, EnrichmentFindsId(m) \/ RecoverId(m) PROVE RatingInv'
  <2>1. /\ Gains(m) \/ UNCHANGED <<holds, rating>>
        /\ sought' \in [Ranked -> {"NONE", "PENDING", "PERMANENT"}]
        /\ UNCHANGED <<wait, attempts, rater, ran, outages>>
    BY <1>3 DEF EnrichmentFindsId, RecoverId, RatingInv
  <2>2. holds' \subseteq Ranked /\ rating' \in [Ranked -> RatingStatuses]
    BY <2>1 DEF Gains, RatingInv, RatingRows, RatingStatuses
  <2> QED
    BY <2>1, <2>2 DEF RatingInv, RatingRows
<1>4. CASE UNCHANGED ratingVars
  BY <1>4 DEF ratingVars, RatingInv, RatingRows
<1> QED
  BY <1>1, <1>2, <1>3, <1>4

LEMMA RatingInvStep == RatingInv /\ [RatingNext]_ratingVars => RatingInv'
BY BatchStep, AskStep, CommitStep, BesidesStep DEF RatingNext

LEMMA RatingTypesKept == RatingInit /\ [][RatingNext]_ratingVars => []RatingTypeOK
<1>1. RatingInv => RatingTypeOK
  <2> SUFFICES ASSUME RatingInv, NEW r \in Raters
               PROVE  RatingTypeOK
    BY DEF RatingInv, RatingRows, RatingTypeOK
  <2> QED
    BY DEF RatingInv, RatingRows, RatingTypeOK, Refresher, Tidings
<1> QED
  BY <1>1, RatingInvInit, RatingInvStep, PTL

(* Whatever the provider answers and whoever refreshes, every row keeps a  *)
(* status the code knows, and no movie rests for longer than after an      *)
(* answer (next_rating_check, apply_rating_result, mark_rating_failure).   *)
THEOREM RatingTypesHold == RatingSpec => []RatingTypeOK
<1> QED
  BY RatingTypesKept, PTL DEF RatingSpec

-----------------------------------------------------------------------------
(* The parts together.  A step of the whole is a step of each part or      *)
(* leaves it alone, so each keeps what it keeps alone.                     *)
LEMMA ProgressSteps ==
  [ProgressNext]_partVars =>
    /\ [SyncNext]_syncVars /\ [NoticeNext]_noticeVars
    /\ [RatingNext]_ratingVars /\ [ImageNext]_imageVars
    /\ UNCHANGED part
<1> QED
  BY DEF ProgressNext, partVars

(* Every variable of the jobs that must get somewhere holds what their     *)
(* code can put there, with its bounds.                                    *)
THEOREM ProgressTypesHold == ProgressSpec => []ProgressTypeOK
<1>1. ProgressInit => SyncInit /\ NoticeInit /\ RatingInit /\ ImageInit /\ part \in Parts
  BY DEF ProgressInit
<1>2. ProgressSpec => []SyncTypeOK /\ []NoticeTypeOK
  BY <1>1, ProgressSteps, SyncTypesKept, NoticeTypesKept, PTL DEF ProgressSpec
<1>3. ProgressSpec => []RatingTypeOK /\ []ImageTypeOK
  BY <1>1, ProgressSteps, RatingTypesKept, ImageTypesKept, PTL DEF ProgressSpec
<1>4. ProgressSpec => [](part \in Parts)
  <2>1. part \in Parts /\ UNCHANGED part => (part \in Parts)'
    OBVIOUS
  <2> QED
    BY <1>1, <2>1, ProgressSteps, PTL DEF ProgressSpec
<1>5. SyncTypeOK /\ NoticeTypeOK /\ RatingTypeOK /\ ImageTypeOK /\ part \in Parts
      => ProgressTypeOK
  BY DEF ProgressTypeOK
<1> QED
  BY <1>2, <1>3, <1>4, <1>5, PTL
=============================================================================
