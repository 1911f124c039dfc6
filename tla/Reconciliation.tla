--------------------------- MODULE Reconciliation ---------------------------
(***************************************************************************)
(* The evidence about one movie in one country and what is published from  *)
(* it: rows of ott_evidence with a source_url, the canonical rows of       *)
(* ott_availability, the current rows of ott_reconciliation_decisions and  *)
(* the movie's ott_conflicting issue (app/services/ott/reconciliation.py), *)
(* with the operations around it: record_evidence, manually_verify and     *)
(* reject_evidence of app/services/operations.py, the weekly pipeline, the *)
(* metadata import of watch providers, the daily transition, the research  *)
(* queue's hold on its row and the data-health scan.                       *)
(***************************************************************************)
EXTENDS Integers, Sequences, FiniteSets

CONSTANTS
  Offers,         \* pairs of platform and availability type
  Kinds,          \* evidence a run considers: its content, see Kind
  MaxEvidence,    \* bound on the rows ever recorded
  MaxDate         \* last day of the calendar

Dates == 0 .. MaxDate
NoDate == -1

(* What reconcile reads of a row.  A fact is a date (RELEASE_DATE and      *)
(* ANNOUNCEMENT), an availability or a digital date; weight sums up        *)
(* authority and confidence: official from 95 on, credible from 70 on with *)
(* a date confidence of 65, else weak.                                     *)
Kind == [offer : Offers, fact : {"DATE", "AVAILABILITY", "DIGITAL"},
         date : Dates \cup {NoDate}, weight : {"official", "credible", "weak"},
         source : STRING, manual : BOOLEAN]

ASSUME ReconAssumption ==
  /\ MaxEvidence \in Nat /\ MaxDate \in Nat
  /\ \A k \in Kinds :
       /\ DOMAIN k = {"offer", "fact", "date", "weight", "source", "manual"}
       /\ k.offer \in Offers
       /\ k.fact \in {"DATE", "AVAILABILITY", "DIGITAL"}
       /\ k.date \in Dates \cup {NoDate}
       /\ k.weight \in {"official", "credible", "weak"}
       /\ k.manual \in BOOLEAN
       /\ k.manual => k.weight = "official"

VARIABLES
  evidence,   \* rows by id: content, status and rejected_at
  canon,      \* per offer: its row of ott_availability
  decided,    \* per offer: state of its decision with is_current, NONE for none
  premiere,   \* offers with is_original_premiere
  issue,      \* an unresolved issue ott_conflicting
  flagged,    \* the queue row's status is CONFLICTING
  date,       \* today
  settled,    \* history: reconciled since the evidence last changed
  scanned     \* history: health-scanned since it was settled

reconVars == <<evidence, canon, decided, premiere, issue, flagged, date, settled, scanned>>

RowStatuses == {"POSSIBLE", "CONFIRMED", "CONFLICTING", "SUPERSEDED", "NEEDS_REVIEW"}
ReleaseStates == {"UNKNOWN", "OBSERVED", "CONFLICTING", "UPCOMING_CONFIRMED", "RELEASED_CONFIRMED"}
Confirmed == {"UPCOMING_CONFIRMED", "RELEASED_CONFIRMED"}
Canonical ==
  [known : BOOLEAN,                          \* the row exists
   date : Dates \cup {NoDate},               \* ott_release_date
   verification : {"UNKNOWN", "PLATFORM", "NEEDS_REVIEW", "CONFIRMED"},
   state : ReleaseStates,                    \* release_state
   locked : BOOLEAN,                         \* locked_by_admin
   shown : {"available", "upcoming", "released"}]   \* status

ReconTypeOK ==
  /\ DOMAIN evidence = 1 .. Len(evidence) /\ Len(evidence) <= MaxEvidence
  /\ \A i \in DOMAIN evidence :
       /\ evidence[i].is \in Kinds
       /\ evidence[i].status \in RowStatuses
       /\ evidence[i].rejected \in BOOLEAN
  /\ canon \in [Offers -> Canonical]
  /\ decided \in [Offers -> ReleaseStates \cup {"NONE"}]
  /\ premiere \subseteq Offers
  /\ issue \in BOOLEAN
  /\ flagged \in BOOLEAN
  /\ date \in Dates
  /\ settled \in BOOLEAN /\ scanned \in BOOLEAN

ReconInit ==
  /\ evidence = <<>>
  /\ canon = [o \in Offers |-> [known |-> FALSE, date |-> NoDate, verification |-> "UNKNOWN",
                                state |-> "UNKNOWN", locked |-> FALSE, shown |-> "available"]]
  /\ decided = [o \in Offers |-> "NONE"]
  /\ premiere = {}
  /\ issue = FALSE
  /\ flagged = FALSE
  /\ date = 0
  /\ settled = TRUE /\ scanned = FALSE

-----------------------------------------------------------------------------
(* Reading the evidence.  rows is evidence, or what it is about to be.     *)

Group(rows, o) ==
  {i \in DOMAIN rows : ~rows[i].rejected /\ rows[i].is.offer = o /\ rows[i].is.fact # "DIGITAL"}

(* _credible_date_rows *)
Credible(rows, o) ==
  {i \in Group(rows, o) : /\ rows[i].is.date # NoDate
                          /\ rows[i].is.fact = "DATE"
                          /\ rows[i].is.weight # "weak"}

On(rows, o, d) == {i \in Credible(rows, o) : rows[i].is.date = d}
CredibleDates(rows, o) == {rows[i].is.date : i \in Credible(rows, o)}
OfficialDates(rows, o) ==
  {rows[i].is.date : i \in {j \in Credible(rows, o) : rows[j].is.weight = "official"}}
ManualRows(rows, o) == {i \in Credible(rows, o) : rows[i].is.manual}

(* Two sources for one date; the variant counts two rows of one source.    *)
AgreedByRows(rows, o, d) == Cardinality(On(rows, o, d)) >= 2
Agreed(rows, o, d) ==
  \E i, j \in On(rows, o, d) : rows[i].is.source # rows[j].is.source

Single(S) == \E x \in S : S = {x}

(* The date a group decides for: that of the newest manual row, or the     *)
(* only official one, or the only one when two sources agree.              *)
ChosenDates(rows, o) ==
  LET manual == ManualRows(rows, o)
      official == OfficialDates(rows, o)
      dates == CredibleDates(rows, o)
  IN
  IF manual # {} THEN {rows[i].is.date : i \in {j \in manual : \A k \in manual : k <= j}}
  ELSE IF official # {} THEN {d \in official : official = {d}}
  ELSE {d \in dates : dates = {d} /\ Agreed(rows, o, d)}

(* conflict_rows *)
Disputed(rows, o) ==
  LET credible == Credible(rows, o)
      chosen == ChosenDates(rows, o)
  IN
  IF ManualRows(rows, o) # {} THEN {i \in credible : rows[i].is.date \notin chosen}
  ELSE IF Single(CredibleDates(rows, o)) \/ Single(OfficialDates(rows, o)) THEN {} ELSE credible

Superseded(rows, o) ==
  IF ManualRows(rows, o) = {} /\ Single(OfficialDates(rows, o))
    THEN {i \in Credible(rows, o) : rows[i].is.date \notin OfficialDates(rows, o)}
    ELSE {}

(* selected_platform *)
SelectedOffer(rows, o) ==
  \/ \E i \in Group(rows, o) : rows[i].is.fact = "AVAILABILITY" /\ rows[i].is.weight # "weak"
  \/ OfficialDates(rows, o) # {}
  \/ \E d \in CredibleDates(rows, o) : Agreed(rows, o, d)
  \/ Disputed(rows, o) # {}

StateOn(d) == IF d > date THEN "UPCOMING_CONFIRMED" ELSE "RELEASED_CONFIRMED"
ShownOn(d) == IF d > date THEN "upcoming" ELSE "released"
ByHand(rows, o, d) == \E i \in On(rows, o, d) : rows[i].is.manual

(* A locked row keeps its date from whatever is not manual; the variant    *)
(* forgets the lock.                                                       *)
DateForgotten(rows, o, d) == FALSE
DateKept(rows, o, d) == canon[o].locked /\ ~ByHand(rows, o, d)

(* What one group makes of its canonical row.                              *)
Canonised(rows, o) ==
  LET old == [canon[o] EXCEPT !.known = TRUE] IN
  IF ~SelectedOffer(rows, o) THEN canon[o]
  ELSE IF Disputed(rows, o) # {}
    THEN IF old.locked THEN old
         ELSE [old EXCEPT !.verification = "NEEDS_REVIEW", !.state = "CONFLICTING"]
  ELSE IF ChosenDates(rows, o) # {}
    THEN LET d == CHOOSE x \in ChosenDates(rows, o) : TRUE
             seen == [old EXCEPT !.state = StateOn(d), !.shown = ShownOn(d)]
         IN IF DateKept(rows, o, d) THEN seen
            ELSE [seen EXCEPT !.date = d, !.verification = "CONFIRMED", !.locked = ByHand(rows, o, d)]
  ELSE IF old.locked \/ old.date # NoDate THEN old
  ELSE [old EXCEPT !.verification = "PLATFORM", !.state = "OBSERVED"]

StateAfter(rows, o) ==
  IF ~SelectedOffer(rows, o) THEN "NONE"
  ELSE IF Disputed(rows, o) # {} THEN "CONFLICTING"
  ELSE Canonised(rows, o).state

StatusIn(rows, i) ==
  LET o == rows[i].is.offer IN
  IF i \notin Group(rows, o) THEN rows[i].status
  ELSE IF ~SelectedOffer(rows, o) THEN "POSSIBLE"
  ELSE IF Disputed(rows, o) # {}
    THEN IF i \in Disputed(rows, o) /\ ~rows[i].is.manual THEN "CONFLICTING" ELSE rows[i].status
  ELSE IF ChosenDates(rows, o) # {}
    THEN IF i \in Superseded(rows, o) THEN "SUPERSEDED"
         ELSE IF i \in Credible(rows, o) THEN "CONFIRMED" ELSE rows[i].status
  ELSE IF rows[i].status \in {"SUPERSEDED", "CONFLICTING"} THEN rows[i].status ELSE "POSSIBLE"

(* confirmed_canonical: the groups that chose a date in this pass.         *)
Publishing(rows) ==
  {o \in Offers : SelectedOffer(rows, o) /\ Disputed(rows, o) = {} /\ ChosenDates(rows, o) # {}}

(* The row with the earliest date of those, as they are now.               *)
Premieres(published, rowsNow) ==
  IF published = {} THEN {premiere}
  ELSE {{o} : o \in {p \in published : \A q \in published : rowsNow[p].date <= rowsNow[q].date}}

(* reconcile: every group of rows, in one transaction.                     *)
Reconcile(rows) ==
  /\ evidence' = [i \in DOMAIN rows |-> [rows[i] EXCEPT !.status = StatusIn(rows, i)]]
  /\ canon' = [o \in Offers |-> Canonised(rows, o)]
  /\ decided' = [o \in Offers |-> StateAfter(rows, o)]
  /\ premiere' \in Premieres(Publishing(rows), canon')
  /\ issue' = (\E o \in Offers : Disputed(rows, o) # {})
  /\ settled' = TRUE /\ scanned' = FALSE
  /\ UNCHANGED date

(* evaluate_movie gives the queue row the answer of reconcile: a dispute,  *)
(* a confirmed date, or the state of the first group, which may be in      *)
(* doubt without a dispute.                                                *)
Flags(states, dispute) ==
  IF dispute THEN {TRUE}
  ELSE IF states = {} \/ states \cap Confirmed # {} THEN {FALSE}
  ELSE {s = "CONFLICTING" : s \in states}

Evaluate(rows) ==
  /\ Reconcile(rows)
  /\ flagged' \in Flags({decided'[o] : o \in Offers} \ {"NONE"}, issue')

-----------------------------------------------------------------------------
(* The operations.                                                         *)

Row(k) == [is |-> k, status |-> IF k.manual THEN "CONFIRMED" ELSE "POSSIBLE", rejected |-> FALSE]
CanRecord == Len(evidence) < MaxEvidence

(* record_evidence with allow_publication.                                 *)
RecordEvidence(k) ==
  /\ CanRecord /\ ~k.manual
  /\ Evaluate(Append(evidence, Row(k)))

(* The same while OTT_INTELLIGENCE_AUTO_PUBLICATION_ENABLED is off.        *)
CollectEvidence(k) ==
  /\ CanRecord /\ ~k.manual
  /\ evidence' = Append(evidence, Row(k))
  /\ flagged' = FALSE
  /\ settled' = FALSE /\ scanned' = FALSE
  /\ UNCHANGED <<canon, decided, premiere, issue, date>>

(* verify_ott_manually: the queue rows become CONFIRMED whatever was       *)
(* decided.                                                                *)
VerifyManually(k) ==
  /\ CanRecord /\ k.manual
  /\ Reconcile(Append(evidence, Row(k)))
  /\ flagged' = FALSE

RejectEvidence(i) ==
  Evaluate([evidence EXCEPT ![i].rejected = TRUE, ![i].status = "NEEDS_REVIEW"])

(* accept only sets trusted, which reconcile does not read.                *)
AcceptEvidence == evidence # <<>> /\ Evaluate(evidence)

(* run_weekly and the research pipeline.                                   *)
ReconcileAgain ==
  /\ Reconcile(evidence)
  /\ UNCHANGED flagged

(* _upsert_watch_providers of the metadata service: manually_verified of a *)
(* canonical row is always its lock.                                       *)
ImportProvider(o) ==
  /\ canon' = [canon EXCEPT ![o].known = TRUE,
                            ![o].shown = IF canon[o].locked \/ canon[o].verification = "CONFIRMED"
                                           THEN @ ELSE "available"]
  /\ UNCHANGED <<evidence, decided, premiere, issue, flagged, date, settled, scanned>>

(* transition_release_states, once a day.                                  *)
TransitionReleaseStates ==
  /\ canon' = [o \in Offers |->
                 IF canon[o].verification = "CONFIRMED" /\ canon[o].date # NoDate
                   THEN [canon[o] EXCEPT !.shown = ShownOn(canon[o].date)]
                   ELSE canon[o]]
  /\ UNCHANGED <<evidence, decided, premiere, issue, flagged, date, settled, scanned>>

(* ott_research takes the row of a movie it wants, and leaves it what its  *)
(* searches gave, see OttQueue.                                            *)
QueueTakes ==
  /\ flagged /\ flagged' = FALSE
  /\ UNCHANGED <<evidence, canon, decided, premiere, issue, date, settled, scanned>>

(* DataHealthService.scan writes the same issue, from the queue row.       *)
ScanHealth ==
  /\ issue' = flagged
  /\ scanned' = settled
  /\ UNCHANGED <<evidence, canon, decided, premiere, flagged, date, settled>>

DayPasses ==
  /\ date < MaxDate
  /\ date' = date + 1
  /\ UNCHANGED <<evidence, canon, decided, premiere, issue, flagged, settled, scanned>>

ReconNext ==
  \/ \E k \in Kinds : RecordEvidence(k) \/ CollectEvidence(k) \/ VerifyManually(k)
  \/ \E i \in DOMAIN evidence : RejectEvidence(i)
  \/ AcceptEvidence \/ ReconcileAgain
  \/ \E o \in Offers : ImportProvider(o)
  \/ TransitionReleaseStates \/ QueueTakes \/ ScanHealth
  \/ DayPasses

ReconSpec == ReconInit /\ [][ReconNext]_reconVars

-----------------------------------------------------------------------------
(* Properties.                                                             *)

Public(o) == canon[o].verification = "CONFIRMED" /\ canon[o].date # NoDate

(* A date that comes out, or changes, was earned: an administrator gave    *)
(* it, or it is the only date official sources give, or all credible       *)
(* sources give it and there are two of them.                              *)
Earned(rows, o, d) ==
  \/ \E i \in DOMAIN rows : rows[i].is.manual /\ rows[i].is.date = d /\ rows[i].is.offer = o
  \/ LET speaks == {i \in DOMAIN rows : /\ ~rows[i].rejected
                                       /\ rows[i].is.offer = o
                                       /\ rows[i].is.fact = "DATE"
                                       /\ rows[i].is.date # NoDate
                                       /\ rows[i].is.weight # "weak"}
         official == {i \in speaks : rows[i].is.weight = "official"}
         judges == IF official = {} THEN speaks ELSE official
     IN /\ judges # {}
        /\ \A i \in judges : rows[i].is.date = d
        /\ official = {} => \E i, j \in judges : rows[i].is.source # rows[j].is.source

DatesEarned ==
  [][\A o \in Offers :
       Public(o)' /\ ~(Public(o) /\ canon[o].date = canon'[o].date)
         => Earned(evidence', o, canon'[o].date)]_reconVars

(* A locked date is changed by a manual row only, and the lock is never    *)
(* lost.                                                                   *)
LockHolds ==
  [][\A o \in Offers :
       canon[o].locked =>
         /\ canon'[o].locked
         /\ canon'[o].date # canon[o].date => ByHand(evidence', o, canon'[o].date)
         /\ canon'[o].verification = "CONFIRMED"]_reconVars
=============================================================================
