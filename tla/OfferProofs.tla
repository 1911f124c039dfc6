---------------------------- MODULE OfferProofs -----------------------------
(*****************************************************************************)
(* Theorems about what is known of a movie's offers, Reconciliation and     *)
(* PublicPages, for any offers, evidence and length of the calendar, and    *)
(* about what it costs to ask for them, ProviderControl, for any number of  *)
(* callers, any limits and any threshold. A published date was earned, a    *)
(* lock holds, a dispute is hidden from every page and on record, a budget  *)
(* is kept.                                                                 *)
(*****************************************************************************)
EXTENDS PublicPages, ProviderControl, FiniteSetTheorems, TLAPS

-----------------------------------------------------------------------------
(* Reconciliation.                                                         *)
EvidenceRow == [is : Kinds, status : RowStatuses, rejected : BOOLEAN]

(* Of ReconTypeOK what the properties need, without the bound on the rows, *)
(* and that a lock is a confirmation.                                      *)
ReconTyped ==
  /\ evidence \in Seq(EvidenceRow)
  /\ canon \in [Offers -> Canonical]
  /\ settled \in BOOLEAN /\ scanned \in BOOLEAN
  /\ date \in Dates
LockIsConfirmed == \A o \in Offers : canon[o].locked => canon[o].verification = "CONFIRMED"

-----------------------------------------------------------------------------
(* What reconcile decides reads of a row its content and whether it is     *)
(* rejected, and so cannot tell rows apart that differ in their status.    *)
SameFacts(rows, news) ==
  /\ DOMAIN rows = DOMAIN news
  /\ \A i \in DOMAIN rows : rows[i].is = news[i].is /\ rows[i].rejected = news[i].rejected

LEMMA FactsDecide ==
  ASSUME NEW rows, NEW news, SameFacts(rows, news), NEW o
  PROVE  /\ Disputed(rows, o) = Disputed(news, o)
         /\ \A d : ByHand(rows, o, d) <=> ByHand(news, o, d)
         /\ \A d : Earned(rows, o, d) <=> Earned(news, o, d)
<1>1. Group(rows, o) = Group(news, o)
  BY DEF SameFacts, Group
<1>2. Credible(rows, o) = Credible(news, o)
  BY <1>1 DEF SameFacts, Credible, Group
<1>3. \A i \in Credible(rows, o) : rows[i].is = news[i].is
  BY DEF SameFacts, Credible, Group
<1>4. \A d : On(rows, o, d) = On(news, o, d)
  BY <1>2, <1>3 DEF On
<1>5. CredibleDates(rows, o) = CredibleDates(news, o)
  BY <1>2, <1>3 DEF CredibleDates
<1>6. OfficialDates(rows, o) = OfficialDates(news, o)
  BY <1>2, <1>3 DEF OfficialDates
<1>7. ManualRows(rows, o) = ManualRows(news, o)
  BY <1>2, <1>3 DEF ManualRows
<1>8. \A d : Agreed(rows, o, d) <=> Agreed(news, o, d)
  BY <1>3, <1>4 DEF Agreed, On
<1>9. ChosenDates(rows, o) = ChosenDates(news, o)
  <2>1. CASE ManualRows(rows, o) # {}
    BY <2>1, <1>3, <1>7 DEF ChosenDates, ManualRows
  <2>2. CASE ManualRows(rows, o) = {}
    BY <2>2, <1>5, <1>6, <1>7, <1>8 DEF ChosenDates
  <2> QED
    BY <2>1, <2>2
<1>10. Disputed(rows, o) = Disputed(news, o)
  BY <1>2, <1>3, <1>5, <1>6, <1>7, <1>9 DEF Disputed
<1>11. \A d : ByHand(rows, o, d) <=> ByHand(news, o, d)
  BY <1>3, <1>4 DEF ByHand, On
<1>12. \A d : Earned(rows, o, d) <=> Earned(news, o, d)
  BY DEF SameFacts, Earned
<1> QED
  BY <1>10, <1>11, <1>12

(* A date that is chosen was earned.                                       *)
LEMMA ChosenIsEarned ==
  ASSUME NEW rows, NEW o, NEW d \in ChosenDates(rows, o)
  PROVE  Earned(rows, o, d)
<1> DEFINE speaks == {i \in DOMAIN rows : /\ ~rows[i].rejected
                                         /\ rows[i].is.offer = o
                                         /\ rows[i].is.fact = "DATE"
                                         /\ rows[i].is.date # NoDate
                                         /\ rows[i].is.weight # "weak"}
           official == {i \in speaks : rows[i].is.weight = "official"}
<1>1. speaks = Credible(rows, o)
  BY DEF Credible, Group
<1>2. OfficialDates(rows, o) = {rows[i].is.date : i \in official}
  BY <1>1 DEF OfficialDates
<1>3. CASE ManualRows(rows, o) # {}
  <2>1. PICK i \in ManualRows(rows, o) : rows[i].is.date = d
    BY <1>3 DEF ChosenDates
  <2> QED
    BY <2>1 DEF ManualRows, Credible, Group, Earned
<1>4. CASE ManualRows(rows, o) = {} /\ OfficialDates(rows, o) # {}
  <2>1. OfficialDates(rows, o) = {d}
    BY <1>4 DEF ChosenDates
  <2>2. official # {} /\ \A i \in official : rows[i].is.date = d
    BY <2>1, <1>2
  <2> QED
    BY <2>2 DEF Earned
<1>5. CASE ManualRows(rows, o) = {} /\ OfficialDates(rows, o) = {}
  <2>1. CredibleDates(rows, o) = {d} /\ Agreed(rows, o, d)
    BY <1>5 DEF ChosenDates
  <2>2. official = {}
    BY <1>2, <1>5
  <2>3. \A i \in speaks : rows[i].is.date = d
    BY <1>1, <2>1 DEF CredibleDates
  <2>4. \E i, j \in speaks : rows[i].is.source # rows[j].is.source
    BY <1>1, <2>1 DEF Agreed, On
  <2> QED
    BY <2>2, <2>3, <2>4 DEF Earned
<1> QED
  BY <1>3, <1>4, <1>5

-----------------------------------------------------------------------------
(* What one group makes of its row.                                        *)
LEMMA ChosenDatesAreDates ==
  ASSUME ReconAssumption, NEW rows \in Seq(EvidenceRow), NEW o, NEW d \in ChosenDates(rows, o)
  PROVE  d \in Dates \cup {NoDate}
<1>1. \A i \in DOMAIN rows : rows[i].is.date \in Dates \cup {NoDate}
  <2>1. \A i \in DOMAIN rows : rows[i] \in EvidenceRow
    OBVIOUS
  <2> QED
    BY <2>1 DEF ReconAssumption, EvidenceRow
<1>2. \A i \in Credible(rows, o) : i \in DOMAIN rows
  BY DEF Credible, Group
<1>3. CASE ManualRows(rows, o) # {}
  BY <1>1, <1>2, <1>3 DEF ChosenDates, ManualRows
<1>4. CASE ManualRows(rows, o) = {} /\ OfficialDates(rows, o) # {}
  BY <1>1, <1>2, <1>4 DEF ChosenDates, OfficialDates
<1>5. CASE ManualRows(rows, o) = {} /\ OfficialDates(rows, o) = {}
  BY <1>1, <1>2, <1>5 DEF ChosenDates, CredibleDates
<1> QED
  BY <1>3, <1>4, <1>5

(* The row without what no property reads: as it was, in doubt, observed,  *)
(* or with the date of the group.                                          *)
LEMMA RowOfGroup ==
  ASSUME ReconAssumption, NEW rows \in Seq(EvidenceRow), NEW o \in Offers, ReconTyped
  PROVE  LET old == canon[o]
             new == Canonised(rows, o)
             same == new.date = old.date /\ new.verification = old.verification /\ new.locked = old.locked
         IN
         /\ new \in Canonical
         /\ \/ same /\ (Disputed(rows, o) = {} \/ old.locked)
            \/ ~old.locked /\ ~new.locked /\ new.verification # "CONFIRMED"
            \/ same /\ Disputed(rows, o) = {}
            \/ /\ new.date \in ChosenDates(rows, o) /\ new.verification = "CONFIRMED"
               /\ Disputed(rows, o) = {}
               /\ new.locked <=> ByHand(rows, o, new.date)
               /\ old.locked => new.locked
<1> DEFINE old == canon[o]
           new == Canonised(rows, o)
<1>1. old \in Canonical
  BY DEF ReconTyped
<1>2. Disputed(rows, o) # {} => SelectedOffer(rows, o)
  BY DEF SelectedOffer
<1>3. CASE ~SelectedOffer(rows, o)
  BY <1>1, <1>2, <1>3 DEF Canonised
<1>4. CASE SelectedOffer(rows, o) /\ Disputed(rows, o) # {}
  BY <1>1, <1>4 DEF Canonised, Canonical, ReleaseStates
<1>5. CASE SelectedOffer(rows, o) /\ Disputed(rows, o) = {} /\ ChosenDates(rows, o) # {}
  <2> DEFINE d == CHOOSE x \in ChosenDates(rows, o) : TRUE
             seen == [old EXCEPT !.known = TRUE, !.state = StateOn(d), !.shown = ShownOn(d)]
             dated == [seen EXCEPT !.date = d, !.verification = "CONFIRMED", !.locked = ByHand(rows, o, d)]
  <2>1. d \in ChosenDates(rows, o)
    BY <1>5
  <2>2. d \in Dates \cup {NoDate}
    BY <2>1, ChosenDatesAreDates
  <2>3. new = IF DateKept(rows, o, d) THEN seen ELSE dated
    BY <1>1, <1>5 DEF Canonised, Canonical
  <2>4. seen \in Canonical
    BY <1>1 DEF Canonical, StateOn, ShownOn, ReleaseStates
  <2>5. ByHand(rows, o, d) \in BOOLEAN
    BY DEF ByHand
  <2> HIDE DEF d
  <2>6. dated \in Canonical
    BY <2>4, <2>2, <2>5 DEF Canonical
  <2>7. /\ seen.date = old.date /\ seen.verification = old.verification /\ seen.locked = old.locked
        /\ dated.date = d /\ dated.verification = "CONFIRMED" /\ dated.locked = ByHand(rows, o, d)
    BY <1>1 DEF Canonical
  <2>8. old.locked /\ ~DateKept(rows, o, d) => ByHand(rows, o, d)
    BY DEF DateKept
  <2> HIDE DEF seen, dated
  <2> QED
    BY <1>5, <2>1, <2>3, <2>4, <2>6, <2>7, <2>8
<1>6. CASE SelectedOffer(rows, o) /\ Disputed(rows, o) = {} /\ ChosenDates(rows, o) = {}
  BY <1>1, <1>6 DEF Canonised, Canonical, ReleaseStates
<1> QED
  BY <1>3, <1>4, <1>5, <1>6

-----------------------------------------------------------------------------
(* The four kinds of step.                                                 *)
Reconciles == \E rows \in Seq(EvidenceRow) : Reconcile(rows)
Collects == \E row \in EvidenceRow : /\ evidence' = Append(evidence, row)
                                     /\ settled' = FALSE
                                     /\ scanned' = FALSE
                                     /\ UNCHANGED <<canon, issue, date>>
(* Only what the pages show of a row moves, or the day.                    *)
Shows == /\ UNCHANGED <<evidence, issue, settled, decided, scanned>>
         /\ date' \in Dates
         /\ canon' \in [Offers -> Canonical]
         /\ \A o \in Offers : /\ canon'[o].date = canon[o].date
                              /\ canon'[o].verification = canon[o].verification
                              /\ canon'[o].locked = canon[o].locked

(* The health scan rewrites the issue.                                     *)
Rescans == /\ scanned' = settled
           /\ UNCHANGED <<evidence, canon, decided, date, settled>>

LEMMA NewRow ==
  ASSUME NEW k \in Kinds, ReconAssumption
  PROVE  Row(k) \in EvidenceRow
BY DEF Row, EvidenceRow, RowStatuses

LEMMA StepKinds ==
  ASSUME ReconAssumption, ReconTyped, ReconNext
  PROVE  Reconciles \/ Collects \/ Shows \/ Rescans
<1>1. ASSUME NEW k \in Kinds, RecordEvidence(k) \/ CollectEvidence(k) \/ VerifyManually(k)
      PROVE  Reconciles \/ Collects
  <2>1. Append(evidence, Row(k)) \in Seq(EvidenceRow) /\ Row(k) \in EvidenceRow
    BY NewRow DEF ReconTyped
  <2> QED
    BY <1>1, <2>1 DEF RecordEvidence, CollectEvidence, VerifyManually, Evaluate, Reconciles, Collects
<1>2. ASSUME NEW i \in DOMAIN evidence, RejectEvidence(i)
      PROVE  Reconciles
  <2> DEFINE row == [evidence[i] EXCEPT !.rejected = TRUE, !.status = "NEEDS_REVIEW"]
  <2>1. evidence[i] \in EvidenceRow /\ evidence \in Seq(EvidenceRow)
    BY DEF ReconTyped
  <2>2. row \in EvidenceRow
    BY <2>1 DEF EvidenceRow, RowStatuses
  <2>3. [evidence EXCEPT ![i].rejected = TRUE, ![i].status = "NEEDS_REVIEW"] = [evidence EXCEPT ![i] = row]
    BY <2>1 DEF EvidenceRow
  <2> HIDE DEF row
  <2>4. [evidence EXCEPT ![i] = row] \in Seq(EvidenceRow)
    BY <2>1, <2>2
  <2> QED
    BY <1>2, <2>3, <2>4 DEF RejectEvidence, Evaluate, Reconciles
<1>3. ASSUME AcceptEvidence \/ ReconcileAgain
      PROVE  Reconciles
  BY <1>3 DEF AcceptEvidence, ReconcileAgain, Evaluate, Reconciles, ReconTyped
<1>4. ASSUME NEW o \in Offers, ImportProvider(o)
      PROVE  Shows
  <2>1. PICK shown \in {canon[o].shown, "available"} :
          canon' = [canon EXCEPT ![o] = [canon[o] EXCEPT !.known = TRUE, !.shown = shown]]
    BY <1>4 DEF ImportProvider, ReconTyped, Canonical
  <2>2. [canon[o] EXCEPT !.known = TRUE, !.shown = shown] \in Canonical
    <3>1. canon[o] \in Canonical
      BY DEF ReconTyped
    <3>2. shown \in {"available", "upcoming", "released"}
      BY <3>1 DEF Canonical
    <3> QED
      BY <3>1, <3>2 DEF Canonical
  <2>3. canon' \in [Offers -> Canonical]
    BY <2>1, <2>2 DEF ReconTyped
  <2>4. \A p \in Offers : /\ canon'[p].date = canon[p].date
                          /\ canon'[p].verification = canon[p].verification
                          /\ canon'[p].locked = canon[p].locked
    BY <2>1 DEF ReconTyped, Canonical
  <2> QED
    BY <1>4, <2>3, <2>4 DEF ImportProvider, Shows, ReconTyped
<1>5. ASSUME TransitionReleaseStates
      PROVE  Shows
  BY <1>5 DEF TransitionReleaseStates, ShownOn, Shows, ReconTyped, Canonical
<1>6. ASSUME DayPasses
      PROVE  Shows
  BY <1>6 DEF DayPasses, Shows, ReconTyped, Dates, ReconAssumption
<1>7. ASSUME QueueTakes
      PROVE  Shows
  BY <1>7 DEF QueueTakes, Shows, ReconTyped
<1>8. ASSUME ScanHealth
      PROVE  Rescans
  BY <1>8 DEF ScanHealth, Rescans
<1> QED
  BY <1>1, <1>2, <1>3, <1>4, <1>5, <1>6, <1>7, <1>8 DEF ReconNext

(* After a reconciliation the facts are those it looked at.                *)
LEMMA Reconciled ==
  ASSUME NEW rows \in Seq(EvidenceRow), Reconcile(rows)
  PROVE  /\ evidence' \in Seq(EvidenceRow)
         /\ SameFacts(rows, evidence')
         /\ canon' = [o \in Offers |-> Canonised(rows, o)]
         /\ issue' = (\E o \in Offers : Disputed(rows, o) # {})
         /\ decided' = [o \in Offers |-> StateAfter(rows, o)]
         /\ settled' = TRUE /\ scanned' = FALSE /\ date' = date
<1>1. \A i \in DOMAIN rows : rows[i] \in EvidenceRow
  OBVIOUS
<1>2. \A i \in DOMAIN rows : StatusIn(rows, i) \in RowStatuses
  BY <1>1 DEF StatusIn, RowStatuses, EvidenceRow
<1>3. evidence' = [i \in DOMAIN rows |-> [rows[i] EXCEPT !.status = StatusIn(rows, i)]]
  BY DEF Reconcile
<1>4. \A i \in DOMAIN rows :
        /\ [rows[i] EXCEPT !.status = StatusIn(rows, i)] \in EvidenceRow
        /\ [rows[i] EXCEPT !.status = StatusIn(rows, i)].is = rows[i].is
        /\ [rows[i] EXCEPT !.status = StatusIn(rows, i)].rejected = rows[i].rejected
  BY <1>1, <1>2 DEF EvidenceRow
<1>5. DOMAIN rows = 1 .. Len(rows) /\ Len(rows) \in Nat
  OBVIOUS
<1>6. evidence' \in Seq(EvidenceRow)
  BY <1>3, <1>4, <1>5
<1>7. SameFacts(rows, evidence')
  BY <1>3, <1>4 DEF SameFacts
<1> QED
  BY <1>6, <1>7 DEF Reconcile

-----------------------------------------------------------------------------
(* The invariant: types, and no lock without a confirmation.               *)
ReconInv == ReconTyped /\ LockIsConfirmed

LEMMA ReconInvAtFirst == ASSUME ReconAssumption PROVE ReconInit => ReconInv
<1>1. ReconInit => canon \in [Offers -> Canonical] /\ LockIsConfirmed
  BY DEF ReconInit, LockIsConfirmed, Canonical, ReleaseStates
<1>2. <<>> \in Seq(EvidenceRow)
  OBVIOUS
<1>3. 0 \in Dates
  BY DEF ReconAssumption, Dates
<1> QED
  BY <1>1, <1>2, <1>3 DEF ReconInit, ReconInv, ReconTyped

LEMMA ReconInvStep ==
  ASSUME ReconAssumption
  PROVE  ReconInv /\ [ReconNext]_reconVars => ReconInv'
<1> SUFFICES ASSUME ReconInv, [ReconNext]_reconVars
             PROVE  ReconInv'
  OBVIOUS
<1>1. ASSUME Reconciles
      PROVE  ReconInv'
  <2>1. PICK rows \in Seq(EvidenceRow) : Reconcile(rows)
    BY <1>1 DEF Reconciles
  <2>2. /\ evidence' \in Seq(EvidenceRow) /\ settled' = TRUE /\ scanned' = FALSE /\ date' = date
        /\ canon' = [o \in Offers |-> Canonised(rows, o)]
    BY <2>1, Reconciled
  <2>3. ReconTyped'
    BY <2>2, RowOfGroup DEF ReconInv, ReconTyped
  <2>4. LockIsConfirmed'
    BY <2>2, RowOfGroup DEF ReconInv, LockIsConfirmed
  <2> QED
    BY <2>3, <2>4 DEF ReconInv
<1>2. ASSUME Collects
      PROVE  ReconInv'
  <2>1. PICK row \in EvidenceRow : evidence' = Append(evidence, row)
    BY <1>2 DEF Collects
  <2>2. evidence' \in Seq(EvidenceRow)
    BY <2>1 DEF ReconInv, ReconTyped
  <2>3. settled' = FALSE /\ scanned' = FALSE /\ UNCHANGED <<canon, issue, date>>
    BY <1>2 DEF Collects
  <2> QED
    BY <2>2, <2>3 DEF ReconInv, ReconTyped, LockIsConfirmed
<1>3. ASSUME Shows
      PROVE  ReconInv'
  BY <1>3 DEF Shows, ReconInv, ReconTyped, LockIsConfirmed
<1>4. ASSUME Rescans
      PROVE  ReconInv'
  BY <1>4 DEF Rescans, ReconInv, ReconTyped, LockIsConfirmed
<1>5. CASE UNCHANGED reconVars
  BY <1>5 DEF reconVars, ReconInv, ReconTyped, LockIsConfirmed
<1> QED
  BY <1>1, <1>2, <1>3, <1>4, <1>5, StepKinds DEF ReconInv

(* A step changes a date that is or comes out only to one it earned.       *)
LEMMA EarnedStep ==
  ASSUME ReconAssumption, ReconInv, ReconNext, NEW o \in Offers,
         Public(o)', ~(Public(o) /\ canon[o].date = canon'[o].date)
  PROVE  Earned(evidence', o, canon'[o].date)
<1>1. canon'[o].verification = "CONFIRMED" /\ canon'[o].date # NoDate
  BY DEF Public
<1>2. ~(canon'[o].date = canon[o].date /\ canon'[o].verification = canon[o].verification)
  BY <1>1 DEF Public
<1>3. PICK rows \in Seq(EvidenceRow) : Reconcile(rows)
  BY <1>2, StepKinds DEF ReconInv, Reconciles, Collects, Shows, Rescans
<1>4. canon'[o] = Canonised(rows, o) /\ SameFacts(rows, evidence')
  <2>1. canon' = [p \in Offers |-> Canonised(rows, p)] /\ SameFacts(rows, evidence')
    BY <1>3, Reconciled
  <2> QED
    BY <2>1
<1>5. canon'[o].date \in ChosenDates(rows, o)
  BY <1>1, <1>2, <1>4, RowOfGroup DEF ReconInv
<1>6. Earned(rows, o, canon'[o].date)
  BY <1>5, ChosenIsEarned
<1> QED
  BY <1>4, <1>6, FactsDecide

(* An OTT date is published or changed only on evidence that earned it     *)
(* (reconcile).                                                            *)
THEOREM DatesAreEarned == ReconSpec => DatesEarned
<1>1. ReconInit => ReconInv
  BY ReconInvAtFirst, ReconAssumption
<1>2. ReconInv /\ [ReconNext]_reconVars => ReconInv'
  BY ReconInvStep, ReconAssumption
<1>3. ReconInv /\ [ReconNext]_reconVars =>
        [\A o \in Offers :
           Public(o)' /\ ~(Public(o) /\ canon[o].date = canon'[o].date)
             => Earned(evidence', o, canon'[o].date)]_reconVars
  BY EarnedStep, ReconAssumption
<1> QED
  BY <1>1, <1>2, <1>3, PTL DEF ReconSpec, DatesEarned

(* A step keeps a lock, and moves a locked date to that of a manual row.   *)
LEMMA LockStep ==
  ASSUME ReconAssumption, ReconInv, ReconNext, NEW o \in Offers, canon[o].locked
  PROVE  /\ canon'[o].locked
         /\ canon'[o].date # canon[o].date => ByHand(evidence', o, canon'[o].date)
         /\ canon'[o].verification = "CONFIRMED"
<1>1. canon[o].verification = "CONFIRMED"
  BY DEF ReconInv, LockIsConfirmed
<1>2. ASSUME NEW rows \in Seq(EvidenceRow), Reconcile(rows)
      PROVE  /\ canon'[o].locked
             /\ canon'[o].date # canon[o].date => ByHand(evidence', o, canon'[o].date)
             /\ canon'[o].verification = "CONFIRMED"
  <2>1. canon'[o] = Canonised(rows, o) /\ SameFacts(rows, evidence')
    BY <1>2, Reconciled
  <2>2. /\ canon'[o].locked
        /\ canon'[o].date # canon[o].date => ByHand(rows, o, canon'[o].date)
        /\ canon'[o].verification = "CONFIRMED"
    BY <1>1, <2>1, RowOfGroup DEF ReconInv
  <2> QED
    BY <2>1, <2>2, FactsDecide
<1>3. Collects \/ Shows \/ Rescans =>
        canon'[o].date = canon[o].date /\ canon'[o].locked /\ canon'[o].verification = "CONFIRMED"
  BY <1>1 DEF Collects, Shows, Rescans
<1> QED
  BY <1>2, <1>3, StepKinds DEF ReconInv, Reconciles

(* A date an administrator gave is not undone by anything automatic        *)
(* (locked_by_admin in reconcile).                                         *)
THEOREM LocksHold == ReconSpec => LockHolds
<1>1. ReconInit => ReconInv
  BY ReconInvAtFirst, ReconAssumption
<1>2. ReconInv /\ [ReconNext]_reconVars => ReconInv'
  BY ReconInvStep, ReconAssumption
<1>3. ReconInv /\ [ReconNext]_reconVars =>
        [\A o \in Offers :
           canon[o].locked =>
             /\ canon'[o].locked
             /\ canon'[o].date # canon[o].date => ByHand(evidence', o, canon'[o].date)
             /\ canon'[o].verification = "CONFIRMED"]_reconVars
  BY LockStep, ReconAssumption
<1> QED
  BY <1>1, <1>2, <1>3, PTL DEF ReconSpec, LockHolds

-----------------------------------------------------------------------------
(* Once reconciled, the decision on record and, until a health scan, the   *)
(* issue say what the evidence says, and the row of a disputed offer is in *)
(* doubt or locked.                                                        *)
DisputesMarked ==
  settled =>
    /\ \A o \in Offers : Disputed(evidence, o) # {} =>
         decided[o] = "CONFLICTING" /\ (canon[o].locked \/ canon[o].verification # "CONFIRMED")
    /\ ~scanned => (issue <=> \E o \in Offers : Disputed(evidence, o) # {})

LEMMA MarkedStep ==
  ASSUME ReconAssumption
  PROVE  ReconInv /\ DisputesMarked /\ [ReconNext]_reconVars => DisputesMarked'
<1> SUFFICES ASSUME ReconInv, DisputesMarked, [ReconNext]_reconVars
             PROVE  DisputesMarked'
  OBVIOUS
<1>1. ASSUME Reconciles
      PROVE  DisputesMarked'
  <2>1. PICK rows \in Seq(EvidenceRow) : Reconcile(rows)
    BY <1>1 DEF Reconciles
  <2>2. /\ \A o \in Offers : canon'[o] = Canonised(rows, o) /\ decided'[o] = StateAfter(rows, o)
        /\ SameFacts(rows, evidence')
        /\ issue' = (\E o \in Offers : Disputed(rows, o) # {})
    BY <2>1, Reconciled
  <2>3. \A o \in Offers : Disputed(evidence', o) = Disputed(rows, o)
    BY <2>2, FactsDecide
  <2>4. \A o \in Offers : Disputed(rows, o) # {} => canon'[o].locked \/ canon'[o].verification # "CONFIRMED"
    BY <2>2, RowOfGroup DEF ReconInv
  <2>5. \A o \in Offers : Disputed(rows, o) # {} => decided'[o] = "CONFLICTING"
    BY <2>2 DEF StateAfter, SelectedOffer
  <2> QED
    BY <2>2, <2>3, <2>4, <2>5 DEF DisputesMarked
<1>2. ASSUME Collects
      PROVE  DisputesMarked'
  BY <1>2 DEF Collects, DisputesMarked
<1>3. ASSUME Shows
      PROVE  DisputesMarked'
  BY <1>3 DEF Shows, DisputesMarked
<1>4. ASSUME Rescans
      PROVE  DisputesMarked'
  BY <1>4 DEF Rescans, DisputesMarked
<1>5. CASE UNCHANGED reconVars
  BY <1>5 DEF reconVars, DisputesMarked
<1> QED
  BY <1>1, <1>2, <1>3, <1>4, <1>5, StepKinds DEF ReconInv

(* A page dates an offer, or lists the movie for it, only if its row is    *)
(* confirmed.                                                              *)
LEMMA DatedIsConfirmed ==
  ASSUME NEW sure \in SUBSET Offers, NEW o \in DatedOffers(sure)
  PROVE  o \in Offers /\ canon[o].verification = "CONFIRMED"
<1>1. o \in DOMAIN DetailList /\ DetailList[o] # NoDate => o \in Offers /\ IsConfirmed(o)
  BY DEF DetailList
<1>2. o \in Calendar(sure) \cup CardOffers(sure) => o \in Offers /\ IsConfirmed(o)
  BY DEF Calendar, CardOffers, ConfirmedCanonical
<1>3. o \in Home.upcoming \cup Home.recent => o \in Offers /\ IsConfirmed(o)
  BY DEF Home, HomeOffers
<1>4. o \in OttLanding.upcoming \cup OttLanding.recent => o \in Offers /\ IsConfirmed(o)
  BY DEF OttLanding
<1>5. o \in Offers /\ (OttPlatform(o).upcoming \/ OttPlatform(o).recent) => IsConfirmed(o)
  BY DEF OttPlatform
<1> QED
  BY <1>1, <1>2, <1>3, <1>4, <1>5 DEF DatedOffers, IsConfirmed

(* A dispute among credible sources is on record and no page shows its     *)
(* date, whatever evidence, whatever offers and pages (reconcile,          *)
(* public.py).                                                             *)
THEOREM DisputesHidden == ReconSpec => []DisputeHidden
<1>1. ReconInit => ReconInv
  BY ReconInvAtFirst, ReconAssumption
<1>2. ReconInit => DisputesMarked
  BY DEF ReconInit, DisputesMarked, Disputed, Credible, Group, ManualRows, CredibleDates, OfficialDates
<1>3. ReconInv /\ [ReconNext]_reconVars => ReconInv'
  BY ReconInvStep, ReconAssumption
<1>4. ReconInv /\ DisputesMarked /\ [ReconNext]_reconVars => DisputesMarked'
  BY MarkedStep, ReconAssumption
<1>5. DisputesMarked => DisputeHidden
  BY DatedIsConfirmed DEF DisputesMarked, DisputeHidden
<1> QED
  BY <1>1, <1>2, <1>3, <1>4, <1>5, PTL DEF ReconSpec

-----------------------------------------------------------------------------
(* The rest of the types: the bound on the rows, and the columns that no   *)
(* other property needs typed.                                             *)
ReconBound ==
  /\ Len(evidence) <= MaxEvidence
  /\ decided \in [Offers -> ReleaseStates \cup {"NONE"}]
  /\ premiere \subseteq Offers
  /\ issue \in BOOLEAN /\ flagged \in BOOLEAN

LEMMA ReconcileBound ==
  ASSUME ReconAssumption, ReconInv, ReconBound, NEW rows \in Seq(EvidenceRow),
         Len(rows) <= MaxEvidence, Reconcile(rows)
  PROVE  /\ Len(evidence') <= MaxEvidence
         /\ decided' \in [Offers -> ReleaseStates \cup {"NONE"}]
         /\ premiere' \subseteq Offers
         /\ issue' \in BOOLEAN
<1>1. Len(evidence') = Len(rows)
  <2>1. evidence' \in Seq(EvidenceRow) /\ DOMAIN rows = DOMAIN evidence'
    BY Reconciled DEF SameFacts
  <2> QED
    BY <2>1
<1>2. \A o \in Offers : StateAfter(rows, o) \in ReleaseStates \cup {"NONE"}
  <2> SUFFICES ASSUME NEW o \in Offers PROVE StateAfter(rows, o) \in ReleaseStates \cup {"NONE"}
    OBVIOUS
  <2>1. Canonised(rows, o) \in Canonical
    BY RowOfGroup DEF ReconInv
  <2>2. Canonised(rows, o).state \in ReleaseStates
    BY <2>1 DEF Canonical
  <2>3. "CONFLICTING" \in ReleaseStates
    BY DEF ReleaseStates
  <2> QED
    BY <2>2, <2>3 DEF StateAfter
<1>3. premiere' \subseteq Offers
  BY DEF Reconcile, Premieres, Publishing, ReconBound
<1>4. issue' \in BOOLEAN
  BY DEF Reconcile
<1>5. decided' = [o \in Offers |-> StateAfter(rows, o)]
  BY DEF Reconcile
<1>6. decided' \in [Offers -> ReleaseStates \cup {"NONE"}]
  BY <1>2, <1>5
<1> QED
  BY <1>1, <1>3, <1>4, <1>6

LEMMA EvaluateBound ==
  ASSUME ReconAssumption, ReconInv, ReconBound, NEW rows \in Seq(EvidenceRow),
         Len(rows) <= MaxEvidence, Evaluate(rows)
  PROVE  ReconBound'
<1>1. flagged' \in BOOLEAN
  BY DEF Evaluate, Flags
<1> QED
  BY <1>1, ReconcileBound DEF Evaluate, ReconBound

LEMMA ReconBoundStep ==
  ASSUME ReconAssumption
  PROVE  ReconInv /\ ReconBound /\ [ReconNext]_reconVars => ReconBound'
<1> SUFFICES ASSUME ReconInv, ReconBound, [ReconNext]_reconVars
             PROVE  ReconBound'
  OBVIOUS
<1>1. evidence \in Seq(EvidenceRow) /\ Len(evidence) <= MaxEvidence
  BY DEF ReconInv, ReconTyped, ReconBound
<1>2. ASSUME NEW k \in Kinds, RecordEvidence(k) \/ CollectEvidence(k) \/ VerifyManually(k)
      PROVE  ReconBound'
  <2> DEFINE rows == Append(evidence, Row(k))
  <2>1. rows \in Seq(EvidenceRow) /\ Len(rows) <= MaxEvidence
    <3>1. Len(evidence) < MaxEvidence
      BY <1>2 DEF RecordEvidence, CollectEvidence, VerifyManually, CanRecord
    <3> QED
      BY <1>1, <3>1, NewRow DEF ReconAssumption
  <2>2. RecordEvidence(k) => Evaluate(rows)
    BY DEF RecordEvidence
  <2>3. VerifyManually(k) => Reconcile(rows) /\ flagged' = FALSE
    BY DEF VerifyManually
  <2>4. CollectEvidence(k) => evidence' = rows /\ flagged' = FALSE /\ UNCHANGED <<decided, premiere, issue>>
    BY DEF CollectEvidence
  <2> HIDE DEF rows
  <2> QED
    BY <1>2, <2>1, <2>2, <2>3, <2>4, EvaluateBound, ReconcileBound DEF ReconBound
<1>3. ASSUME NEW i \in DOMAIN evidence, RejectEvidence(i)
      PROVE  ReconBound'
  <2> DEFINE row == [evidence[i] EXCEPT !.rejected = TRUE, !.status = "NEEDS_REVIEW"]
             rows == [evidence EXCEPT ![i] = row]
  <2>1. evidence[i] \in EvidenceRow
    BY <1>1
  <2>2. row \in EvidenceRow
    BY <2>1 DEF EvidenceRow, RowStatuses
  <2>3. [evidence EXCEPT ![i].rejected = TRUE, ![i].status = "NEEDS_REVIEW"] = rows
    BY <1>1, <2>1 DEF EvidenceRow
  <2>4. Evaluate(rows)
    BY <1>3, <2>3 DEF RejectEvidence
  <2> HIDE DEF row
  <2>5. rows \in Seq(EvidenceRow) /\ Len(rows) <= MaxEvidence
    BY <1>1, <2>2
  <2> HIDE DEF rows
  <2> QED
    BY <2>4, <2>5, EvaluateBound
<1>4. ASSUME AcceptEvidence \/ ReconcileAgain
      PROVE  ReconBound'
  BY <1>1, <1>4, EvaluateBound, ReconcileBound DEF AcceptEvidence, ReconcileAgain, ReconBound
<1>5. ASSUME \/ \E o \in Offers : ImportProvider(o)
             \/ TransitionReleaseStates \/ QueueTakes \/ ScanHealth \/ DayPasses
      PROVE  ReconBound'
  BY <1>5 DEF ImportProvider, TransitionReleaseStates, QueueTakes, ScanHealth, DayPasses, ReconBound
<1>6. CASE UNCHANGED reconVars
  BY <1>6 DEF reconVars, ReconBound
<1> QED
  BY <1>2, <1>3, <1>4, <1>5, <1>6 DEF ReconNext

(* Rows, decisions, issue and flag keep their types, for any evidence and  *)
(* calendar (reconcile and the operations around it).                      *)
THEOREM ReconTypesHold == ReconSpec => []ReconTypeOK
<1>1. ReconInit => ReconInv
  BY ReconInvAtFirst, ReconAssumption
<1>2. ReconInit => ReconBound
  <2> SUFFICES ASSUME ReconInit PROVE ReconBound
    OBVIOUS
  <2>1. evidence = <<>> /\ 0 <= MaxEvidence
    BY ReconAssumption DEF ReconInit
  <2>2. Len(evidence) = 0
    BY <2>1
  <2> QED
    BY <2>1, <2>2 DEF ReconInit, ReconBound
<1>3. ReconInv /\ [ReconNext]_reconVars => ReconInv'
  BY ReconInvStep, ReconAssumption
<1>4. ReconInv /\ ReconBound /\ [ReconNext]_reconVars => ReconBound'
  BY ReconBoundStep, ReconAssumption
<1>5. ReconInv /\ ReconBound => ReconTypeOK
  <2> SUFFICES ASSUME ReconInv, ReconBound PROVE ReconTypeOK
    OBVIOUS
  <2>1. evidence \in Seq(EvidenceRow)
    BY DEF ReconInv, ReconTyped
  <2>2. DOMAIN evidence = 1 .. Len(evidence) /\ \A i \in DOMAIN evidence : evidence[i] \in EvidenceRow
    BY <2>1
  <2> QED
    BY <2>2 DEF EvidenceRow, ReconInv, ReconTyped, ReconBound, ReconTypeOK
<1> QED
  BY <1>1, <1>2, <1>3, <1>4, <1>5, PTL DEF ReconSpec

-----------------------------------------------------------------------------
(* The metered provider.                                                   *)

(* The refresh of a movie moves one caller; the rest of the row of callers *)
(* stays.                                                                  *)
CallerStep(w) ==
  \/ \E m \in Wanted : ServeCached(w, m) \/ Look(w, m)
  \/ FindNoPeriod(w) \/ Reserve(w) \/ Exhausted(w) \/ InsertRefused(w)
  \/ \E a \in ProviderAnswers : Succeed(w, a)
  \/ Fail(w) \/ Store(w) \/ Die(w)

-----------------------------------------------------------------------------
(* The holder of the period rows is the one caller at a call, and every    *)
(* call is debited, under way, or lost with its process: this is what      *)
(* bounds the counters and, with the limits, the calls.                    *)

Pending == IF rowLock = NoCaller THEN 0 ELSE 1

LockIsCall == \A w \in Callers : Is(w, "call") <=> rowLock = w

CallsCounted ==
  /\ calls.today = day.used + Pending + calls.lostToday
  /\ calls.month = month.used + Pending + calls.lostMonth

Counters ==
  /\ CallsCounted
  /\ calls.today <= calls.month /\ strays <= calls.month
  /\ health.failures <= month.used

LimitsKept ==
  /\ DailyLimit # 0 => day.used + Pending <= DailyLimit
  /\ MonthlyLimit # 0 => month.used + Pending <= MonthlyLimit

(* What a caller carries: a copy of health no newer than the row, a movie. *)
Carried ==
  \A w \in Callers : /\ caller[w].seen.failures <= month.used
                     /\ caller[w].pc # "idle" => caller[w].movie \in Wanted

ControlInv == ControlTypeOK /\ LockIsCall /\ Counters /\ Carried /\ LimitsKept

Pcs == {"idle", "reserve", "insert", "call", "empty", "some"}
CallerRow == [pc : Pcs, movie : Wanted \cup {"none"}, seen : Health]

(* What the two ways to move one caller leave behind.                      *)
LEMMA BecomeMoves ==
  ASSUME ControlTypeOK, NEW w \in Callers, NEW pc \in Pcs, Become(w, pc)
  PROVE  /\ caller' \in [Callers -> CallerRow]
         /\ \A v \in Callers : /\ caller'[v].pc = IF v = w THEN pc ELSE caller[v].pc
                               /\ caller'[v].seen = caller[v].seen
                               /\ caller'[v].movie = caller[v].movie
BY DEF ControlTypeOK, Become, CallerRow, Pcs

LEMMA NoFailures == [failures |-> 0, pause |-> "none"] \in Health
BY ControlAssumption DEF Health, Pauses

LEMMA DoneMoves ==
  ASSUME ControlTypeOK, NEW w \in Callers, Done(w)
  PROVE  /\ caller' \in [Callers -> CallerRow]
         /\ \A v \in Callers :
              /\ caller'[v].pc = IF v = w THEN "idle" ELSE caller[v].pc
              /\ v = w => caller'[v].seen.failures = 0
              /\ v # w => caller'[v] = caller[v]
<1>1. Idle \in CallerRow /\ Idle.pc = "idle" /\ Idle.seen.failures = 0
  BY NoFailures DEF Idle, CallerRow, Pcs
<1> QED
  BY <1>1 DEF ControlTypeOK, Done, CallerRow, Pcs

LEMMA ControlInvInit == ControlInit => ControlInv
<1> SUFFICES ASSUME ControlInit PROVE ControlInv
  OBVIOUS
<1>1. Idle \in CallerRow /\ Idle.pc = "idle" /\ Idle.seen.failures = 0
  BY NoFailures DEF Idle, CallerRow, Pcs
<1>2. ControlTypeOK
  BY <1>1, NoFailures, ControlAssumption DEF ControlInit, ControlTypeOK, CallerRow, Pcs
<1>3. LockIsCall
  BY <1>1, ControlAssumption DEF ControlInit, LockIsCall, Is
<1>4. Counters /\ Carried /\ LimitsKept
  BY <1>1, ControlAssumption DEF ControlInit, Counters, CallsCounted, Carried, LimitsKept, Pending
<1> QED
  BY <1>2, <1>3, <1>4 DEF ControlInv

(* Steps that touch neither a period row nor the number of calls.          *)
Quiet(w) ==
  \/ \E m \in Wanted : ServeCached(w, m) \/ Look(w, m)
  \/ FindNoPeriod(w) \/ InsertRefused(w) \/ Store(w)

LEMMA QuietStep == ASSUME ControlInv, NEW w \in Callers, Quiet(w) PROVE ControlInv'
<1> USE DEF ControlInv
<1>0. UNCHANGED <<health, day, month, rowLock, today, calls, strays>>
  BY DEF Quiet, ServeCached, Look, FindNoPeriod, InsertRefused, Store
<1>1. Counters' /\ LimitsKept'
  BY <1>0 DEF Counters, CallsCounted, LimitsKept, Pending
<1>2. cache' \in [Wanted -> {"NONE"} \cup ProviderAnswers] /\ absent' \subseteq Wanted
  <2>1. CASE \E m \in Wanted : ServeCached(w, m)
    BY <2>1 DEF ServeCached, ControlTypeOK
  <2>2. CASE Store(w)
    <3>1. caller[w].pc \in ProviderAnswers /\ caller[w].movie \in Wanted \cup {"none"}
      BY <2>2 DEF Store, ControlTypeOK
    <3>2. caller[w].movie \in Wanted
      BY <3>1 DEF Carried, ProviderAnswers
    <3> QED
      BY <2>2, <3>1, <3>2 DEF Store, ControlTypeOK
  <2>3. CASE (\E m \in Wanted : Look(w, m)) \/ FindNoPeriod(w) \/ InsertRefused(w)
    BY <2>3 DEF Look, FindNoPeriod, InsertRefused, ControlTypeOK
  <2> QED
    BY <2>1, <2>2, <2>3 DEF Quiet
<1>3. ASSUME caller' \in [Callers -> CallerRow],
             \A v \in Callers : /\ caller'[v].pc = "call" <=> caller[v].pc = "call"
                                /\ caller'[v].seen.failures <= month.used
                                /\ caller'[v].pc # "idle" => caller'[v].movie \in Wanted
      PROVE  ControlInv'
  <2>1. ControlTypeOK'
    BY <1>0, <1>2, <1>3 DEF ControlTypeOK, CallerRow, Pcs
  <2>2. LockIsCall' /\ Carried'
    BY <1>0, <1>3 DEF LockIsCall, Is, Carried
  <2> QED
    BY <1>1, <2>1, <2>2
<1>4. CASE \E m \in Wanted : ServeCached(w, m)
  <2>1. caller' = caller
    BY <1>4 DEF ServeCached
  <2> QED
    BY <1>3, <2>1 DEF ControlTypeOK, CallerRow, Pcs, Carried
<1>5. CASE \E m \in Wanted : Look(w, m)
  <2>1. PICK m \in Wanted : Look(w, m)
    BY <1>5
  <2>2. [pc |-> "reserve", movie |-> m, seen |-> health] \in CallerRow
    BY DEF ControlTypeOK, CallerRow, Pcs
  <2>3. caller' \in [Callers -> CallerRow]
    BY <2>1, <2>2 DEF Look, ControlTypeOK, CallerRow, Pcs
  <2> QED
    BY <1>3, <2>1, <2>3 DEF Look, Is, ControlTypeOK, Carried, Counters
<1>6. CASE FindNoPeriod(w)
  <2>1. Become(w, "insert") /\ Is(w, "reserve")
    BY <1>6 DEF FindNoPeriod
  <2> QED
    BY <1>3, <2>1, BecomeMoves DEF Pcs, Is, Carried
<1>7. CASE InsertRefused(w) \/ Store(w)
  <2>1. Done(w) /\ ~Is(w, "call")
    BY <1>7 DEF InsertRefused, Store, Is, ProviderAnswers
  <2>2. 0 <= month.used
    BY DEF ControlTypeOK
  <2> QED
    BY <1>3, <2>1, <2>2, DoneMoves DEF Is, Carried
<1> QED
  BY <1>4, <1>5, <1>6, <1>7 DEF Quiet

(* The counters of a typed state stay below the bound, since a call is     *)
(* reserved below it.                                                      *)
LEMMA ReserveStep == ASSUME ControlInv, NEW w \in Callers, Reserve(w) PROVE ControlInv'
<1> USE DEF ControlInv
<1>1. /\ rowLock = NoCaller /\ rowLock' = w /\ w # NoCaller
      /\ Become(w, "call") /\ ~Is(w, "idle")
      /\ calls.month < MaxCalls
      /\ calls' = [calls EXCEPT !.today = @ + 1, !.month = @ + 1]
      /\ strays' \in {strays, strays + 1}
      /\ UNCHANGED <<health, day, month, cache, absent, today>>
  BY ControlAssumption DEF Reserve, RowsFree, Is
<1>2. /\ caller' \in [Callers -> CallerRow]
      /\ \A v \in Callers : /\ caller'[v].pc = IF v = w THEN "call" ELSE caller[v].pc
                            /\ caller'[v].seen = caller[v].seen
                            /\ caller'[v].movie = caller[v].movie
  BY <1>1, BecomeMoves DEF Pcs
<1>3. /\ calls'.today = calls.today + 1 /\ calls'.month = calls.month + 1
      /\ calls'.lostToday = calls.lostToday /\ calls'.lostMonth = calls.lostMonth
      /\ calls.today <= calls.month /\ strays <= calls.month
  BY <1>1 DEF ControlTypeOK, Counters
<1>4. ControlTypeOK'
  <2>1. calls.today + 1 \in 0 .. MaxCalls /\ calls.month + 1 \in 0 .. MaxCalls
    BY <1>1, <1>3, ControlAssumption DEF ControlTypeOK
  <2>2. calls' \in [today : 0 .. MaxCalls, month : 0 .. MaxCalls,
                    lostToday : 0 .. MaxCalls, lostMonth : 0 .. MaxCalls]
    BY <1>1, <2>1 DEF ControlTypeOK
  <2>3. strays' \in 0 .. MaxCalls
    BY <1>1, <1>3, ControlAssumption DEF ControlTypeOK
  <2> QED
    BY <1>1, <1>2, <2>2, <2>3 DEF ControlTypeOK, CallerRow, Pcs
<1>5. LockIsCall'
  <2>1. \A v \in Callers : caller[v].pc # "call"
    BY <1>1, ControlAssumption DEF LockIsCall, Is
  <2> QED
    BY <1>1, <1>2, <2>1 DEF LockIsCall, Is
<1>6. Counters'
  BY <1>1, <1>3 DEF Counters, CallsCounted, Pending, ControlTypeOK
<1>7. Carried'
  BY <1>1, <1>2 DEF Carried, Is
<1>8. LimitsKept'
  <2>1. ~Spent
    BY DEF Reserve
  <2>2. Pending' = 1 /\ day'.used = day.used /\ month'.used = month.used
    BY <1>1 DEF Pending
  <2> QED
    BY <2>1, <2>2, ControlAssumption DEF Spent, LimitsKept, ControlTypeOK
<1> QED
  BY <1>4, <1>5, <1>6, <1>7, <1>8

LEMMA ExhaustedStep == ASSUME ControlInv, NEW w \in Callers, Exhausted(w) PROVE ControlInv'
<1> USE DEF ControlInv
<1>1. /\ Done(w) /\ ~Is(w, "call")
      /\ day' = [day EXCEPT !.exists = TRUE] /\ month' = [month EXCEPT !.exists = TRUE]
      /\ UNCHANGED <<health, rowLock, cache, absent, today, calls, strays>>
  BY DEF Exhausted, Is
<1>2. day'.used = day.used /\ month'.used = month.used
  BY <1>1 DEF ControlTypeOK
<1>3. ControlTypeOK'
  BY <1>1, DoneMoves DEF ControlTypeOK, CallerRow, Pcs
<1>4. LockIsCall' /\ Carried'
  BY <1>1, <1>2, DoneMoves DEF LockIsCall, Carried, Is, ControlTypeOK
<1>5. Counters' /\ LimitsKept'
  BY <1>1, <1>2 DEF Counters, CallsCounted, LimitsKept, Pending
<1> QED
  BY <1>3, <1>4, <1>5

(* The commit after a call turns what was pending into a debit.            *)
LEMMA DebitCounts ==
  ASSUME ControlInv, NEW w \in Callers, Is(w, "call"), Debit, UNCHANGED calls
  PROVE  /\ rowLock = w /\ rowLock' = NoCaller
         /\ day' \in [exists : BOOLEAN, used : 0 .. MaxCalls]
         /\ month' \in [exists : BOOLEAN, used : 0 .. MaxCalls]
         /\ month'.used = month.used + 1
         /\ CallsCounted' /\ LimitsKept'
<1> USE DEF ControlInv
<1>1. rowLock = w /\ w # NoCaller /\ rowLock' = NoCaller
  BY ControlAssumption DEF LockIsCall, Debit
<1>2. day'.used = day.used + 1 /\ month'.used = month.used + 1
  BY DEF Debit
<1>3. day.used \in Nat /\ month.used \in Nat /\ MaxCalls \in Nat
  BY ControlAssumption DEF ControlTypeOK
<1>4. day.used + 1 <= MaxCalls /\ month.used + 1 <= MaxCalls
  BY <1>1, <1>3 DEF Counters, CallsCounted, Pending, ControlTypeOK
<1>5. /\ day' \in [exists : BOOLEAN, used : 0 .. MaxCalls]
      /\ month' \in [exists : BOOLEAN, used : 0 .. MaxCalls]
  BY <1>3, <1>4 DEF Debit
<1>6. CallsCounted' /\ LimitsKept'
  BY <1>1, <1>2, <1>3 DEF Counters, CallsCounted, LimitsKept, Pending, ControlTypeOK
<1> QED
  BY <1>1, <1>2, <1>5, <1>6

(* What a caller writes to the health row counts its own failure at most.  *)
LEMMA WrittenTyped ==
  ASSUME ControlInv, NEW w \in Callers, NEW n \in Nat, NEW p \in Pauses,
         n <= month.used + 1, month.used + 1 <= MaxCalls
  PROVE  /\ Written(caller[w].seen, [failures |-> n, pause |-> p]) \in Health
         /\ Written(caller[w].seen, [failures |-> n, pause |-> p]).failures <= month.used + 1
<1> DEFINE w0 == Written(caller[w].seen, [failures |-> n, pause |-> p])
<1>1. /\ health.failures \in 0 .. MaxCalls /\ health.pause \in Pauses
      /\ health.failures <= month.used /\ month.used \in Nat
  BY DEF ControlInv, ControlTypeOK, Counters, Health
<1>2. w0.failures \in {n, health.failures} /\ w0.pause \in {p, health.pause}
  BY DEF Written
<1>3. w0 = [failures |-> w0.failures, pause |-> w0.pause]
  BY DEF Written
<1>4. w0.failures \in 0 .. MaxCalls /\ w0.failures <= month.used + 1 /\ w0.pause \in Pauses
  BY <1>1, <1>2, ControlAssumption
<1> QED
  BY <1>3, <1>4 DEF Health

LEMMA SucceedStep ==
  ASSUME ControlInv, NEW w \in Callers, NEW a \in ProviderAnswers, Succeed(w, a)
  PROVE  ControlInv'
<1> USE DEF ControlInv
<1>1. /\ Is(w, "call") /\ Debit /\ Become(w, a) /\ a \in Pcs
      /\ health' = Written(caller[w].seen, [failures |-> 0, pause |-> "none"])
      /\ strays' \in {strays, 0}
      /\ UNCHANGED <<cache, absent, today, calls>>
  BY DEF Succeed, ProviderAnswers, Pcs
<1>2. /\ rowLock = w /\ rowLock' = NoCaller
      /\ day' \in [exists : BOOLEAN, used : 0 .. MaxCalls]
      /\ month' \in [exists : BOOLEAN, used : 0 .. MaxCalls]
      /\ month'.used = month.used + 1 /\ CallsCounted' /\ LimitsKept'
  BY <1>1, DebitCounts
<1>3. /\ caller' \in [Callers -> CallerRow]
      /\ \A v \in Callers : /\ caller'[v].pc = IF v = w THEN a ELSE caller[v].pc
                            /\ caller'[v].seen = caller[v].seen
                            /\ caller'[v].movie = caller[v].movie
  BY <1>1, BecomeMoves
<1>4. month.used \in Nat /\ month.used + 1 <= MaxCalls
  BY <1>2 DEF ControlTypeOK
<1>5. health' \in Health /\ health'.failures <= month.used + 1
  <2>1. "none" \in Pauses /\ 0 \in Nat /\ 0 <= month.used + 1
    BY <1>4 DEF Pauses
  <2> QED
    BY <1>1, <1>4, <2>1, WrittenTyped
<1>6. ControlTypeOK'
  BY <1>1, <1>2, <1>3, <1>5, ControlAssumption DEF ControlTypeOK, CallerRow, Pcs
<1>7. LockIsCall'
  BY <1>2, <1>3, ControlAssumption DEF LockIsCall, Is, ProviderAnswers
<1>8. Carried'
  BY <1>1, <1>2, <1>3, <1>4 DEF Carried, Is, ControlTypeOK, Health
<1>9. Counters'
  BY <1>1, <1>2, <1>5 DEF Counters, ControlTypeOK
<1> QED
  BY <1>2, <1>6, <1>7, <1>8, <1>9

LEMMA FailStep == ASSUME ControlInv, NEW w \in Callers, Fail(w) PROVE ControlInv'
<1> USE DEF ControlInv
<1>1. /\ Is(w, "call") /\ Debit /\ Done(w)
      /\ strays' \in {strays, 0}
      /\ UNCHANGED <<cache, absent, today, calls>>
  BY DEF Fail
<1>2. /\ rowLock = w /\ rowLock' = NoCaller
      /\ day' \in [exists : BOOLEAN, used : 0 .. MaxCalls]
      /\ month' \in [exists : BOOLEAN, used : 0 .. MaxCalls]
      /\ month'.used = month.used + 1 /\ CallsCounted' /\ LimitsKept'
  BY <1>1, DebitCounts
<1>3. month.used \in Nat /\ month.used + 1 <= MaxCalls
  BY <1>2 DEF ControlTypeOK
<1>4. /\ caller[w].seen \in Health /\ caller[w].seen.failures \in Nat
      /\ caller[w].seen.failures <= month.used
  BY DEF ControlTypeOK, Health, Carried
<1>5. PICK p \in Pauses : health' = Written(caller[w].seen, [failures |-> caller[w].seen.failures + 1, pause |-> p])
  <2>1. caller[w].seen.pause \in Pauses
    BY <1>4 DEF Health
  <2> QED
    BY <2>1 DEF Fail, Pauses
<1>6. health' \in Health /\ health'.failures <= month.used + 1
  <2>1. caller[w].seen.failures + 1 \in Nat /\ caller[w].seen.failures + 1 <= month.used + 1
    BY <1>3, <1>4
  <2> QED
    BY <1>3, <1>5, <2>1, WrittenTyped
<1>7. ControlTypeOK'
  BY <1>1, <1>2, <1>6, DoneMoves, ControlAssumption DEF ControlTypeOK, CallerRow, Pcs
<1>8. LockIsCall'
  BY <1>1, <1>2, DoneMoves, ControlAssumption DEF LockIsCall, Is
<1>9. Carried'
  BY <1>1, <1>2, <1>3, DoneMoves DEF Carried, ControlTypeOK, Health
<1>10. Counters'
  BY <1>1, <1>2, <1>6 DEF Counters, ControlTypeOK
<1> QED
  BY <1>2, <1>7, <1>8, <1>9, <1>10

LEMMA DieStep == ASSUME ControlInv, NEW w \in Callers, Die(w) PROVE ControlInv'
<1> USE DEF ControlInv
<1>1. /\ Done(w) /\ UNCHANGED <<health, day, month, cache, absent, today, strays>>
  BY DEF Die
<1>2. Carried'
  BY <1>1, DoneMoves DEF Carried, ControlTypeOK
<1>3. CASE Is(w, "call")
  <2>1. rowLock = w /\ w # NoCaller /\ rowLock' = NoCaller
    BY <1>3, ControlAssumption DEF Die, LockIsCall
  <2>2. calls' = [calls EXCEPT !.lostToday = @ + 1, !.lostMonth = @ + 1]
    BY <1>3 DEF Die
  <2>3. /\ calls'.lostToday = calls.lostToday + 1 /\ calls'.lostMonth = calls.lostMonth + 1
        /\ calls'.today = calls.today /\ calls'.month = calls.month
    BY <2>2 DEF ControlTypeOK
  <2>4. calls.lostToday + 1 <= MaxCalls /\ calls.lostMonth + 1 <= MaxCalls
    BY <2>1, ControlAssumption DEF ControlTypeOK, Counters, CallsCounted, Pending
  <2>5. ControlTypeOK'
    <3>1. calls.lostToday + 1 \in 0 .. MaxCalls /\ calls.lostMonth + 1 \in 0 .. MaxCalls
      BY <2>4, ControlAssumption DEF ControlTypeOK
    <3>2. calls' \in [today : 0 .. MaxCalls, month : 0 .. MaxCalls,
                      lostToday : 0 .. MaxCalls, lostMonth : 0 .. MaxCalls]
      BY <2>2, <3>1 DEF ControlTypeOK
    <3> QED
      BY <1>1, <2>1, <3>2, DoneMoves DEF ControlTypeOK, CallerRow, Pcs
  <2>6. LockIsCall'
    <3>1. \A v \in Callers : v # NoCaller /\ (caller[v].pc = "call" <=> v = w)
      BY <2>1, ControlAssumption DEF LockIsCall, Is
    <3> QED
      BY <1>1, <2>1, <3>1, DoneMoves DEF LockIsCall, Is
  <2>7. Counters' /\ LimitsKept'
    BY <1>1, <2>1, <2>3, ControlAssumption DEF Counters, CallsCounted, LimitsKept, Pending, ControlTypeOK
  <2> QED
    BY <1>2, <2>5, <2>6, <2>7
<1>4. CASE ~Is(w, "call")
  <2>1. UNCHANGED <<rowLock, calls>>
    BY <1>4 DEF Die
  <2>2. ControlTypeOK'
    BY <1>1, <2>1, DoneMoves DEF ControlTypeOK, CallerRow, Pcs
  <2>3. LockIsCall'
    BY <1>1, <1>4, <2>1, DoneMoves DEF LockIsCall, Is
  <2>4. Counters' /\ LimitsKept'
    BY <1>1, <2>1 DEF Counters, CallsCounted, LimitsKept, Pending
  <2> QED
    BY <1>2, <2>2, <2>3, <2>4
<1> QED
  BY <1>3, <1>4

(* Time: pauses end, cached answers expire, a day begins.                  *)
LEMMA TimeStep ==
  ASSUME ControlInv, PauseEnds \/ Midnight \/ \E m \in Wanted : Expire(m)
  PROVE  ControlInv'
<1> USE DEF ControlInv
<1>1. CASE PauseEnds
  <2>1. health'.failures = health.failures /\ health' \in Health
    BY <1>1 DEF PauseEnds, ControlTypeOK, Health, Pauses
  <2>2. ControlTypeOK'
    BY <1>1, <2>1, ControlAssumption DEF PauseEnds, ControlTypeOK
  <2>3. Counters'
    BY <1>1, <2>1 DEF PauseEnds, Counters, CallsCounted, Pending, ControlTypeOK
  <2>4. LockIsCall' /\ Carried' /\ LimitsKept'
    BY <1>1 DEF PauseEnds, LockIsCall, Is, Carried, LimitsKept, Pending
  <2> QED
    BY <2>2, <2>3, <2>4
<1>2. CASE Midnight
  <2>1. /\ rowLock = NoCaller /\ UNCHANGED <<health, month, rowLock, caller, cache, strays>>
        /\ day' = [exists |-> FALSE, used |-> 0] /\ absent' = {}
        /\ today < MaxDays /\ today' = today + 1
        /\ calls' = [calls EXCEPT !.today = 0, !.lostToday = 0]
    BY <1>2 DEF Midnight, RowsFree
  <2>2. /\ calls'.today = 0 /\ calls'.lostToday = 0
        /\ calls'.month = calls.month /\ calls'.lostMonth = calls.lostMonth
    BY <2>1 DEF ControlTypeOK
  <2>3. ControlTypeOK'
    <3>0. 0 \in 0 .. MaxCalls
      BY ControlAssumption
    <3>1. calls' \in [today : 0 .. MaxCalls, month : 0 .. MaxCalls,
                      lostToday : 0 .. MaxCalls, lostMonth : 0 .. MaxCalls]
      BY <2>1, <3>0 DEF ControlTypeOK
    <3>2. day' \in [exists : BOOLEAN, used : 0 .. MaxCalls] /\ today' \in 0 .. MaxDays
      BY <2>1, ControlAssumption DEF ControlTypeOK
    <3> QED
      BY <2>1, <3>1, <3>2 DEF ControlTypeOK
  <2>4. Counters' /\ LimitsKept'
    BY <2>1, <2>2, ControlAssumption DEF Counters, CallsCounted, LimitsKept, Pending, ControlTypeOK
  <2>5. LockIsCall' /\ Carried'
    BY <2>1 DEF LockIsCall, Is, Carried
  <2> QED
    BY <2>3, <2>4, <2>5
<1>3. CASE \E m \in Wanted : Expire(m)
  <2>1. /\ UNCHANGED <<health, day, month, rowLock, caller, absent, today, calls, strays>>
        /\ cache' \in [Wanted -> {"NONE"} \cup ProviderAnswers]
    BY <1>3 DEF Expire, ControlTypeOK
  <2> QED
    BY <2>1 DEF ControlTypeOK, LockIsCall, Is, Counters, CallsCounted, Carried, LimitsKept, Pending
<1> QED
  BY <1>1, <1>2, <1>3

LEMMA ControlInvStep == ControlInv /\ [ControlNext]_controlVars => ControlInv'
<1> SUFFICES ASSUME ControlInv, [ControlNext]_controlVars PROVE ControlInv'
  OBVIOUS
<1>1. CASE \E w \in Callers : CallerStep(w)
  BY <1>1, QuietStep, ReserveStep, ExhaustedStep, SucceedStep, FailStep, DieStep DEF CallerStep, Quiet
<1>2. CASE PauseEnds \/ Midnight \/ \E m \in Wanted : Expire(m)
  BY <1>2, TimeStep
<1>3. CASE UNCHANGED controlVars
  BY <1>3 DEF controlVars, ControlInv, ControlTypeOK, LockIsCall, Is, Counters, CallsCounted, Carried,
              LimitsKept, Pending
<1> QED
  BY <1>1, <1>2, <1>3 DEF ControlNext, CallerStep

THEOREM ControlInvariant == ControlSpec => []ControlInv
<1>1. ControlInit => ControlInv
  BY ControlInvInit
<1>2. ControlInv /\ [ControlNext]_controlVars => ControlInv'
  BY ControlInvStep
<1> QED
  BY <1>1, <1>2, PTL DEF ControlSpec

(* Every column, local and counter has its type in every behaviour.        *)
THEOREM ControlTypesHold == ControlSpec => []ControlTypeOK
<1>1. ControlInv => ControlTypeOK
  BY DEF ControlInv
<1> QED
  BY <1>1, ControlInvariant, PTL

(* The requests of a day and of a month are never overdrawn, however many  *)
(* callers compete for the last one (OTTApiBudgetManager.reserve).         *)
THEOREM BudgetIsKept == ControlSpec => []ProviderBudgetKept
<1>1. ControlInv => ProviderBudgetKept
  <2> SUFFICES ASSUME ControlInv PROVE ProviderBudgetKept
    OBVIOUS
  <2>1. /\ calls.today - calls.lostToday = day.used + Pending
        /\ calls.month - calls.lostMonth = month.used + Pending
    BY DEF ControlInv, Counters, CallsCounted, Pending, ControlTypeOK
  <2> QED
    BY <2>1 DEF ControlInv, LimitsKept, ProviderBudgetKept
<1> QED
  BY <1>1, ControlInvariant, PTL

-----------------------------------------------------------------------------
(* Whoever passed the open circuit's check did so before it opened: every  *)
(* stray call uses up one of the callers that were near a call then, and   *)
(* the one that opened it was not.                                         *)

Near == {w \in Callers : caller[w].pc \in {"reserve", "insert"}}

StraysCounted ==
  IF health.pause = "open" THEN strays + Cardinality(Near) < Cardinality(Callers) ELSE strays = 0

StraysInv == ControlInv /\ StraysCounted

LEMMA NearFinite ==
  /\ IsFiniteSet(Near) /\ Cardinality(Near) \in Nat
  /\ Cardinality(Callers) \in Nat /\ Cardinality(Callers) # 0
  /\ \A S : S \subseteq Near => Cardinality(S) \in Nat /\ Cardinality(S) <= Cardinality(Near)
  /\ \A S, w : w \in Near /\ S \subseteq Near \ {w} => /\ Cardinality(S) \in Nat
                                                       /\ Cardinality(S) < Cardinality(Near)
  /\ \A S, w : w \in Callers /\ S \subseteq Callers \ {w} => /\ Cardinality(S) \in Nat
                                                             /\ Cardinality(S) < Cardinality(Callers)
<1>1. IsFiniteSet(Callers) /\ Callers # {}
  BY ControlAssumption
<1>2. ASSUME NEW T, IsFiniteSet(T)
      PROVE  /\ Cardinality(T) \in Nat
             /\ \A S : S \subseteq T => /\ IsFiniteSet(S) /\ Cardinality(S) \in Nat
                                        /\ Cardinality(S) <= Cardinality(T)
  BY <1>2, FS_Subset, FS_CardinalityType
<1>3. ASSUME NEW T, IsFiniteSet(T), NEW w \in T, NEW S, S \subseteq T \ {w}
      PROVE  Cardinality(S) \in Nat /\ Cardinality(S) < Cardinality(T)
  <2>1. IsFiniteSet(T \ {w}) /\ Cardinality(T \ {w}) = Cardinality(T) - 1
    BY <1>3, FS_RemoveElement
  <2>2. Cardinality(S) \in Nat /\ Cardinality(S) <= Cardinality(T \ {w})
    BY <1>2, <1>3, <2>1
  <2> QED
    BY <1>2, <1>3, <2>1, <2>2
<1>4. Near \subseteq Callers
  BY DEF Near
<1>5. IsFiniteSet(Near) /\ Cardinality(Near) \in Nat
  BY <1>1, <1>2, <1>4
<1>6. Cardinality(Callers) \in Nat /\ Cardinality(Callers) # 0
  BY <1>1, <1>2, FS_EmptySet
<1>7. \A S : S \subseteq Near => Cardinality(S) \in Nat /\ Cardinality(S) <= Cardinality(Near)
  BY <1>2, <1>5
<1>8. \A S, w : w \in Near /\ S \subseteq Near \ {w} => /\ Cardinality(S) \in Nat
                                                        /\ Cardinality(S) < Cardinality(Near)
  BY <1>3, <1>5
<1>9. \A S, w : w \in Callers /\ S \subseteq Callers \ {w} => /\ Cardinality(S) \in Nat
                                                              /\ Cardinality(S) < Cardinality(Callers)
  BY <1>1, <1>3
<1> QED
  BY <1>5, <1>6, <1>7, <1>8, <1>9

LEMMA StraysStep == StraysInv /\ [ControlNext]_controlVars => StraysInv'
<1> SUFFICES ASSUME StraysInv, [ControlNext]_controlVars PROVE StraysCounted'
  BY ControlInvStep DEF StraysInv
<1>0. ControlTypeOK /\ StraysCounted /\ strays \in Nat
  BY ControlAssumption DEF StraysInv, ControlInv, ControlTypeOK
<1>1. ASSUME Near' \subseteq Near, health'.pause = health.pause, strays' = strays
      PROVE  StraysCounted'
  BY <1>0, <1>1, NearFinite DEF StraysCounted
<1>2. ASSUME NEW w \in Callers, NEW m \in Wanted, Look(w, m) PROVE StraysCounted'
  BY <1>0, <1>2 DEF Look, CircuitOpen, StraysCounted
<1>3. ASSUME NEW w \in Callers, NEW m \in Wanted, ServeCached(w, m) PROVE StraysCounted'
  BY <1>1, <1>3 DEF ServeCached, Near
<1>4. ASSUME NEW w \in Callers, FindNoPeriod(w) PROVE StraysCounted'
  <2>1. Near' \subseteq Near
    BY <1>0, <1>4 DEF FindNoPeriod, Become, Is, Near, ControlTypeOK
  <2> QED
    BY <1>1, <1>4, <2>1 DEF FindNoPeriod
<1>5. ASSUME NEW w \in Callers, Done(w) PROVE Near' \subseteq Near \ {w}
  BY <1>0, <1>5, DoneMoves DEF Near
<1>6. ASSUME NEW w \in Callers, Exhausted(w) \/ InsertRefused(w) \/ Store(w) \/ Die(w)
      PROVE  StraysCounted'
  BY <1>1, <1>5, <1>6 DEF Exhausted, InsertRefused, Store, Die
<1>7. ASSUME NEW w \in Callers, Reserve(w) PROVE StraysCounted'
  <2>1. w \in Near /\ Near' \subseteq Near \ {w}
    BY <1>0, <1>7, BecomeMoves DEF Reserve, Is, Near, Pcs
  <2>2. health' = health /\ strays' = IF health.pause = "open" THEN strays + 1 ELSE strays
    BY <1>7 DEF Reserve
  <2>3. Cardinality(Near') \in Nat /\ Cardinality(Near') < Cardinality(Near)
    BY <2>1, NearFinite
  <2> QED
    BY <1>0, <2>2, <2>3, NearFinite DEF StraysCounted
<1>8. ASSUME NEW w \in Callers, NEW a \in ProviderAnswers, Succeed(w, a) PROVE StraysCounted'
  <2>1. Near' \subseteq Near
    BY <1>0, <1>8, BecomeMoves DEF Succeed, Near, Pcs, ProviderAnswers
  <2>2. health'.pause = "open" => health.pause = "open"
    BY <1>8 DEF Succeed, Written
  <2>3. strays' = IF health'.pause = "open" THEN strays ELSE 0
    BY <1>8 DEF Succeed
  <2> QED
    BY <1>0, <1>1, <2>1, <2>2, <2>3 DEF StraysCounted
<1>9. ASSUME NEW w \in Callers, Fail(w) PROVE StraysCounted'
  <2>1. /\ Done(w)
        /\ strays' = IF health.pause = "open" /\ health'.pause = "open" THEN strays ELSE 0
    BY <1>9 DEF Fail
  <2>2. Near' \subseteq Near \ {w}
    BY <1>5, <2>1
  <2>3. Near' \subseteq Near /\ Near' \subseteq Callers \ {w}
    BY <2>2 DEF Near
  <2>4. Cardinality(Near') \in Nat /\ Cardinality(Near') < Cardinality(Callers)
    BY <2>3, NearFinite
  <2> QED
    BY <1>0, <1>1, <2>1, <2>3, <2>4, NearFinite DEF StraysCounted
<1>10. CASE PauseEnds
  BY <1>0, <1>10 DEF PauseEnds, StraysCounted, ControlTypeOK, Health
<1>11. CASE Midnight \/ \E m \in Wanted : Expire(m)
  BY <1>1, <1>11 DEF Midnight, Expire, Near
<1>12. CASE UNCHANGED controlVars
  BY <1>1, <1>12 DEF controlVars, Near
<1> QED
  BY <1>2, <1>3, <1>4, <1>6, <1>7, <1>8, <1>9, <1>10, <1>11, <1>12 DEF ControlNext

(* While the circuit is open fewer calls get through than there are        *)
(* callers (OttProviderControlService.execute).                            *)
THEOREM StraysAreFew == ControlSpec => []FewStrays
<1>1. ControlInit => StraysInv
  BY ControlInvInit DEF StraysInv, StraysCounted, ControlInit
<1>2. StraysInv /\ [ControlNext]_controlVars => StraysInv'
  BY StraysStep
<1>3. StraysInv => FewStrays
  <2> SUFFICES ASSUME StraysInv PROVE FewStrays
    OBVIOUS
  <2>1. strays \in Nat
    BY ControlAssumption DEF StraysInv, ControlInv, ControlTypeOK
  <2> QED
    BY <2>1, NearFinite DEF StraysInv, StraysCounted, FewStrays
<1> QED
  BY <1>1, <1>2, <1>3, PTL DEF ControlSpec
=============================================================================
