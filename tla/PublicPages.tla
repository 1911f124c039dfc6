------------------------------ MODULE PublicPages ------------------------------
(***************************************************************************)
(* What the public pages say about the OTT releases of the movie whose     *)
(* canonical rows Reconciliation keeps: the cards, home, the OTT pages,    *)
(* the calendar and the detail page (app/api/v1/public.py, with the        *)
(* summaries of app/services/release_status.py).  Pages are read, never    *)
(* stored: each is a function of the committed rows and of today.          *)
(*                                                                         *)
(* sure stands for the offers whose canonical confidence has reached       *)
(* OTT_CONFIRMATION_THRESHOLD; reconciliation decides without it, so any   *)
(* set of offers may be.                                                   *)
(***************************************************************************)
EXTENDS Reconciliation

IsConfirmed(o) == canon[o].verification = "CONFIRMED"
HasDate(o) == canon[o].date # NoDate

(* confirmed_canonical_ott: one of the rows with the highest confidence.   *)
ConfirmedCanonical(sure) == {o \in sure : canon[o].known /\ IsConfirmed(o) /\ HasDate(o)}

(* best_canonical_ott: a complete row first, any other else.               *)
BestCanonical(sure) ==
  LET rows == {o \in Offers : canon[o].known}
      complete == {o \in rows : IsConfirmed(o) /\ HasDate(o)}
  IN IF complete # {} THEN complete ELSE rows

(* The card of the movie, on every list.                                   *)
CardOffers(sure) == ConfirmedCanonical(sure)

(* ott_base of home, and the queries of the OTT pages: the movie is listed *)
(* for the date of an offer.  A date that is not there compares to nothing.*)
UpcomingOn(o) == HasDate(o) /\ canon[o].date > date
RecentOn(o) == HasDate(o) /\ canon[o].date <= date
HomeOffers == {o \in Offers : IsConfirmed(o) /\ canon[o].shown \in {"upcoming", "released"}}
Home == [upcoming |-> {o \in HomeOffers : UpcomingOn(o)}, recent |-> {o \in HomeOffers : RecentOn(o)}]
OttLanding == [upcoming |-> {o \in Offers : IsConfirmed(o) /\ UpcomingOn(o)},
               recent |-> {o \in Offers : IsConfirmed(o) /\ RecentOn(o)}]
OttPlatform(o) == [upcoming |-> IsConfirmed(o) /\ UpcomingOn(o), recent |-> IsConfirmed(o) /\ RecentOn(o)]

(* The OTT tab of the calendar.  The variant asks for a date and a state   *)
(* only.                                                                   *)
CalendarUnverified(sure) == {o \in sure : HasDate(o) /\ canon[o].shown \in {"upcoming", "released"}}
Calendar(sure) ==
  {o \in sure : IsConfirmed(o) /\ HasDate(o) /\ canon[o].shown \in {"upcoming", "released"}}

(* ott_public_state of the detail page, for the row the summary picks.     *)
PublicStates(sure) ==
  IF ConfirmedCanonical(sure) # {}
    THEN {IF UpcomingOn(o) THEN "COMING_TO_OTT" ELSE "AVAILABLE_NOW" : o \in ConfirmedCanonical(sure)}
  ELSE {IF BestCanonical(sure) # {} THEN "PLATFORM_KNOWN_DATE_UNKNOWN" ELSE "OTT_INFORMATION_NOT_FOUND"}

(* The offers listed on the detail page, each with its date or without.    *)
DetailList == [o \in {p \in Offers : canon[p].known} |-> IF IsConfirmed(o) THEN canon[o].date ELSE NoDate]

-----------------------------------------------------------------------------
(* The offers some page dates, or lists the movie for.                     *)
DatedOffers(sure) ==
  UNION {CardOffers(sure), Home.upcoming, Home.recent, OttLanding.upcoming, OttLanding.recent,
         {o \in Offers : OttPlatform(o).upcoming \/ OttPlatform(o).recent},
         Calendar(sure), {o \in DOMAIN DetailList : DetailList[o] # NoDate}}

(* Once the evidence was reconciled, a dispute among credible sources is   *)
(* the decision on record, and no page shows the date of its offer or      *)
(* lists the movie for it, unless an administrator locked it; and until    *)
(* the next health scan there is an open issue exactly if there is a       *)
(* dispute (docs/OTT_RESEARCH.md: credible disagreement creates a          *)
(* data-quality issue and leaves the public date hidden).                  *)
DisputeHidden ==
  settled =>
    /\ \A o \in Offers : Disputed(evidence, o) # {} => decided[o] = "CONFLICTING"
    /\ ~scanned => (issue <=> \E o \in Offers : Disputed(evidence, o) # {})
    /\ \A sure \in SUBSET Offers :
         \A o \in DatedOffers(sure) : Disputed(evidence, o) = {} \/ canon[o].locked
=============================================================================
