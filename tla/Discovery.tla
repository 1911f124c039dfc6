------------------------------- MODULE Discovery -------------------------------
(***************************************************************************)
(* Discovery of new movies (app/services/movie_discovery.py): runs that    *)
(* scan TMDB language by language, decide about every title on offer and   *)
(* mirror what the OTT sources could not identify, beside administrators   *)
(* who decide about candidates (app/api/v1/admin.py) and the importers     *)
(* that ask no candidate.  Scheduled and manual runs may overlap; nothing  *)
(* locks a candidate.                                                      *)
(***************************************************************************)
EXTENDS Naturals, FiniteSets

CONSTANTS
  Scans,          \* runs, each begun at most once
  Languages,
  Titles,         \* TMDB movies; a candidate of source tmdb each
  Others,         \* movies that only the other importers bring
  LanguageOf,     \* the language whose list shows a title
  ShelfOf,        \* the language and year of a movie
  FilmOf,         \* movies with one normalised title, year and language are one film
  MatchWindow,    \* movies of a shelf that one look takes, 500 in the code
  Releases        \* rows of ott_source_releases that stay UNMATCHED in the window

NoTitle == "no title"

ASSUME DiscoveryAssumption ==
  /\ LanguageOf \in [Titles -> Languages]
  /\ IsFiniteSet(Titles \cup Others) /\ DOMAIN FilmOf = Titles \cup Others
  /\ \A t, u \in Titles \cup Others : FilmOf[t] = FilmOf[u] => ShelfOf[t] = ShelfOf[u]
  /\ MatchWindow \in Nat \ {0}
  /\ Titles \cap Releases = {} /\ NoTitle \notin Titles

Candidates == Titles \cup Releases
CandidateStatuses ==
  {"NONE", "DISCOVERED", "EXISTING", "IMPORTED", "NEEDS_REVIEW", "FAILED", "FILTERED", "IGNORED"}

VARIABLES
  candidate,  \* status by candidate, NONE before its row; IGNORED for
              \* all that an administrator may dismiss it with
  matched,    \* candidates with matched_movie_id
  imported,   \* what is in the catalogue
  scan,       \* what a run is at
  runRow,     \* its movie_discovery_runs row; OVER for COMPLETE, PARTIAL and
              \* FAILED
  dismissals, \* history: candidates an administrator dismissed
  unsettled,  \* history: candidates in the hands of a run while that happened
  contested   \* history: films decided while another run was about to import
              \* them, or brought by another importer

discoveryVars == <<candidate, matched, imported, scan, runRow, dismissals, unsettled, contested>>

Scan0 == [at |-> "idle", todo |-> Languages, left |-> {}, title |-> NoTitle,
          read |-> "NONE"]

DiscoveryTypeOK ==
  /\ candidate \in [Candidates -> CandidateStatuses]
  /\ matched \subseteq Candidates /\ imported \subseteq Titles \cup Others
  /\ \A s \in Scans :
       /\ scan[s].at \in {"idle", "language", "item", "details", "import", "mark", "sources", "finish"}
       /\ scan[s].left \subseteq Titles /\ scan[s].title \in Titles \cup {NoTitle}
  /\ runRow \in [Scans -> {"NONE", "RUNNING", "OVER"}]
  /\ dismissals \subseteq Candidates /\ unsettled \subseteq Candidates
  /\ contested \subseteq {FilmOf[t] : t \in Titles \cup Others}

DiscoveryInit ==
  /\ candidate = [k \in Candidates |-> "NONE"]
  /\ matched = {} /\ imported = {}
  /\ scan = [s \in Scans |-> Scan0]
  /\ runRow = [s \in Scans |-> "NONE"]
  /\ dismissals = {} /\ unsettled = {} /\ contested = {}

ScanAt(s, place) == scan[s].at = place
Handles(s, t) == scan[s].title = t
Go(s, place) == scan' = [scan EXCEPT ![s].at = place]
NextItem(s) == [scan[s] EXCEPT !.at = "item", !.title = NoTitle, !.read = "NONE", !.left = @ \ {scan[s].title}]

-----------------------------------------------------------------------------
(* A run.  run_discovery_now refuses while any row says RUNNING; the       *)
(* schedule does not ask.                                                  *)
BeginScan(s) ==
  /\ runRow[s] = "NONE"
  /\ runRow' = [runRow EXCEPT ![s] = "RUNNING"]
  /\ Go(s, "language")
  /\ UNCHANGED <<candidate, matched, imported, dismissals, unsettled, contested>>

RunDiscoveryNow(s) == (\A q \in Scans : runRow[q] # "RUNNING") /\ BeginScan(s)

(* The pages of one language; a page that cannot be had ends the list.     *)
ListLanguage(s) ==
  /\ ScanAt(s, "language")
  /\ \E l \in scan[s].todo :
       \E offered \in SUBSET {t \in Titles : LanguageOf[t] = l} :
         scan' = [scan EXCEPT ![s].at = "item", ![s].todo = @ \ {l}, ![s].left = offered]
  /\ UNCHANGED <<candidate, matched, imported, runRow, dismissals, unsettled, contested>>

(* The filter of dismissed candidates; the variant lets them through.      *)
PassesAll(k) == FALSE
Refused(k) == candidate[k] = "IGNORED"

(* _candidate and what _process_tmdb_candidate can tell without TMDB.      *)
TakeTitle(s, t) ==
  LET known == candidate[t] IN
  /\ ScanAt(s, "item") /\ t \in scan[s].left
  /\ IF Refused(t) \/ (known = "EXISTING" /\ t \in matched)
       THEN /\ scan' = [scan EXCEPT ![s].left = @ \ {t}]
            /\ UNCHANGED <<candidate, matched>>
     ELSE IF t \in imported
       THEN /\ candidate' = [candidate EXCEPT ![t] = "EXISTING"]
            /\ matched' = matched \cup {t}
            /\ scan' = [scan EXCEPT ![s].left = @ \ {t}]
     ELSE LET row == IF known = "NONE" THEN "DISCOVERED" ELSE known IN
          /\ candidate' = [candidate EXCEPT ![t] = row]
          /\ scan' = [scan EXCEPT ![s].at = "details", ![s].title = t, ![s].read = row]
          /\ UNCHANGED matched
  /\ UNCHANGED <<imported, runRow, dismissals, unsettled, contested>>

(* _mark through a session that still holds the row as it was read: a      *)
(* status equal to the one read is not written.                            *)
MarkStale(s, status) ==
  LET t == scan[s].title IN
  candidate' = [candidate EXCEPT ![t] = IF status = scan[s].read THEN @ ELSE status]

(* _title_identity_match looks at no more than MatchWindow movies of the   *)
(* language and year, whichever the database names first, for those that   *)
(* are the film of t; the variant knows a movie by its TMDB id alone.      *)
Shelf(t) == {u \in imported : ShelfOf[u] = ShelfOf[t]}
Looks(t) ==
  IF Cardinality(Shelf(t)) <= MatchWindow THEN {Shelf(t)}
  ELSE {seen \in SUBSET Shelf(t) : Cardinality(seen) = MatchWindow}
MatchesById(seen, t) == {}
Matches(seen, t) == {u \in seen : FilmOf[u] = FilmOf[t]}

(* Runs about to import the film of t under another id.                    *)
Rivals(s, t) ==
  {q \in Scans \ {s} : /\ ScanAt(q, "import") /\ scan[q].title # t
                       /\ FilmOf[scan[q].title] = FilmOf[t]}

(* The answer of get_rich_movie_details: an adult title; one whose IMDb id *)
(* a local movie has; one whose title, year and language one movie in      *)
(* sight has; or a new one.                                                *)
DecideTitle(s) ==
  LET t == scan[s].title
      decided(status) ==
        /\ MarkStale(s, status)
        /\ matched' = IF status = "FILTERED" THEN matched \ {t} ELSE matched \cup {t}
        /\ scan' = [scan EXCEPT ![s] = NextItem(s)]
  IN
  /\ ScanAt(s, "details")
  /\ \/ decided("FILTERED")
     \/ decided("EXISTING")
     \/ \E seen \in Looks(t) :
          IF Cardinality(Matches(seen, t)) = 1
            THEN decided("NEEDS_REVIEW")
            ELSE Go(s, "import") /\ UNCHANGED <<candidate, matched>>
  /\ contested' = IF Rivals(s, t) # {} THEN contested \cup {FilmOf[t]} ELSE contested
  /\ UNCHANGED <<imported, runRow, dismissals, unsettled>>

(* The movie and its metadata: enrich_movie commits them, before they are  *)
(* classified and queued; tmdb_id is unique.                               *)
ImportTitle(s) ==
  LET t == scan[s].title IN
  /\ ScanAt(s, "import") /\ t \notin imported
  /\ imported' = imported \cup {t}
  /\ Go(s, "mark")
  /\ UNCHANGED <<candidate, matched, runRow, dismissals, unsettled, contested>>

MarkImported(s) ==
  LET t == scan[s].title IN
  /\ ScanAt(s, "mark")
  /\ candidate' = [candidate EXCEPT ![t] = "IMPORTED"]
  /\ matched' = matched \cup {t}
  /\ scan' = [scan EXCEPT ![s] = NextItem(s)]
  /\ UNCHANGED <<imported, runRow, dismissals, unsettled, contested>>

(* TMDB or the database raised: the row is read again and FAILED, though   *)
(* the movie may be there already.                                         *)
FailTitle(s) ==
  LET t == scan[s].title IN
  /\ ScanAt(s, "details") \/ ScanAt(s, "import") \/ ScanAt(s, "mark")
  /\ candidate' = [candidate EXCEPT ![t] = "FAILED"]
  /\ scan' = [scan EXCEPT ![s] = NextItem(s)]
  /\ UNCHANGED <<matched, imported, runRow, dismissals, unsettled, contested>>

(* No title is left, or an exception outside the try, as when two runs     *)
(* insert one candidate, ended the language and no other.                  *)
EndLanguage(s) ==
  /\ ScanAt(s, "item")
  /\ scan' = [scan EXCEPT ![s] =
       [@ EXCEPT !.at = IF scan[s].todo = {} THEN "sources" ELSE "language", !.left = {}]]
  /\ UNCHANGED <<candidate, matched, imported, runRow, dismissals, unsettled, contested>>

(* _scan_configured_sources: a source is off, fails or is mirrored; what   *)
(* an administrator decided about a mirrored row is not looked at.         *)
ScanSources(s) ==
  /\ ScanAt(s, "sources")
  /\ Go(s, "finish")
  /\ \/ UNCHANGED <<candidate, matched>>
     \/ /\ candidate' = [k \in Candidates |-> IF k \in Releases THEN "NEEDS_REVIEW" ELSE candidate[k]]
        /\ matched' = matched \ Releases
  /\ UNCHANGED <<imported, runRow, dismissals, unsettled, contested>>

FinishScan(s) ==
  /\ ScanAt(s, "finish")
  /\ runRow' = [runRow EXCEPT ![s] = "OVER"]
  /\ scan' = [scan EXCEPT ![s] = Scan0]
  /\ UNCHANGED <<candidate, matched, imported, dismissals, unsettled, contested>>

(* The worker dies: its row says RUNNING for ever.                         *)
ScanDies(s) ==
  /\ ~ScanAt(s, "idle")
  /\ scan' = [scan EXCEPT ![s] = Scan0]
  /\ UNCHANGED <<candidate, matched, imported, runRow, dismissals, unsettled, contested>>

(* update_discovery_candidate.                                             *)
Held(k) == IF \E s \in Scans : Handles(s, k) THEN {k} ELSE {}
DismissCandidate(k) ==
  /\ candidate[k] # "NONE"
  /\ candidate' = [candidate EXCEPT ![k] = "IGNORED"]
  /\ dismissals' = dismissals \cup {k}
  /\ unsettled' = unsettled \cup Held(k)
  /\ UNCHANGED <<matched, imported, scan, runRow, contested>>

MatchCandidate(k) ==
  /\ candidate[k] # "NONE" /\ imported # {}
  /\ candidate' = [candidate EXCEPT ![k] = "EXISTING"]
  /\ matched' = matched \cup {k}
  /\ dismissals' = dismissals \ {k}
  /\ UNCHANGED <<imported, scan, runRow, unsettled, contested>>

(* Another importer (app/services/tmdb) looks for the TMDB id only.        *)
ImportElsewhere(u) ==
  /\ u \notin imported
  /\ imported' = imported \cup {u}
  /\ contested' = contested \cup {FilmOf[u]}
  /\ UNCHANGED <<candidate, matched, scan, runRow, dismissals, unsettled>>

DiscoveryNext ==
  \/ \E s \in Scans :
       \/ BeginScan(s) \/ RunDiscoveryNow(s) \/ ListLanguage(s)
       \/ \E t \in Titles : TakeTitle(s, t)
       \/ DecideTitle(s) \/ ImportTitle(s) \/ MarkImported(s) \/ FailTitle(s)
       \/ EndLanguage(s) \/ ScanSources(s) \/ FinishScan(s) \/ ScanDies(s)
  \/ \E k \in Candidates : DismissCandidate(k) \/ MatchCandidate(k)
  \/ \E u \in Others : ImportElsewhere(u)

DiscoverySpec == DiscoveryInit /\ [][DiscoveryNext]_discoveryVars

-----------------------------------------------------------------------------
(* What an administrator dismissed stays dismissed and is not imported,    *)
(* through every later scan, unless a run had the title in hand.           *)
DismissalStands ==
  \A t \in (Titles \cap dismissals) \ unsettled : candidate[t] = "IGNORED"

(* Runs import a film under one TMDB id, unless two of them were at it     *)
(* together, another importer brought it too, or the movies of its         *)
(* language and year beside it are more than one look takes.               *)
FilmImportedOnce ==
  \A t, u \in imported :
    /\ FilmOf[t] = FilmOf[u] /\ FilmOf[t] \notin contested
    /\ Cardinality(Shelf(t) \ {t}) <= MatchWindow
    => t = u
=============================================================================
