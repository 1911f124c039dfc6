--------------------------------- MODULE Images ---------------------------------
(***************************************************************************)
(* Artwork recovery (app/services/image_fallback.py, with the poster chain *)
(* of app/services/posters): the scans of image_health and image_recovery, *)
(* the image backfill and the administrator's retries look at the cached   *)
(* file of a picture, fetch it again and keep the issues about it.  A file *)
(* is seen by everybody as soon as it is written or unlinked; path, issues *)
(* and cursors only with the commit.  Sessions do not flush before a       *)
(* query, so an issue added by a recovery is not among those the recovery  *)
(* itself resolves.  Of the issues, those that say what a picture lacks    *)
(* are kept here, not image_retrying and image_unresolved.                 *)
(***************************************************************************)
EXTENDS Integers, FiniteSets

CONSTANTS
  Album,       \* per owner the kinds of its pictures; movies before people
  People,      \* owners that are people
  Fallbacks,   \* pictures with a MovieImage.original_url
  ImageBatch,  \* batch_size
  Curators,    \* sessions at work on pictures
  MaxMishaps   \* bound on lost and damaged files, enrichments and dead workers

Owners == DOMAIN Album
PictureKinds == {"poster", "backdrop", "logo", "profile"}
Pictures == {p \in Owners \X PictureKinds : p[2] \in Album[p[1]]}

ASSUME ImageAssumption ==
  /\ Owners \subseteq Nat \ {0} /\ IsFiniteSet(Owners) /\ People \subseteq Owners
  /\ \A o \in Owners : Album[o] \subseteq IF o \in People THEN {"profile"} ELSE PictureKinds \ {"profile"}
  /\ Fallbacks \subseteq Pictures /\ ImageBatch \in Nat \ {0} /\ MaxMishaps \in Nat

VARIABLES
  path,     \* what the owner's column holds: TMDB's path or a cached file
  file,     \* the file at the picture's destination
  reported, \* pictures with an open issue missing_<kind> or broken_<kind>
  place,    \* cursors of the two classes: last owner handled, 0 at the start
  curator,  \* what a session is at
  crowded,  \* history: pictures two sessions, or a session and a mishap, were at
            \* together
  handled,  \* history: pictures with an outcome, undisturbed since
  mishaps

imageVars == <<path, file, reported, place, curator, crowded, handled, mishaps>>

Classes == {"movies", "people"}
Unchanged == -1
NoNews == [k \in Classes |-> Unchanged]
Files == {"none", "good", "bad", "fatal"}   \* fatal: verify raises what nobody catches
Away == [at |-> "away", scan |-> "none", todo |-> {}, picture |-> <<0, "none">>, adds |-> FALSE,
         got |-> FALSE, news |-> NoNews]

ImageTypeOK ==
  /\ path \in [Pictures -> {"remote", "cached"}]
  /\ file \in [Pictures -> Files]
  /\ reported \subseteq Pictures
  /\ place \in [Classes -> Owners \cup {0}]
  /\ \A c \in Curators : /\ curator[c].at \in {"away", "select", "look", "fetch", "verify", "store", "close"}
                         /\ curator[c].todo \subseteq Pictures
  /\ crowded \subseteq Pictures /\ handled \subseteq Pictures /\ mishaps \in 0 .. MaxMishaps

ImageInit ==
  /\ path = [p \in Pictures |-> "remote"] /\ file = [p \in Pictures |-> "none"]
  /\ reported = {}
  /\ place = [k \in Classes |-> 0]
  /\ curator = [c \in Curators |-> Away]
  /\ crowded = {} /\ handled = {} /\ mishaps = 0

-----------------------------------------------------------------------------
CuratorAt(c, where) == curator[c].at = where
Picture(c) == curator[c].picture
OwnerOf(p) == p[1]
KindOf(p) == p[2]
ClassOf(o) == IF o \in People THEN "people" ELSE "movies"
OfClass(k) == {o \in Owners : ClassOf(o) = k}
FirstOwners(S, n) == {o \in S : Cardinality({q \in S : q < o}) < n}

(* validate; the variant trusts the column.  A logo has no column and is   *)
(* never found healthy.                                                    *)
ValidateColumn(p) == IF path[p] = "cached" /\ KindOf(p) # "logo" THEN "good" ELSE "none"
Validate(p) == IF path[p] = "cached" /\ KindOf(p) # "logo" THEN file[p] ELSE "none"

(* A commit carries the cursors set since the last one.  The cursor moves  *)
(* when the last picture of an owner is done.                              *)
Commit(c) ==
  place' = [k \in Classes |-> IF curator[c].news[k] = Unchanged THEN place[k] ELSE curator[c].news[k]]

After(class) ==
  IF class = "movies" THEN [Away EXCEPT !.at = "select", !.scan = "people"] ELSE [Away EXCEPT !.at = "close"]
Proceed(c, p) ==
  LET left == curator[c].todo \ {p}
      scan == curator[c].scan
      done == scan # "none" /\ \A q \in left : OwnerOf(q) # OwnerOf(p)
      news == IF done THEN [NoNews EXCEPT ![scan] = OwnerOf(p)] ELSE NoNews
      next == IF left # {} THEN [Away EXCEPT !.at = "look", !.scan = scan]
              ELSE IF scan = "none" THEN Away ELSE After(scan)
  IN curator' = [curator EXCEPT ![c] = [next EXCEPT !.todo = left, !.news = news]]

(* scan, by schedule; recover_movie and recover_person for one picture;    *)
(* the backfill, for poster and backdrop of a movie.                       *)
StartScan(c) ==
  /\ CuratorAt(c, "away")
  /\ curator' = [curator EXCEPT ![c] = [@ EXCEPT !.at = "select", !.scan = "movies"]]
  /\ UNCHANGED <<path, file, reported, place, crowded, handled, mishaps>>

StartSome(c, some) ==
  /\ CuratorAt(c, "away")
  /\ curator' = [curator EXCEPT ![c] = [@ EXCEPT !.at = "look", !.todo = some]]
  /\ UNCHANGED <<path, file, reported, place, crowded, handled, mishaps>>

(* The next owners of the class by id; none left starts its cycle again.   *)
NeverReset(class) == Unchanged
Reset(class) == 0
SelectBatch(c) ==
  LET class == curator[c].scan
      batch == FirstOwners({o \in OfClass(class) : o > place[class]}, ImageBatch)
  IN
  /\ CuratorAt(c, "select")
  /\ curator' = [curator EXCEPT ![c] =
       IF batch = {} THEN [After(class) EXCEPT !.news = [curator[c].news EXCEPT ![class] = Reset(class)]]
       ELSE [@ EXCEPT !.at = "look", !.todo = {p \in Pictures : OwnerOf(p) \in batch}]]
  /\ UNCHANGED <<path, file, reported, place, crowded, handled, mishaps>>

CloseScan(c) ==
  /\ CuratorAt(c, "close")
  /\ Commit(c)
  /\ curator' = [curator EXCEPT ![c] = Away]
  /\ UNCHANGED <<path, file, reported, crowded, handled, mishaps>>

(* recover up to the provider.  A healthy picture ends it; a file that     *)
(* makes verify raise ends the session.                                    *)
Turn(c) == {p \in curator[c].todo : \A q \in curator[c].todo : OwnerOf(p) <= OwnerOf(q)}
Busy(p) == {c \in Curators : Picture(c) = p}

FindHealthy(c, p) ==
  /\ CuratorAt(c, "look") /\ p \in Turn(c)
  /\ Validate(p) = "good"
  /\ reported' = reported \ {p}
  /\ handled' = handled \cup {p}
  /\ Commit(c) /\ Proceed(c, p)
  /\ UNCHANGED <<path, file, crowded, mishaps>>

FindFatal(c, p) ==
  /\ CuratorAt(c, "look") /\ p \in Turn(c)
  /\ Validate(p) = "fatal"
  /\ curator' = [curator EXCEPT ![c] = Away]
  /\ UNCHANGED <<path, file, reported, place, crowded, handled, mishaps>>

FindProblem(c, p) ==
  /\ CuratorAt(c, "look") /\ p \in Turn(c)
  /\ Validate(p) \in {"none", "bad"}
  /\ curator' = [curator EXCEPT ![c] =
       [@ EXCEPT !.at = "fetch", !.picture = p, !.adds = p \notin reported]]
  /\ crowded' = IF Busy(p) # {} THEN crowded \cup {p} ELSE crowded
  /\ UNCHANGED <<path, file, reported, place, handled, mishaps>>

(* _download for what _movie_candidates or the column offers: the answer   *)
(* is written over what was there, unless it is empty; a failure unlinks   *)
(* it.  The path of a person's cached file is asked of TMDB, which has no  *)
(* such picture.  A picture with no issue yet, as a healthy logo, is       *)
(* disturbed by it: the issue about it comes with the commit.              *)
HasUrl(p) == OwnerOf(p) \in People \/ path[p] = "remote" \/ p \in Fallbacks
Download(p) == IF OwnerOf(p) \in People /\ path[p] = "cached" THEN {"none"} ELSE Files

(* The poster chain asks by TMDB id, in the end, and writes files of its   *)
(* own; one that is not healthy is not used.                               *)
Chain(p) == IF KindOf(p) = "poster" THEN {"good", "fatal"} ELSE {}

Fetch(c) ==
  LET p == Picture(c)
      Has(content) == file' = [file EXCEPT ![p] = content]
      GoTo(where) == curator' = [curator EXCEPT ![c].at = where]
  IN
  /\ CuratorAt(c, "fetch")
  /\ \/ /\ HasUrl(p)
        /\ \E content \in Download(p) :
             Has(content) /\ GoTo(IF content = "none" THEN "store" ELSE "verify")
     \/ /\ ~HasUrl(p)
        /\ \E content \in Chain(p) : Has(content) /\ GoTo("verify")
     \/ UNCHANGED file /\ GoTo("store")
  /\ handled' = IF curator[c].adds THEN handled \ {p} ELSE handled
  /\ UNCHANGED <<path, reported, place, crowded, mishaps>>

Verify(c) ==
  LET p == Picture(c) IN
  /\ CuratorAt(c, "verify")
  /\ file' = [file EXCEPT ![p] = IF @ = "bad" THEN "none" ELSE @]
  /\ curator' = [curator EXCEPT ![c] = IF file[p] = "fatal" THEN Away
                                       ELSE [@ EXCEPT !.at = "store", !.got = file[p] = "good"]]
  /\ UNCHANGED <<path, reported, place, crowded, handled, mishaps>>

KeepPicture(c) ==
  LET p == Picture(c)
      old == IF curator[c].got THEN reported \ {p} ELSE reported
  IN
  /\ CuratorAt(c, "store")
  /\ path' = [path EXCEPT ![p] = IF curator[c].got THEN "cached" ELSE @]
  /\ reported' = IF curator[c].adds THEN old \cup {p} ELSE old
  /\ handled' = handled \cup {p}
  /\ Commit(c) /\ Proceed(c, p)
  /\ UNCHANGED <<file, crowded, mishaps>>

-----------------------------------------------------------------------------
(* What happens to pictures: a file is lost or damaged, an enrichment puts *)
(* TMDB's path back, a worker dies.                                        *)
Mishap == mishaps < MaxMishaps /\ mishaps' = mishaps + 1

Damage(p, left) ==
  /\ Mishap /\ file[p] = "good" /\ left # "good"
  /\ file' = [file EXCEPT ![p] = left]
  /\ handled' = handled \ {p}
  /\ crowded' = IF Busy(p) # {} THEN crowded \cup {p} ELSE crowded
  /\ UNCHANGED <<path, reported, place, curator>>

EnrichPath(p) ==
  /\ Mishap /\ path[p] = "cached"
  /\ path' = [path EXCEPT ![p] = "remote"]
  /\ handled' = handled \ {p}
  /\ UNCHANGED <<file, reported, place, curator, crowded>>

CuratorDies(c) ==
  /\ Mishap /\ ~CuratorAt(c, "away")
  /\ curator' = [curator EXCEPT ![c] = Away]
  /\ UNCHANGED <<path, file, reported, place, crowded, handled>>

CuratorStep(c) ==
  \/ SelectBatch(c) \/ CloseScan(c)
  \/ \E p \in Pictures : FindHealthy(c, p) \/ FindFatal(c, p) \/ FindProblem(c, p)
  \/ Fetch(c) \/ Verify(c) \/ KeepPicture(c)

ImageNext ==
  \/ \E c \in Curators :
       \/ StartScan(c) \/ CuratorStep(c) \/ CuratorDies(c)
       \/ \E p \in Pictures : StartSome(c, {p})
       \/ \E o \in Owners \ People : StartSome(c, {p \in Pictures : OwnerOf(p) = o /\ KindOf(p) # "logo"})
  \/ \E p \in Pictures : \/ \E left \in Files : Damage(p, left)
                         \/ EnrichPath(p)

(* A worker that lives goes on, and the scans beat puts on the queue for   *)
(* ever are taken when one is free.                                        *)
ImageFairness ==
  /\ \A c \in Curators : WF_imageVars(CuratorStep(c))
  /\ SF_imageVars(\E c \in Curators : StartScan(c))

ImageSpec == ImageInit /\ [][ImageNext]_imageVars /\ ImageFairness

-----------------------------------------------------------------------------
Healthy(p) == path[p] = "cached" /\ file[p] = "good"

(* A picture that has been looked at is there, or an open issue says that  *)
(* it is missing or broken, unless something came between.                 *)
LossReported == \A p \in handled \ crowded : Healthy(p) \/ p \in reported

(* Every picture is looked at, and again when it was lost since            *)
(* (docs/IMAGE_FALLBACK.md: scheduled runs cover every movie and person),  *)
(* unless a file stops every scan.                                         *)
ScansCover ==
  \A p \in Pictures : []<>(p \in handled) \/ []<>(\E q \in Pictures : file[q] = "fatal")
=============================================================================
