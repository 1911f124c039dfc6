------------------------------ MODULE MCProgress ------------------------------
(* An instance of the jobs that must get somewhere: the sync of a source,  *)
(* the notices about open requests, the ratings, the scans for artwork.    *)
(* They share no variable, so one of them moves in a behaviour, the part,  *)
(* and the state spaces add up instead of multiplying.                     *)
EXTENDS SourceSync, Notices, Ratings, Images, TLC

CONSTANTS w1, w2, email, f1

VARIABLE part

Parts == {"sync", "notices", "ratings", "images"}

partVars == <<syncVars, noticeVars, ratingVars, imageVars, part>>

ProgressInit ==
  /\ SyncInit /\ NoticeInit /\ RatingInit /\ ImageInit
  /\ part \in Parts /\ (part # "ratings" => holds = Ranked)

ProgressNext ==
  /\ UNCHANGED part
  /\ IF part = "sync" THEN SyncNext ELSE UNCHANGED syncVars
  /\ IF part = "notices" THEN NoticeNext ELSE UNCHANGED noticeVars
  /\ IF part = "ratings" THEN RatingNext ELSE UNCHANGED ratingVars
  /\ IF part = "images" THEN ImageNext ELSE UNCHANGED imageVars

(* The fairness of the part that moves: SyncFairness, NoticeFairness,      *)
(* RatingFairness and ImageFairness.                                       *)
PartFairness ==
  /\ WF_syncVars(part = "sync" /\ HalfAnHour)
  /\ WF_syncVars(part = "sync" /\ \E s \in Syncs : StartDaily(s))
  /\ \A s \in Syncs : WF_syncVars(part = "sync" /\ SyncStep(s))
  /\ \A w \in Workers : WF_noticeVars(part = "notices" /\ WorkerStep(w))
  /\ WF_noticeVars(part = "notices" /\ \E w \in Workers, r \in Asked, level \in Levels : CheckSla(w, r, level))
  /\ \A r \in Raters : WF_ratingVars(part = "ratings" /\ (Ask(r) \/ CommitRefresh(r)))
  /\ WF_ratingVars(part = "ratings" /\ \E r \in Raters : BeginRefresh(r))
  /\ WF_ratingVars(part = "ratings" /\ PeriodPasses)
  /\ \A c \in Curators : WF_imageVars(part = "images" /\ CuratorStep(c))
  /\ SF_imageVars(part = "images" /\ \E c \in Curators : StartScan(c))

ProgressSpec == ProgressInit /\ [][ProgressNext]_partVars /\ PartFairness

(* Every variable of every part holds what its code can put there.         *)
ProgressTypeOK ==
  SyncTypeOK /\ NoticeTypeOK /\ RatingTypeOK /\ ImageTypeOK /\ part \in Parts

(* Scheduled scans look at every picture in the end, unless a file stops   *)
(* every scan.                                                             *)
EveryPictureScanned == part = "images" => ScansCover

(* Every sound title whose rating is due is answered for.                  *)
EveryDueAnswered == part = "ratings" => DueIsAnswered

-----------------------------------------------------------------------------
(* An item without identifiers that title, year and language settle.       *)
Entry(tmdb, title, year, language) ==
  [tmdb |-> tmdb, imdb |-> 0, title |-> title, year |-> year, language |-> language,
   extra |-> 0, released |-> year, citable |-> TRUE]
ByTitle == 1 :> Entry(0, "a", 2020, "ta")
OneFilm == f1 :> Entry(1, "a", 2020, "ta")

(* Two movies of the three are failed by the ratings provider for ever,    *)
(* and rest for three periods between two attempts in the end.             *)
ThreeRanked == {1, 2, 3}
FirstTwoPoisoned == {1, 2}

(* A movie with a poster and a person.                                     *)
TwoPictures == (1 :> {"poster"}) @@ (2 :> {"profile"})
OnePerson == {2}
NoPictures == {}
=============================================================================
