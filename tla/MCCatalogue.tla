----------------------------- MODULE MCCatalogue -----------------------------
(***************************************************************************)
(* An instance of what fills the catalogue and what readers see of it: the *)
(* requests for movies, their discovery, their import and enrichment, the  *)
(* evidence for their offers, the provider's budget, two sessions over one *)
(* poster, the notices about an open request, the repair of the whole.     *)
(* They share no variable, so one of them moves in a behaviour, the part,  *)
(* and the state spaces add up instead of multiplying.                     *)
(***************************************************************************)
EXTENDS MovieRequests, Discovery, Catalogue, PublicPages, ProviderControl, Images, Notices,
        RepairChain, TLC

CONSTANTS w1, w2, w3, i1, i2, email, ml, t1, t2, t3, b1, f1, f2, o1, o2

VARIABLE part

Parts == {"requests", "discovery", "catalogue", "pages", "control", "images", "notices",
          "repair"}

partVars == <<requestVars, discoveryVars, catalogueVars, reconVars, controlVars, imageVars,
             noticeVars, repairVars, part>>

PartsInit ==
  /\ RequestInit /\ DiscoveryInit /\ CatalogueInit /\ ReconInit /\ ControlInit /\ ImageInit
  /\ NoticeInit /\ RepairInit
  /\ part \in Parts

PartsNext ==
  /\ UNCHANGED part
  /\ IF part = "requests" THEN RequestNext ELSE UNCHANGED requestVars
  /\ IF part = "discovery" THEN DiscoveryNext ELSE UNCHANGED discoveryVars
  /\ IF part = "catalogue" THEN CatalogueNext ELSE UNCHANGED catalogueVars
  /\ IF part = "pages" THEN ReconNext ELSE UNCHANGED reconVars
  /\ IF part = "control" THEN ControlNext ELSE UNCHANGED controlVars
  /\ IF part = "images" THEN ImageNext ELSE UNCHANGED imageVars
  /\ IF part = "notices" THEN NoticeNext ELSE UNCHANGED noticeVars
  /\ IF part = "repair" THEN RepairNext ELSE UNCHANGED repairVars

PartsSpec == PartsInit /\ [][PartsNext]_partVars

(* Every variable of every part holds what its code can put there.         *)
PartsTypeOK ==
  /\ part \in Parts
  /\ part = "requests" => RequestTypeOK
  /\ part = "discovery" => DiscoveryTypeOK
  /\ part = "catalogue" => CatalogueTypeOK
  /\ part = "pages" => ReconTypeOK
  /\ part = "control" => ControlTypeOK
  /\ part = "images" => ImageTypeOK
  /\ part = "notices" => NoticeTypeOK
  /\ part = "repair" => RepairTypeOK

-----------------------------------------------------------------------------
(* One request of one requester.                                           *)
OneRequest == 1 :> "m"
OneRequester == 1 :> "u"

(* Two TMDB movies that are one film, and a third of their language and    *)
(* year that another importer brings.                                      *)
AllMalayalam == [t \in {t1, t2} |-> ml]
OneYear == [t \in {t1, t2, t3} |-> 2024]
SameFilm == [t \in {t1, t2, t3} |-> IF t = t3 THEN "another" ELSE "film"]

(* Two TMDB movies with one IMDb id, on one page of a block and on two of  *)
(* the newest.                                                             *)
SameImdb == [f \in {f1, f2} |-> "tt1"]
OnePage == b1 :> <<{f1, f2}>>
NewestFirst == <<{f2}, {f1}>>

(* Two publishers and a platform about one offer, an administrator about   *)
(* both days, a catalogue's availability, and a second offer.              *)
Fact(offer, fact, on, weight, source, manual) ==
  [offer |-> offer, fact |-> fact, date |-> on, weight |-> weight, source |-> source, manual |-> manual]
EightKinds ==
  { Fact(o1, "DATE", 0, "credible", "a", FALSE), Fact(o1, "DATE", 0, "credible", "b", FALSE),
    Fact(o1, "DATE", 1, "credible", "b", FALSE), Fact(o1, "DATE", 1, "official", "p", FALSE),
    Fact(o1, "DATE", 0, "official", "adm", TRUE), Fact(o1, "DATE", 1, "official", "adm", TRUE),
    Fact(o1, "AVAILABILITY", -1, "credible", "t", FALSE), Fact(o2, "DATE", 0, "official", "q", FALSE) }

OnePoster == 1 :> {"poster"}
ThePoster == {<<1, "poster">>}
Nobody == {}

(* Scans, titles and workers are interchangeable.                          *)
Symmetry == Permutations({t1, t2}) \cup Permutations({w1, w2}) \cup Permutations({i1, i2})
=============================================================================
