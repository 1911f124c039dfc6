----------------------------- MODULE Catalogue -----------------------------
(***************************************************************************)
(* How movies and their metadata get into the catalogue: the importers of  *)
(* app/services/tmdb (bulk with its checkpoint file, full, newest first),  *)
(* and MovieMetadataService.enrich_movie under the cursor of the task      *)
(* tmdb.metadata_enrichment and under the callers that name one movie.     *)
(* Several sessions may work at once and none locks a movie: a movie has   *)
(* its id from the flush that inserts it, and is seen by the others when   *)
(* its page is committed.                                                  *)
(***************************************************************************)
EXTENDS Integers, Sequences, FiniteSets

CONSTANTS
  Films,          \* TMDB movies
  ImdbOf,         \* their IMDb ids
  Blocks,         \* keys of the checkpoint file: a language and a year
  Pages,          \* per block: its pages, each a set of films
  Newest,         \* the pages of discover_indian_movies
  Enrichers, Importers,
  EnrichBatch,    \* movies a run of the task takes, 20 in the code
  MaxImports      \* bound on the imports ever begun

ASSUME CatalogueAssumption ==
  /\ DOMAIN ImdbOf = Films
  /\ IsFiniteSet(Films) /\ IsFiniteSet(Enrichers)
  /\ Pages \in [Blocks -> Seq(SUBSET Films)]
  /\ Newest \in Seq(SUBSET Films) /\ Newest # <<>>
  /\ EnrichBatch \in Nat \ {0} /\ MaxImports \in Nat

VARIABLES
  rows,        \* the ids given out, each with its TMDB film
  visible,     \* ids whose rows are committed; the others' are still to be,
               \* or were rolled back
  identified,  \* films whose movie holds its IMDb id
  credits,     \* per film: movie_credits rows for one credit of its payload
  cursor,      \* operation_states of metadata_enrichment: last movie of the cycle
  enricher,    \* what an enriching session is at
  importer,    \* what an importer is at
  checkpoint,  \* completed_keys in the checkpoint file
  imports,     \* imports begun
  enriched,    \* history: films enriched once
  late,        \* history: ids committed behind the cursor, or behind a run that
               \* will move it past them, since a cycle began with no run under way
  shared,      \* history: films two sessions enriched at once
  torn         \* history: blocks that lost a page

catalogueVars == <<rows, visible, identified, credits, cursor, enricher, importer, checkpoint,
                   imports, enriched, late, shared, torn>>

FilmsOf(ids) == {rows[id] : id \in ids}
Stored == FilmsOf(visible)
Resting == [at |-> "rest", id |-> 0, todo |-> {}, before |-> 0, task |-> FALSE,
            absent |-> FALSE, free |-> FALSE]
NoImport == [at |-> "rest", block |-> "none", page |-> 0, left |-> {}, held |-> {}, done |-> {}]

CatalogueTypeOK ==
  /\ rows \in Seq(Films) /\ visible \subseteq DOMAIN rows /\ late \subseteq visible
  /\ \A i, j \in visible : rows[i] = rows[j] => i = j
  /\ identified \subseteq Stored /\ enriched \subseteq Stored
  /\ credits \in [Films -> 0 .. Cardinality(Enrichers)]
  /\ cursor \in 0 .. Len(rows)
  /\ \A e \in Enrichers : /\ enricher[e].at \in {"rest", "fetch", "save", "close"}
                          /\ enricher[e].todo \subseteq visible
                          /\ {enricher[e].id, enricher[e].before} \subseteq visible \cup {0}
  /\ \A i \in Importers : /\ importer[i].at \in {"rest", "choose", "block", "newest", "full"}
                          /\ importer[i].held \subseteq DOMAIN rows \ visible
                          /\ importer[i].left \subseteq Films
  /\ checkpoint \subseteq Blocks /\ torn \subseteq Blocks /\ shared \subseteq Films
  /\ imports \in 0 .. MaxImports

CatalogueInit ==
  /\ rows = <<>> /\ visible = {} /\ late = {}
  /\ identified = {} /\ enriched = {} /\ shared = {} /\ torn = {}
  /\ credits = [f \in Films |-> 0]
  /\ cursor = 0 /\ imports = 0 /\ checkpoint = {}
  /\ enricher = [e \in Enrichers |-> Resting]
  /\ importer = [i \in Importers |-> NoImport]

-----------------------------------------------------------------------------
(* Enrichment.                                                             *)

FilmAt(e) == rows[enricher[e].id]

(* The batches of a task that finds the movies of S behind its cursor:     *)
(* there is one, the first of them by id.  The variant counts on without   *)
(* gaps.                                                                   *)
Numbered(S) == {(cursor + 1) .. (cursor + EnrichBatch)}
FirstOf(S) ==
  LET size == IF Cardinality(S) < EnrichBatch THEN Cardinality(S) ELSE EnrichBatch IN
  {B \in SUBSET S : Cardinality(B) = size /\ \A m \in B, n \in S \ B : m < n}

(* metadata_enrichment: the next movies by id, or the cycle starts over.   *)
TakeBatch(e) ==
  LET ahead == {id \in visible : id > cursor} IN
  /\ enricher[e].at = "rest"
  /\ IF ahead = {}
       THEN /\ cursor' = 0
            /\ late' = IF \E d \in Enrichers : enricher[d].task THEN late ELSE {}
            /\ UNCHANGED enricher
       ELSE /\ \E batch \in FirstOf(ahead) :
                 enricher' = [enricher EXCEPT ![e] =
                   [Resting EXCEPT !.at = "fetch", !.todo = batch, !.task = TRUE]]
            /\ UNCHANGED <<cursor, late>>
  /\ UNCHANGED <<rows, visible, identified, credits, importer, checkpoint, imports, enriched,
                 shared, torn>>

(* A repair, a research step or an import names one movie; the cursor is   *)
(* not its business.                                                       *)
TakeOne(e, id) ==
  /\ enricher[e].at = "rest"
  /\ enricher' = [enricher EXCEPT ![e] = [Resting EXCEPT !.at = "fetch", !.todo = {id}]]
  /\ UNCHANGED <<rows, visible, identified, credits, cursor, importer, checkpoint, imports,
                 enriched, late, shared, torn>>

(* The payload of the next movie is there and the upserts have looked for  *)
(* what is stored.                                                         *)
AbsentBlindly(f) == credits[f] < 2
Absent(f) == credits[f] = 0
Unclaimed(f) == \A g \in identified : ImdbOf[g] # ImdbOf[f]
LookUp(e) ==
  /\ enricher[e].at = "fetch"
  /\ \E id \in enricher[e].todo :
       /\ \A n \in enricher[e].todo : id <= n
       /\ enricher' = [enricher EXCEPT ![e].at = "save", ![e].id = id,
                         ![e].absent = Absent(rows[id]), ![e].free = Unclaimed(rows[id])]
       /\ shared' = IF \E d \in Enrichers \ {e} : enricher[d].at = "save" /\ enricher[d].id = id
                      THEN shared \cup {rows[id]} ELSE shared
  /\ UNCHANGED <<rows, visible, identified, credits, cursor, importer, checkpoint, imports,
                 enriched, late, torn>>

(* The commit of enrich_movie.  It carries the cursor of the movie before. *)
(* A credit has a NULL job or character, so the unique constraint lets a   *)
(* second one in; an IMDb id is unique, and one taken since fails it all.  *)
CursorEarly(e) ==
  IF enricher[e].task THEN CHOOSE n \in enricher[e].todo : \A m \in enricher[e].todo : m <= n ELSE cursor
CursorAfter(e) == IF enricher[e].before # 0 THEN enricher[e].before ELSE cursor

SaveEnriched(e) ==
  LET f == FilmAt(e)
      here == enricher[e]
      rest == here.todo \ {here.id}
  IN
  /\ here.at = "save"
  /\ here.free => Unclaimed(f)
  /\ credits' = [credits EXCEPT ![f] = IF here.absent THEN @ + 1 ELSE @]
  /\ identified' = IF here.free THEN identified \cup {f} ELSE identified
  /\ enriched' = enriched \cup {f}
  /\ cursor' = CursorAfter(e)
  /\ enricher' = [enricher EXCEPT ![e] =
       IF ~here.task THEN Resting
       ELSE [Resting EXCEPT !.at = IF rest = {} THEN "close" ELSE "fetch", !.task = TRUE,
                            !.todo = rest, !.before = here.id]]
  /\ UNCHANGED <<rows, visible, importer, checkpoint, imports, late, shared, torn>>

CloseBatch(e) ==
  /\ enricher[e].at = "close"
  /\ cursor' = enricher[e].before
  /\ enricher' = [enricher EXCEPT ![e] = Resting]
  /\ UNCHANGED <<rows, visible, identified, credits, importer, checkpoint, imports, enriched,
                 late, shared, torn>>

(* TMDB or the database raised, or the worker died: what the session had   *)
(* not committed is gone, and a retry starts at the stored cursor.         *)
EnricherStops(e) ==
  /\ enricher[e].at # "rest"
  /\ enricher' = [enricher EXCEPT ![e] = Resting]
  /\ UNCHANGED <<rows, visible, identified, credits, cursor, importer, checkpoint, imports,
                 enriched, late, shared, torn>>

-----------------------------------------------------------------------------
(* The importers.                                                          *)

(* What an importer goes through, and what it has to do on page p of it.   *)
ListOf(mode, block) == IF mode = "block" THEN Pages[block] ELSE Newest
FilmsOn(list, p) == IF p \in DOMAIN list THEN list[p] ELSE {}
Reading(i) == importer[i].at \in {"block", "newest", "full"}
List(i) == ListOf(importer[i].at, importer[i].block)
TurnTo(i, p) ==
  importer' = [importer EXCEPT ![i] = [@ EXCEPT !.page = p, !.left = FilmsOn(List(i), p), !.held = {}]]

BeginImport(i, mode) ==
  /\ importer[i].at = "rest" /\ imports < MaxImports
  /\ imports' = imports + 1
  /\ IF mode = "choose"
       THEN \E done \in {checkpoint, {}} :
              importer' = [importer EXCEPT ![i] = [NoImport EXCEPT !.at = mode, !.done = done]]
       ELSE importer' = [importer EXCEPT ![i] =
              [NoImport EXCEPT !.at = mode, !.page = 1, !.left = Newest[1]]]
  /\ UNCHANGED <<rows, visible, identified, credits, cursor, enricher, checkpoint, enriched, late,
                 shared, torn>>

(* _import_language_year: the next block not done, page by page.           *)
StartBlock(i) ==
  /\ importer[i].at = "choose"
  /\ IF importer[i].done = Blocks
       THEN importer' = [importer EXCEPT ![i] = NoImport]
       ELSE LET b == CHOOSE c \in Blocks : c \notin importer[i].done IN
            importer' = [importer EXCEPT ![i] =
              [@ EXCEPT !.at = "block", !.block = b, !.page = 1, !.left = FilmsOn(Pages[b], 1)]]
  /\ UNCHANGED <<rows, visible, identified, credits, cursor, enricher, checkpoint, imports,
                 enriched, late, shared, torn>>

(* One movie of the page: a known one is overwritten; a new one has its    *)
(* row flushed, unless another session has flushed one for the film: then  *)
(* the insert waits for that session.                                      *)
HeldByOthers(i) == UNION {FilmsOf(importer[j].held) : j \in Importers \ {i}}
StoreMovie(i, f) ==
  /\ f \in importer[i].left
  /\ f \notin HeldByOthers(i)
  /\ IF f \in Stored
       THEN importer' = [importer EXCEPT ![i].left = @ \ {f}] /\ UNCHANGED rows
       ELSE /\ rows' = Append(rows, f)
            /\ importer' = [importer EXCEPT ![i].left = @ \ {f}, ![i].held = @ \cup {Len(rows) + 1}]
  /\ UNCHANGED <<visible, identified, credits, cursor, enricher, checkpoint, imports, enriched,
                 late, shared, torn>>

(* The commit of a page.  IncrementalTMDbSync stops at a page without a    *)
(* new movie; sync_movies reads them all.                                  *)
Passed(id) ==
  \/ id <= cursor
  \/ \E e \in Enrichers : /\ enricher[e].task
                          /\ \E n \in enricher[e].todo \cup {enricher[e].before} : id < n
CommitPage(i) ==
  LET here == importer[i] IN
  /\ Reading(i) /\ here.page \in DOMAIN List(i) /\ here.left = {}
  /\ visible' = visible \cup here.held
  /\ late' = late \cup {id \in here.held : Passed(id)}
  /\ IF here.at # "block" /\ (here.page = Len(Newest) \/ (here.at = "newest" /\ here.held = {}))
       THEN importer' = [importer EXCEPT ![i] = NoImport]
       ELSE TurnTo(i, here.page + 1)
  /\ UNCHANGED <<rows, identified, credits, cursor, enricher, checkpoint, imports, enriched,
                 shared, torn>>

(* A failed page is rolled back and passed over; without the first page    *)
(* there is no other.                                                      *)
BlockPageFails(i) ==
  LET b == importer[i].block IN
  /\ importer[i].at = "block" /\ importer[i].page \in DOMAIN Pages[b]
  /\ \E page \in {importer[i].page + 1} \cup (IF importer[i].page = 1 THEN {Len(Pages[b]) + 1} ELSE {}) :
       TurnTo(i, page)
  /\ torn' = torn \cup {b}
  /\ UNCHANGED <<rows, visible, identified, credits, cursor, enricher, checkpoint, imports,
                 enriched, late, shared>>

BlockRead(i) == importer[i].page > Len(Pages[importer[i].block])
EndBlock(i) ==
  LET done == importer[i].done \cup {importer[i].block} IN
  /\ importer[i].at = "block" /\ BlockRead(i)
  /\ checkpoint' = done
  /\ importer' = [importer EXCEPT ![i] = [NoImport EXCEPT !.at = "choose", !.done = done]]
  /\ UNCHANGED <<rows, visible, identified, credits, cursor, enricher, imports, enriched, late,
                 shared, torn>>

ImporterStops(i) ==
  /\ importer[i].at # "rest"
  /\ importer' = [importer EXCEPT ![i] = NoImport]
  /\ UNCHANGED <<rows, visible, identified, credits, cursor, enricher, checkpoint, imports,
                 enriched, late, shared, torn>>

CatalogueNext ==
  \/ \E e \in Enrichers :
       \/ TakeBatch(e) \/ LookUp(e) \/ SaveEnriched(e) \/ CloseBatch(e) \/ EnricherStops(e)
       \/ \E id \in visible : TakeOne(e, id)
  \/ \E i \in Importers :
       \/ \E mode \in {"choose", "newest", "full"} : BeginImport(i, mode)
       \/ StartBlock(i) \/ CommitPage(i) \/ BlockPageFails(i) \/ EndBlock(i) \/ ImporterStops(i)
       \/ \E f \in Films : StoreMovie(i, f)

CatalogueSpec == CatalogueInit /\ [][CatalogueNext]_catalogueVars

-----------------------------------------------------------------------------
(* A checkpoint runs ahead of the work for nothing but what comes late:    *)
(* every movie up to the cursor was enriched, unless it was committed      *)
(* behind the cursor in this cycle, and every movie of a block on file is  *)
(* stored unless a page of it failed.                                      *)
CheckpointsTrailWork ==
  /\ \A id \in visible \ late : id <= cursor => rows[id] \in enriched
  /\ \A b \in checkpoint \ torn : \A p \in DOMAIN Pages[b] : Pages[b][p] \subseteq Stored

(* A credit is stored once, unless two sessions enriched the movie at once.*)
CreditOnce == \A f \in Films \ shared : credits[f] <= 1
=============================================================================
