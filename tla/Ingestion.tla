----------------------------- MODULE Ingestion -----------------------------
(***************************************************************************)
(* Imports (internal/ingestion): a run fetches one document, turns it into *)
(* a show with its episodes, and upserts them one statement at a time.  An *)
(* external ref (source, type, external id) says which row an item became. *)
(* FindOwner, GetByID, Update, and on the other branch Create and then     *)
(* refs.Create, are separate statements with no transaction around them.   *)
(*                                                                         *)
(* A run takes its document in one step (the HTTP client or the file gives *)
(* all of it or an error) and keeps it; two runs of one feed may be given  *)
(* different documents, since the feed changes.  Names (ids, titles) are   *)
(* strings in the code; here they are elements of ExtIds, and Slugify maps *)
(* them to Slugs, two of them to one slug where the code does.             *)
(***************************************************************************)
EXTENDS CatalogStore, Sequences

CONSTANTS
    Documents,      \* the RSS feeds and CSV files a run may be given
    Slugify,        \* slugify: a function from names to slugs
    DefaultLang     \* "ar"

ASSUME NamesAssumption ==
    /\ Titles \subseteq ExtIds
    /\ Slugify \in [ExtIds -> Slugs]
    /\ DefaultLang \in Langs

\* ImportedEpisode and ImportedShow; lang is None for an empty language.
ImportedEpisode == [ext : ExtIds, title : Titles, slug : Slugs,
                    number : Numbers, date : {"null", "source"}]

ImportedShow == [ext : ExtIds, title : Titles, slug : Slugs,
                 lang : Langs \cup {None}, episodes : Seq(ImportedEpisode)]

----------------------------------------------------------------------------
(* The importers.  An item with no guid goes by its title; its number is   *)
(* its position in the feed, the newest item being first in most feeds; a  *)
(* date no layout parses is the zero time, stored as NULL.                 *)
RSSImport(d) ==
    [ext |-> d.query, title |-> d.title, slug |-> Slugify[d.title], lang |-> d.lang,
     episodes |-> [i \in DOMAIN d.items |->
        LET ext == IF d.items[i].guid = None THEN d.items[i].title
                                             ELSE d.items[i].guid
        IN  [ext |-> ext, title |-> d.items[i].title, slug |-> Slugify[ext],
             number |-> i, date |-> IF d.items[i].dated THEN "source" ELSE "null"]]]

(* A file whose rows have fewer than five columns has no episodes (the     *)
(* reader refuses rows of unequal width); a first row of column names is   *)
(* dropped; a row carries no date.  A row's number is what Atoi makes of   *)
(* the cell, which may be negative, or None when it does not parse: then   *)
(* it is 0.  One that the column cannot hold fails the insert (CallFails). *)
CSVImport(d) ==
    LET rows == IF d.columns < 5 THEN <<>>
                ELSE IF d.header THEN Tail(d.rows) ELSE d.rows
    IN  [ext |-> d.query, title |-> d.title, slug |-> Slugify[d.title],
         lang |-> DefaultLang,
         episodes |-> [i \in DOMAIN rows |->
            [ext |-> rows[i].ext, title |-> rows[i].title,
             slug |-> Slugify[rows[i].ext],
             number |-> IF rows[i].number = None THEN 0 ELSE rows[i].number,
             date |-> "null"]]]

ImportOf(d) == IF d.source = "rss" THEN RSSImport(d) ELSE CSVImport(d)

ASSUME DocumentAssumption ==
    \A d \in Documents : d.source \in Sources /\ ImportOf(d) \in ImportedShow

----------------------------------------------------------------------------
VARIABLE imp    \* imp[r]: the import run r, a goroutine serving POST /imports

Stopped == {"done", "conflict", "failed"}

RunPcs == {"idle", "findShow", "getShow", "updateShow", "insertShow", "refShow",
           "findEpisode", "getEpisode", "updateEpisode", "insertEpisode",
           "refEpisode"} \cup Stopped

(* src and data are the request's source and its document; next is the     *)
(* episode at hand; show is the row upsertShow returned; owner is the row  *)
(* at hand (found, or generated); copy is what Update will write; created  *)
(* holds the items counted as created, all others being counted as updated.*)
ImportRun == [pc : RunPcs, src : Sources \cup {None},
              data : ImportedShow \cup {None}, next : Nat,
              show : ShowIds \cup {None},
              owner : ShowIds \cup EpisodeIds \cup {None},
              copy : ShowRow \cup EpisodeRow \cup {None},
              created : SUBSET ({"show", "episode"} \X ExtIds)]

IngestionInit ==
    imp = [r \in Runs |->
              [pc |-> "idle", src |-> None, data |-> None, next |-> 1, show |-> None,
               owner |-> None, copy |-> None, created |-> {}]]

Item(r) == imp[r].data.episodes[imp[r].next]

ShowKey(r) == <<imp[r].src, imp[r].data.ext>>
ItemKey(r) == <<imp[r].src, Item(r).ext>>

\* Mutant: a conflict is taken for success.
AfterAnyway(code, pc) == IF code = "error" THEN "failed" ELSE pc

\* Where a call leads: on, or out of Run with a 409 or another error.
After(code, pc) ==
    IF code = "ok" THEN pc ELSE IF code = "conflict" THEN "conflict" ELSE "failed"

Become(r, new) == imp' = [imp EXCEPT ![r] = new]

Stop(r, code) ==
    Become(r, [imp[r] EXCEPT !.pc = After(code, "done"), !.copy = None])

\* Mutant: the loop leaves out the last item.
LoopPcShort(r, n) == IF n >= Len(imp[r].data.episodes) THEN "done" ELSE "findEpisode"

\* The loop over data.Episodes, at item n.
LoopPc(r, n) == IF n > Len(imp[r].data.episodes) THEN "done" ELSE "findEpisode"

\* upsertShow returns the row at hand, upsertEpisode its outcome; Run goes on.
ShowDone(r, new) ==
    Become(r, [imp[r] EXCEPT !.pc = LoopPc(r, 1), !.show = imp[r].owner,
                             !.copy = None, !.created = new])

ItemDone(r, new) ==
    Become(r, [imp[r] EXCEPT !.pc = LoopPc(r, imp[r].next + 1),
                             !.next = imp[r].next + 1,
                             !.copy = None, !.created = imp[r].created \cup new])

----------------------------------------------------------------------------
\* A source that is not enabled, cannot be read or, as YouTube, is not there yet.
ImportFails(r) == Stop(r, "error")

\* Run: the importer answers with a document, or with an error.
Fetch(r) ==
    /\ imp[r].pc = "idle"
    /\ \/ \E d \in Documents :
             Become(r, [imp[r] EXCEPT !.pc = "findShow", !.src = d.source,
                                      !.data = ImportOf(d)])
       \/ ImportFails(r)
    /\ UNCHANGED storeVars

\* upsertShow
FindShowOwner(r) ==
    /\ imp[r].pc = "findShow"
    /\ LET found == showRefs[ShowKey(r)]
       IN  Become(r, [imp[r] EXCEPT
                  !.pc = IF found = None THEN "insertShow" ELSE "getShow",
                  !.owner = found])
    /\ UNCHANGED storeVars

\* Mutant: CreatedBy is set in the place of UpdatedBy.
RefreshedShowBy(r, row) == [row EXCEPT !.title = imp[r].data.title, !.createdBy = r]

RefreshedShow(r, row) == [row EXCEPT !.title = imp[r].data.title]

GetShow(r) ==
    /\ imp[r].pc = "getShow"
    /\ LET row == shows[imp[r].owner]
       IN  IF row = None
           THEN Stop(r, "notfound")
           ELSE Become(r, [imp[r] EXCEPT !.pc = "updateShow",
                                         !.copy = RefreshedShow(r, row)])
    /\ UNCHANGED storeVars

\* Mutant: an update is counted as a creation.
UpdateShowCounted(r) ==
    /\ imp[r].pc = "updateShow"
    /\ LET result == UpdateShowResult(imp[r].owner, imp[r].copy)
       IN  /\ PutShow(imp[r].owner, imp[r].copy, result)
           /\ \E code \in Answers(r, result) :
                 IF code = "ok" THEN ShowDone(r, {<<"show", imp[r].data.ext>>})
                                ELSE Stop(r, code)
    /\ UNCHANGED <<episodes, showRefs, episodeRefs>>

UpdateShow(r) ==
    /\ imp[r].pc = "updateShow"
    /\ LET result == UpdateShowResult(imp[r].owner, imp[r].copy)
       IN  /\ PutShow(imp[r].owner, imp[r].copy, result)
           /\ \E code \in Answers(r, result) :
                 IF code = "ok" THEN ShowDone(r, {}) ELSE Stop(r, code)
    /\ UNCHANGED <<episodes, showRefs, episodeRefs>>

\* Mutant: the language has no default.
NewShowOfNoLang(r) ==
    [slug |-> imp[r].data.slug, title |-> imp[r].data.title, lang |-> imp[r].data.lang,
     status |-> "published", createdBy |-> r]

\* NewShow, then published: imported content is already live on the source.
NewShowOf(r) ==
    [slug |-> imp[r].data.slug, title |-> imp[r].data.title,
     lang |-> IF imp[r].data.lang = None THEN DefaultLang ELSE imp[r].data.lang,
     status |-> "published", createdBy |-> r]

AddShow(r) ==
    /\ imp[r].pc = "insertShow"
    /\ \E i \in ShowIds :
          LET result == CreateShowResult(i, NewShowOf(r))
          IN  /\ shows[i] = None
              /\ PutShow(i, NewShowOf(r), result)
              /\ \E code \in Answers(r, result) :
                    Become(r, [imp[r] EXCEPT !.pc = After(code, "refShow"),
                                             !.owner = i])
    /\ UNCHANGED <<episodes, showRefs, episodeRefs>>

RefShow(r) ==
    /\ imp[r].pc = "refShow"
    /\ LET result == CreateRefResult(showRefs, ShowKey(r))
       IN  /\ showRefs' = WithRef(showRefs, ShowKey(r), imp[r].owner, result)
           /\ \E code \in Answers(r, result) :
                 IF code = "ok" THEN ShowDone(r, {<<"show", imp[r].data.ext>>})
                                ELSE Stop(r, code)
    /\ UNCHANGED <<shows, episodes, episodeRefs>>

----------------------------------------------------------------------------
\* upsertEpisode, for the item at hand

\* Mutant: the look-up takes the show's external id.
FoundEpisodeByShow(r) == episodeRefs[ShowKey(r)]

FoundEpisode(r) == episodeRefs[ItemKey(r)]

FindEpisodeOwner(r) ==
    /\ imp[r].pc = "findEpisode"
    /\ LET found == FoundEpisode(r)
       IN  Become(r, [imp[r] EXCEPT
                  !.pc = IF found = None THEN "insertEpisode" ELSE "getEpisode",
                  !.owner = found])
    /\ UNCHANGED storeVars

\* Mutants: the row is refreshed as a draft; it moves to the show of this run.
RefreshedEpisodeDraft(r, row) == [row EXCEPT !.title = Item(r).title, !.status = "draft"]
RefreshedEpisodeShow(r, row) ==
    [row EXCEPT !.title = Item(r).title, !.show = imp[r].show]

RefreshedEpisode(r, row) == [row EXCEPT !.title = Item(r).title]

GetEpisode(r) ==
    /\ imp[r].pc = "getEpisode"
    /\ LET row == episodes[imp[r].owner]
       IN  IF row = None
           THEN Stop(r, "notfound")
           ELSE Become(r, [imp[r] EXCEPT !.pc = "updateEpisode",
                                         !.copy = RefreshedEpisode(r, row)])
    /\ UNCHANGED storeVars

UpdateEpisode(r) ==
    /\ imp[r].pc = "updateEpisode"
    /\ LET result == UpdateEpisodeResult(imp[r].owner, imp[r].copy)
       IN  /\ PutEpisode(imp[r].owner, imp[r].copy, result)
           /\ \E code \in Answers(r, result) :
                 IF code = "ok" THEN ItemDone(r, {}) ELSE Stop(r, code)
    /\ UNCHANGED <<shows, showRefs, episodeRefs>>

NewEpisodeOf(r) ==
    [show |-> imp[r].show, slug |-> Item(r).slug, number |-> Item(r).number,
     title |-> Item(r).title, status |-> "published",
     publishedAt |-> Item(r).date, createdBy |-> r]

\* Mutant: on a conflict the item is tried again.
AddEpisodeAgain(r) ==
    /\ imp[r].pc = "insertEpisode"
    /\ \E e \in EpisodeIds :
          LET result == CreateEpisodeResult(e, NewEpisodeOf(r))
          IN  /\ episodes[e] = None
              /\ PutEpisode(e, NewEpisodeOf(r), result)
              /\ Become(r, [imp[r] EXCEPT !.owner = e,
                    !.pc = IF result = "ok" THEN "refEpisode" ELSE "findEpisode"])
    /\ UNCHANGED <<shows, showRefs, episodeRefs>>

AddEpisode(r) ==
    /\ imp[r].pc = "insertEpisode"
    /\ \E e \in EpisodeIds :
          LET result == CreateEpisodeResult(e, NewEpisodeOf(r))
          IN  /\ episodes[e] = None
              /\ PutEpisode(e, NewEpisodeOf(r), result)
              /\ \E code \in Answers(r, result) :
                    Become(r, [imp[r] EXCEPT !.pc = After(code, "refEpisode"),
                                             !.owner = e])
    /\ UNCHANGED <<shows, showRefs, episodeRefs>>

RefEpisode(r) ==
    /\ imp[r].pc = "refEpisode"
    /\ LET result == CreateRefResult(episodeRefs, ItemKey(r))
       IN  /\ episodeRefs' = WithRef(episodeRefs, ItemKey(r), imp[r].owner, result)
           /\ \E code \in Answers(r, result) :
                 IF code = "ok" THEN ItemDone(r, {<<"episode", Item(r).ext>>})
                                ELSE Stop(r, code)
    /\ UNCHANGED <<shows, episodes, showRefs>>

----------------------------------------------------------------------------
\* A statement of r fails without effect; whatever it had done stays done.
CallFails(r) ==
    /\ r \in Unreliable
    /\ imp[r].pc \notin Stopped \cup {"idle"}
    /\ Stop(r, "error")
    /\ UNCHANGED storeVars

UpsertShow(r) ==
    FindShowOwner(r) \/ GetShow(r) \/ UpdateShow(r) \/ AddShow(r) \/ RefShow(r)

UpsertEpisode(r) ==
    \/ FindEpisodeOwner(r) \/ GetEpisode(r) \/ UpdateEpisode(r)
    \/ AddEpisode(r) \/ RefEpisode(r)

ImportStep(r) == Fetch(r) \/ UpsertShow(r) \/ UpsertEpisode(r) \/ CallFails(r)
=============================================================================
