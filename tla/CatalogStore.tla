---------------------------- MODULE CatalogStore ----------------------------
(***************************************************************************)
(* The Postgres tables that the CMS and the importer write: shows,         *)
(* episodes and external_refs, with the statements the repositories run    *)
(* against them.  Every repository method is one autocommitted statement   *)
(* (no caller opens a transaction), so each is one atomic step here; what  *)
(* is between two statements of one request is left to interleave.         *)
(*                                                                         *)
(* Rows keep the columns some property tells apart: keys, status, the      *)
(* publication date, the title (written by the CMS and by imports), lang   *)
(* (for language and format, which only the CMS updates) and created_by.   *)
(***************************************************************************)
EXTENDS Integers

CONSTANTS
    ShowIds, EpisodeIds,    \* UUIDs the program may generate
    Slugs, Titles, Langs,   \* column values
    Numbers,                \* episode numbers (the column has no CHECK)
    Sources, ExtIds,        \* external_refs keys
    Sessions, Runs,         \* CMS requests and import runs (they create rows)
    Unreliable,             \* the sessions and runs whose calls may be cut
    None                    \* no row, nil pointer, no reference

ASSUME StoreAssumption ==
    /\ None \notin ShowIds \cup EpisodeIds \cup Titles \cup Langs
    /\ ShowIds \cap EpisodeIds = {}
    /\ Sessions \cap Runs = {}
    /\ Unreliable \subseteq Sessions \cup Runs
    /\ Numbers \subseteq Int

VARIABLES
    shows,          \* shows[i]: a ShowRow, or None
    episodes,       \* episodes[e]: an EpisodeRow, or None
    showRefs,       \* showRefs[src, ext]: owner_id of an OwnerShow ref, or None
    episodeRefs     \* episodeRefs[src, ext]: owner_id of an OwnerEpisode ref

storeVars == <<shows, episodes, showRefs, episodeRefs>>

\* StatusArchived is in the CHECK constraints, but no code writes it.
Status == {"draft", "published", "archived"}

\* published_at: NULL, the date the source gave, or the time of a CMS publish.
PublishDates == {"null", "source", "cms"}

ShowRow == [slug : Slugs, title : Titles, lang : Langs, status : Status,
            createdBy : Sessions \cup Runs]

EpisodeRow == [show : ShowIds, slug : Slugs, number : Numbers, title : Titles,
               status : Status, publishedAt : PublishDates,
               createdBy : Sessions \cup Runs]

ASSUME RowAssumption == None \notin ShowRow \cup EpisodeRow

StoreTypeOK ==
    /\ shows \in [ShowIds -> ShowRow \cup {None}]
    /\ episodes \in [EpisodeIds -> EpisodeRow \cup {None}]
    /\ showRefs \in [Sources \X ExtIds -> ShowIds \cup {None}]
    /\ episodeRefs \in [Sources \X ExtIds -> EpisodeIds \cup {None}]

StoreInit ==
    /\ shows = [i \in ShowIds |-> None]
    /\ episodes = [e \in EpisodeIds |-> None]
    /\ showRefs = [k \in Sources \X ExtIds |-> None]
    /\ episodeRefs = [k \in Sources \X ExtIds |-> None]

----------------------------------------------------------------------------
(* The unique constraints: slug on shows, (show_id, slug) and              *)
(* (show_id, episode_number) on episodes.  The row being written is i.     *)

ShowClash(i, row) ==
    \E j \in ShowIds \ {i} : shows[j] # None /\ shows[j].slug = row.slug

\* Mutant: a row clashes with itself.
EpisodeClashOrSelf(e, row) ==
    \E f \in EpisodeIds :
        /\ episodes[f] # None
        /\ episodes[f].show = row.show
        /\ episodes[f].slug = row.slug \/ episodes[f].number = row.number

EpisodeClash(e, row) ==
    \E f \in EpisodeIds \ {e} :
        /\ episodes[f] # None
        /\ episodes[f].show = row.show
        /\ episodes[f].slug = row.slug \/ episodes[f].number = row.number

\* ShowRepository.Create and Update: nil, ErrConflict or ErrNotFound.
CreateShowResult(i, row) == IF ShowClash(i, row) THEN "conflict" ELSE "ok"

UpdateShowResult(i, row) ==
    IF shows[i] = None THEN "notfound" ELSE CreateShowResult(i, row)

PutShow(i, row, result) ==
    shows' = IF result = "ok" THEN [shows EXCEPT ![i] = row] ELSE shows

\* EpisodeRepository.Create and Update; a missing parent breaks the foreign
\* key, which is not a unique violation and so stays a plain error.
CreateEpisodeResult(e, row) ==
    IF shows[row.show] = None THEN "error"
    ELSE IF EpisodeClash(e, row) THEN "conflict" ELSE "ok"

UpdateEpisodeResult(e, row) ==
    IF episodes[e] = None THEN "notfound" ELSE CreateEpisodeResult(e, row)

PutEpisode(e, row, result) ==
    episodes' = IF result = "ok" THEN [episodes EXCEPT ![e] = row] ELSE episodes

\* Mutant: ON CONFLICT DO UPDATE.
UpsertRefResult(refs, key) == "ok"

\* ExternalRefRepository.Create on refs, one of the two parts of the table.
CreateRefResult(refs, key) == IF refs[key] = None THEN "ok" ELSE "conflict"

WithRef(refs, key, owner, result) ==
    IF result = "ok" THEN [refs EXCEPT ![key] = owner] ELSE refs

\* What the caller of a statement is told: cut calls answer with an error.
Answers(caller, result) ==
    {result} \cup (IF caller \in Unreliable THEN {"error"} ELSE {})

----------------------------------------------------------------------------
(* The constraints of migrations/0001_catalog.up.sql, as facts about the   *)
(* tables: slugs are unique among shows, slugs and numbers are unique      *)
(* within a show, and every episode has its show.                          *)
ShowsUnique == \A i \in ShowIds : shows[i] # None => ~ShowClash(i, shows[i])

EpisodesUnique ==
    \A e \in EpisodeIds : episodes[e] # None => ~EpisodeClash(e, episodes[e])

EpisodesHaveShows ==
    \A e \in EpisodeIds : episodes[e] # None => shows[episodes[e].show] # None

CatalogConstraints == ShowsUnique /\ EpisodesUnique /\ EpisodesHaveShows
=============================================================================
