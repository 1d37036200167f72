----------------------------- MODULE Discovery -----------------------------
(***************************************************************************)
(* The reads by slug of the Discovery service (internal/discovery) next to *)
(* the write path: getShow, listShowEpisodes and getEpisode, each through  *)
(* cache.Remember.  The readers are of different processes, which share    *)
(* the cache and the tables; readers of one process, which share loads,    *)
(* are in ReadCache.                                                       *)
(*                                                                         *)
(* What is cached or given is kept as the ids of its rows.  That the other *)
(* columns of a cached row may be old is in ReadCache, too.                *)
(***************************************************************************)
EXTENDS WritePath

CONSTANTS
    Readers,        \* requests of the public
    AskedSlugs      \* the slugs they ask for

ASSUME DiscoveryAssumption == AskedSlugs \subseteq Slugs

VARIABLES
    entry,      \* entry[kind, slug]: the rows cached under a key, or None
    reader      \* reader[r]: the request r is serving, or served last

readVars == <<entry, reader>>
allVars == <<vars, entry, reader>>

Kinds == {"show", "list", "episode"}    \* of requests, and of keys
Keys == Kinds \X AskedSlugs
RowSets == (SUBSET ShowIds) \cup (SUBSET EpisodeIds)

(* A request Remembers one key, listShowEpisodes one after the other two:  *)
(* it looks (get), loads and fills.  show is what getShow returned, rows   *)
(* what was loaded or given.  before is history: the episodes that were    *)
(* published when getEpisode was called.                                   *)
Reader ==
    [pc : {"idle", "get", "load", "fill"}, op : Kinds, key : Kinds, slug : AskedSlugs,
     show : ShowIds \cup {None}, rows : RowSets,
     code : {"ok", "notfound", "error"}, before : SUBSET EpisodeIds]

ReadTypeOK ==
    /\ entry \in [Keys -> RowSets \cup {None}]
    /\ reader \in [Readers -> Reader]

ReadInit ==
    /\ Init
    /\ entry = [k \in Keys |-> None]
    /\ reader \in [Readers ->
          [pc : {"idle"}, op : {"show"}, key : {"show"}, slug : AskedSlugs,
           show : {None}, rows : {{}}, code : {"error"}, before : {{}}]]

Published(row) == row # None /\ row.status = "published"

PublicEpisodes == {e \in EpisodeIds : Published(episodes[e])}

----------------------------------------------------------------------------
At(r, pc) == reader[r].pc = pc
Key(r) == <<reader[r].key, reader[r].slug>>
ReaderTo(r, new) == reader' = [reader EXCEPT ![r] = new]

Answer(r, code, rows) ==
    ReaderTo(r, [reader[r] EXCEPT !.pc = "idle", !.show = None, !.rows = rows,
                                  !.code = code])

\* Remember returns: listShowEpisodes goes on with its second key.
Proceed(r, rows) ==
    IF reader[r].op = "list" /\ reader[r].key = "show"
    THEN \E i \in rows :
            ReaderTo(r, [reader[r] EXCEPT !.pc = "get", !.key = "list", !.show = i,
                                          !.rows = {}])
    ELSE Answer(r, "ok", rows)

\* A handler begins.
Ask(r) ==
    /\ At(r, "idle")
    /\ \E op \in Kinds, slug \in AskedSlugs :
          ReaderTo(r, [pc |-> "get", op |-> op,
                       key |-> IF op = "list" THEN "show" ELSE op,
                       slug |-> slug, show |-> None, rows |-> {}, code |-> "ok",
                       before |-> IF op = "episode" THEN PublicEpisodes ELSE {}])
    /\ UNCHANGED <<vars, entry>>

\* The cache answers; a get that fails counts as a miss.
Look(r) ==
    /\ At(r, "get")
    /\ \/ entry[Key(r)] # None /\ Proceed(r, entry[Key(r)])
       \/ ReaderTo(r, [reader[r] EXCEPT !.pc = "load"])
    /\ UNCHANGED <<vars, entry>>

Loaded(r, rows) == ReaderTo(r, [reader[r] EXCEPT !.pc = "fill", !.rows = rows])

\* Mutants: a draft is given; a row that is not there is cached as such.
GivenAny(r, i, row) == Loaded(r, {i})
GivenNone(r, i, row) == Loaded(r, IF Published(row) THEN {i} ELSE {})

\* A draft is answered as if it was not there.
Given(r, i, row) ==
    IF Published(row) THEN Loaded(r, {i}) ELSE Answer(r, "notfound", {})

(* GetBySlug, then the look at the status.  Of several rows of the slug,   *)
(* which only episodes of several shows can be, the store takes any.       *)
LoadBySlug(r, table, ids) ==
    LET found == {i \in ids : table[i] # None /\ table[i].slug = reader[r].slug}
    IN  \/ \E i \in found : Given(r, i, table[i])
        \/ found = {} /\ Answer(r, "notfound", {})

\* An error is given to the client and not cached.
Load(r) ==
    /\ At(r, "load")
    /\ \/ reader[r].key = "show" /\ LoadBySlug(r, shows, ShowIds)
       \/ reader[r].key = "episode" /\ LoadBySlug(r, episodes, EpisodeIds)
       \/ /\ reader[r].key = "list"
          /\ Loaded(r, {e \in PublicEpisodes : episodes[e].show = reader[r].show})
       \/ Answer(r, "error", {})
    /\ UNCHANGED <<vars, entry>>

\* A set that fails is logged only.
Fill(r) ==
    /\ At(r, "fill")
    /\ Proceed(r, reader[r].rows)
    /\ \/ entry' = [entry EXCEPT ![Key(r)] = reader[r].rows]
       \/ UNCHANGED entry
    /\ UNCHANGED vars

Expire(k) ==
    /\ entry[k] # None
    /\ entry' = [entry EXCEPT ![k] = None]
    /\ UNCHANGED <<vars, reader>>

ReadStep(r) == Ask(r) \/ Look(r) \/ Load(r) \/ Fill(r)

ReadNext ==
    \/ Next /\ UNCHANGED readVars
    \/ \E r \in Readers : ReadStep(r)
    \/ \E k \in Keys : Expire(k)

ReadSpec == ReadInit /\ [][ReadNext]_allVars

----------------------------------------------------------------------------
(* What is cached under a key, or loaded or given by a reader for it.      *)
Holds(key, rows) ==
    \/ entry[key] # None /\ rows = entry[key]
    \/ \E r \in Readers : key = Key(r) /\ ~At(r, "get") /\ rows = reader[r].rows

(* An episode that the public can see stays so: whatever the cache holds   *)
(* and readers were given is still published, although editors and imports *)
(* write old copies of the row back.  Of shows this does not hold.         *)
PublicStays ==
    \A key \in Keys, rows \in SUBSET EpisodeIds :
        Holds(key, rows) => rows \subseteq PublicEpisodes

(* Keys are made of slugs and never dropped, but what is under them is     *)
(* right at any age: rows of that slug, or episodes of the one show that   *)
(* has it.  The list was loaded for a show looked up before.               *)
KeysNameRows ==
    \A key \in Keys, rows \in RowSets : Holds(key, rows) =>
        CASE key[1] = "show" -> \A i \in rows : shows[i].slug = key[2]
          [] key[1] = "episode" -> \A e \in rows : episodes[e].slug = key[2]
          [] key[1] = "list" ->
                \E i \in ShowIds : /\ rows # {} => shows[i].slug = key[2]
                                   /\ \A e \in rows : episodes[e].show = i

\* A notfound of getEpisode has its reason.
Found(r) ==
    (At(r, "idle") /\ reader[r].op = "episode" /\ reader[r].code # "error"
     /\ reader[r].rows = {}) =>
        \A e \in reader[r].before : episodes[e].slug = reader[r].slug =>
            \E f \in EpisodeIds \ {e} :
                episodes[f] # None /\ episodes[f].slug = reader[r].slug

(* getEpisode finds an episode that was published when it was called, with *)
(* the one exception that another show has an episode of the same slug:    *)
(* an answer without a row is not kept for later callers.                  *)
PublishedFound == \A r \in Readers : Found(r)

----------------------------------------------------------------------------
(* The inductive invariant behind these, in parts.                         *)

\* What may be under a key.
RowsNamed(key, rows) ==
    /\ key[1] = "show" =>
          \A i \in rows : i \in ShowIds /\ shows[i] # None /\ shows[i].slug = key[2]
    /\ key[1] \in {"list", "episode"} => rows \subseteq PublicEpisodes
    /\ key[1] = "episode" => \A e \in rows : episodes[e].slug = key[2]
    /\ key[1] = "list" =>
          \E i \in ShowIds : /\ rows # {} => shows[i].slug = key[2]
                             /\ \A e \in rows : episodes[e].show = i

\* No answer without a row is cached for an episode.
EntriesNamed ==
    \A key \in Keys : entry[key] # None =>
        RowsNamed(key, entry[key]) /\ (key[1] = "episode" => entry[key] # {})

\* A request has its one key, and its second with the show of the first.
RightKey(r) ==
    /\ reader[r].op = "episode" <=> reader[r].key = "episode"
    /\ reader[r].key = "list" /\ reader[r].pc \in {"get", "load"} =>
          /\ reader[r].show \in ShowIds /\ shows[reader[r].show] # None
          /\ shows[reader[r].show].slug = reader[r].slug

RightRows(r) ==
    /\ RowsNamed(Key(r), reader[r].rows)
    /\ reader[r].pc \in {"get", "load"} => reader[r].rows = {}
    /\ reader[r].key = "episode" /\ reader[r].pc = "fill" => reader[r].rows # {}

ReaderKept(r) ==
    /\ RightKey(r) /\ RightRows(r) /\ Found(r)
    /\ reader[r].before \subseteq PublicEpisodes

ReadInv == ReadTypeOK /\ EntriesNamed /\ \A r \in Readers : ReaderKept(r)
=============================================================================
