# A TLA+ verification of the Thamanyah content platform

The repository holds two Go services over one Postgres: the **CMS**, where
editors and imports write a catalog of shows and episodes, and **Discovery**,
where the public reads what is published, through a cache. The code is small
and sequential within a request; what is hard about it is what several
requests, import runs, readers, processes and crashes do to the same rows. This
directory models those parts, checks them with TLC and proves some of the
results with TLAPS.

Paths below are relative to `src/internal/` unless they start with `src/`.

## 1. The system

| Component | State | Operations | Talks to |
|---|---|---|---|
| CMS service (`cms/`) | none of its own; copies of rows in the locals of a request | create, update (PATCH), publish a show; create, publish an episode; lists; login; run an import | catalog store, users, ingestion |
| Ingestion (`ingestion/`) | the locals of a run: document, position, row at hand, counts | `Run`: fetch, upsert the show, upsert each episode | importers, catalog store, external refs |
| Importers (`ingestion/rss.go`, `csv.go`, `youtube.go`) | none | turn a feed or a file into a show with episodes | HTTP, files |
| Catalog store (`store/postgres.go`, `migrations/`) | tables `shows`, `episodes`, their uniqueness and foreign-key rules | one SQL statement per call, no transaction over several | |
| External refs (`store/externalref.go`) | table `external_refs`, unique per (source, type, external id) | Create, FindOwner | |
| In-memory store (`store/memory.go`) | maps, sharded over goroutines ("actors") | submit a closure, fan out over the shards | |
| Authentication (`auth/`, `cms/router.go`) | none; tokens carry user, role and scopes | issue a token at login; authenticate and check the permission of each route | users |
| Life of a process (`src/cmd/`, `server/`) | listener, handlers under way | start, listen, signal, shutdown with a grace, close the store, exit | store, users |
| Discovery (`discovery/`) | none | get by slug, search, browse, episodes of a show | cache, catalog store |
| Cache (`cache/`) | entries with a time to live; one singleflight group per process | Remember = get, else load once and set | Redis or memory |
| Users, bootstrap (`store/factory.go`) | table `cms_users` | BootstrapAdmin at start, look-up at login | |
| Middleware, config, logging, metrics, profiling | none that matters here | routing, limits, time-outs | |

What is hard, and what makes each part correct:

* **Whole-row writes of old copies.** `updateShow`, `publishShow`,
  `publishEpisode` and both refreshes of an import read a row in one statement
  and write all of it in another. A write must still apply, must not change
  what its handler has no business with (slug, number, parent, author), and
  should not take back a publish.
* **Two inserts without a transaction.** An import inserts a row and then its
  external ref. A run can be cut in between, and two runs of one document can
  do it at once. A ref must never be rebound, and what a crash costs must be
  bounded.
* **Identity of imported items.** Numbers are positions in a feed, slugs are
  folded names, external ids of episodes are not kept apart by show.
* **Fan-out without a lock.** In the in-memory store a look-up over all shards
  and the insert are separate closures; a cancelled caller leaves a closure
  behind that still runs.
* **A cache that nobody invalidates**, filled by one reader for many, with
  errors of the cache swallowed.
* **Keyset pages** over rows that are published and moved while a client walks
  them, each page cached by itself, some rows without a date.
* **Offset pages** of the CMS lists, whose total is counted in a second call.
* **A read by slug that is not unique.** Episodes of several shows may share a
  slug; Discovery takes any of them, and caches under the slug for a while.
* **Processes that start, stop and crash** on one table of users and maybe one
  address, with handlers that outlast the shutdown and tokens that outlast the
  process.

The full list of hazards, each with its line and the properties that speak of
it, is in `PROJECT.json` under `hazards`.

## 2. Modules

```
CatalogStore ──┬─ CMS ────────┐
               └─ Ingestion ──┴─ WritePath ── MCWritePath             5 runs
                                   │  │ └──── ProvenanceLedger (abstract)
                                   │  └────── Discovery ── MCDiscovery    1 run
                                   │              └─────────────── DiscoveryProofs
                                   └─ WritePathProofs ── WritePathStatusProofs ─┘
                                                              └─ WritePathRefProofs
Bootstrap ──┐
Access ─────┴─ Lifecycle ── MCLifecycle                               1 run
                  └──────── LifecycleProofs
MemoryStore ──── MCMemoryStore                                        2 runs
     └────────── MemoryStoreProofs
ReadCache ────── MCReadCache                                          1 run
     └────────── ReadCacheProofs
Paging ───────── MCPaging                                             2 runs
     └────────── PagingProofs
```

Operators named `...` after the comment `Mutant:` are plausible bugs in the
definition that follows them. They are used by no specification; putting one in
the place of its original shows that a property notices (`mutants` in
`PROJECT.json`).

### CatalogStore, CMS, Ingestion, WritePath

`CatalogStore` has the tables: `shows`, `episodes`, and `external_refs` split by
owner type into `showRefs` and `episodeRefs`. Of a row it keeps the columns that
some code decides on or some property is about; `createdBy` is the request or
run that made the row, which is finer than the user id the code stores, and
`published` is where the date came from. An operation is its outcome (`ok`,
`conflict`, `notfound`) and its effect, from the constraints of the migration;
`Answers` adds that a call of an unreliable caller may be cut, with or without
its effect.

`CMS` and `Ingestion` have one action per statement of the handler: `req[s]` is
the request a session is serving with the copy it holds, `imp[r]` an import run
with its document, position (`next`), row at hand (`owner`) and `copy`. `After`,
`Stop` and `LoopPc` are the error paths of `Service.Run`: the first error ends
the run and nothing is undone. `ImportFails` is an import that yields no
document: of the YouTube importer, which answers every call with an error in
this build, or of any other. The importers are `RSSImport` and `CSVImport`,
pure operators over abstract documents; `slugify` is a function given as a
constant, in the instances one that folds different names together. The number
of a CSV row is what `strconv.Atoi` makes of the cell, a negative one included;
one that the column cannot hold is an insert that fails.

`WritePath` composes the two over the tables. It has three specifications:
`Spec`, `FairSpec` (calls of started runs return) and `SeqSpec` (imports one
after the other, no editors: what an operator who re-runs an import sees).
`ProvenanceLedger` is the abstract promise of the external refs: rows are only
added, a key is bound once, to a row that no other key has, and for good. `RefsAreLedgers` says that shows and episodes each implement it.

### Discovery

`getShow`, `listShowEpisodes` and `getEpisode` as readers next to the whole of
`WritePath`: `Look`, `Load` and `Fill` are the steps of `Remember`, `entry` is
the cache, shared by the readers' processes. `LoadBySlug` takes any row of the
slug before it looks at the status, as the handlers do, and an answer without a
row is not cached. `listShowEpisodes` remembers two keys one after the other,
the second by the slug with the rows of the show it got from the first. Cached
and given rows are kept as ids; how old their other columns may be is the
question of `ReadCache`.

### MemoryStore

One repository of `store/memory.go`. `kind`, chosen at the start from `Kinds`,
says whether it has shows or episodes, sharded by id, or is one actor with
everything (users, external refs), whose look-up and insert are one closure.
Shows and episodes differ in what clashes (`Clash`) and in the copies that are
written back (`Update`): the copy of a show may be a draft, since a PATCH keeps
the status it read, which may take back a publish of another handler; that of an
episode is published, since only a publish and the refresh of an imported
episode write it. The rows that `Importers` create are published from the
beginning. `actor[s]` is the closure a shard has accepted, `call[c]` the
operation of a handler: it walks the shards (`stage` "walk") or runs one closure
(`"direct"`), `sent` and `reply` being the two selects of `submit`. `Asks`
bounds the operations a caller asks for, for each kind. Count and SearchEpisodes
walk as List does, and what they return is in `Paging`. `Cancel` is `ctx.Done`
in either select: the closure stays with the actor and runs later, its answer
going to a channel nobody reads. `Close` lets actors leave their loops.
`OpenSpec` is the repository before `Close`. A generated id that an operation
used is not generated again; when all ids of the instance are used up creates
are no longer enabled, the other operations are.

### ReadCache

`cache.Remember` for one key. The store's row is a version number that only
grows; at the versions in `Hidden` it is absent or not published. A reader goes
through get, do, load, set, finish, or waits for the leader of its process'
group. Processes share the cache and the store, not the group; `processOf`, chosen
at the start from `Placements`, says where each reader's requests arrive.
`unfilled` remembers that a fill failed, for `ReadsNeverGoBack`. `GetFails` and
`SetFails` say whether calls of the cache may fail (a value that does not decode
is a failed get), `Unreliable` whose context may end. A call that failed and is
applied after its error was returned is not modelled.

### Paging

A client's walk through the pages of a search (ordered by `published_at`, which
may be NULL) or of the shows (`created_at`). `kind`, chosen at the start from
`Kinds`, says which, and of which store. `Follows` is the keyset condition, with
the difference between the in-memory store and SQL (`NullsCompare`);
`CursorAfter` is what the handlers compute; `pages` is the cache. One `Ask` is
the whole of an answer: a miss, the load (of the memory store, its walk over the
shards, see `MemoryStore`) and the fill. A publish of an episode may write any
date, since the handler takes the time before it writes and another may write a
later time first.
`written` and `moved` record what happened to rows, for the properties. A row of
state "other" is published and does not meet the query. Of kind "cms" the walk
is through numbered pages: `ListRows` and `CountRows` are the two calls of
`listShows` and `listEpisodes`; the client, which is not in the repository, goes on while
`offset` is below the total. `MaxShifts` bounds how many rows come into the list
or leave it during one walk.

### Bootstrap, Access, Lifecycle

`Bootstrap` has the starts of CMS processes on one table of users: look up, insert, exit on a
conflict; calls that fail, half-way or not, and crashes at any time. Of two
processes that start together the second can exit with a conflict although the
administrator exists; `AllGetUp` needs someone to start it again.

`Access` is roles, permissions, scopes and the permission of each route, without
state. `Lifecycle` adds what a process does when it is up (`phase`): it listens
in a goroutine of its own, whose error is only logged (`"deaf"`), drains its
handlers when told to stop, for no longer than the grace (`overdue`), closes the
store and exits. A client logs in at one process and uses its `token` at any.
`Login` takes the row of the user from the table only for its id: the token is
not checked against the table again.

What `Lifecycle` leaves out: `ListenAndServe` fails only because the address is
taken; a signal before main waits for one ends the process at once, as `Kill`
does; of users other than the administrator it is only said that they are
there, since no operation writes them; the memory backend, which loses its users
with the process, is not looked at; a configuration without an e-mail for the
administrator skips `BootstrapAdmin`. Discovery has the same life without the
bootstrap and the logins.

## 3. Runs

Every run is exhaustive within its bounds; the bounds are the sets in its `.cfg`.

| Run | Question | Instance |
|---|---|---|
| `editors` | Do requests of two editors, with calls that may be cut, keep old copies harmless? | 2 sessions, 2 shows, 1 episode |
| `imports` | What do three runs leave and report, when feeds change, collide, share ids and one run may be cut? | 3 runs, 3 feeds and two contents of one CSV file, 3 shows, 3 episodes |
| `mixed` | An editor and two runs of one feed on the same rows: identities, published state, re-runs, end of every run | 1 session, 2 runs, one of them cut at will; a feed of one item; one slug, so that all meet |
| `grown_feed`, `stale_patch` | two sentences of the docs that do not hold, see below | |
| `discovery` | Is what the public is given published and of the slug it asked for, and is what is published found? | an editor and a run of one feed, 2 shows, 2 episodes; a reader of the one slug that shows and episodes share |
| `memory` | Are answers true while copies are written over each other, lists complete, retries safe, one-actor repositories unique, and does every call return until Close? | 2 handlers, one cut at will, 2 shards, 2 ids, 2 keys; of shows, both create (one of them as an import does) and update; of episodes, one creates, looks up and updates, the other updates and lists; of one actor, both create and one looks up |
| `memory_unique` | the uniqueness the contract test asks for | 2 handlers, 2 ids |
| `cache` | Do later requests ever get older rows, does every request return, do old entries end? | 3 readers with 1 or 2 processes, 4 versions, 2 of them hidden, all calls may fail |
| `pages` | Does a walk visit what stays, once, with cached pages; and what do numbered pages lose and repeat? | shows, both stores' search and the lists of the CMS; 4 rows, one of them written any number of times, pages of 2, equal dates, 2 shifts each way |
| `lost_pages` | the API's description of `next_cursor` | 3 rows, pages of 1 |
| `life` | Do processes serve only with the administrator, keep the store for their handlers, end when told, get up again and be heard? | 3 processes, 2 of them on one address, a client of any account, a route of reads and one of writes |

Why the bounds are enough. An import run touches one show and its items one
after the other, so collisions need two items or two runs; `imports` has a
third run for a ref that two others fight over. One content of its CSV file has
two rows without a number whose ids fold to one slug, so that a run of it ends early
at the second; the other has one row, so that a run of it ends well, or meets the row
of an earlier run. `RunsEnd` is checked in `mixed` only, on the loop over one item:
it is about the statements that a run waits for, not about what documents do to it.
A fourth episode would come up in few executions of `imports` (a cut run leaves one
row more behind); there the insert is not enabled. A lost update needs one reader
and one writer of a row; `editors` has both roles twice. With two shards a walk
can be overtaken on either side of its position. In `mixed` every name has
the same slug: the editor and the runs can only collide or write the same rows,
which is what the run is about; different slugs are in `editors` and `imports`. A cached version can be behind
by one load, one fill and one expiry, which three readers can have in flight
together. `memory` spreads the operations over the kinds of repositories (`Asks`),
which have the code of most of them in common. A walk over four rows has a first page, one behind it and an empty last one, and dates
that are equal make the ids decide. In `discovery` one reader is enough: readers of
different processes meet only in the cache, whose entries expire at any time and
are filled by an earlier request of the same reader as by another's; the run and the editor may
both make an episode of the slug, under different shows. In `life` two
processes fight over an address while the third is there to be logged in at.

Fresh ids are bounded: in the write path and in `MemoryStore` an insert needs an
unused id of the instance. Where runs may all have ended, or the store is closed,
the system really stops and the configuration says `CHECK_DEADLOCK FALSE`
(`imports`, `grown_feed`, `memory`); in the other
instances every state has a successor. `Symmetry` is used for rows and for
sessions that are alike, and only in runs without liveness.

### What the violated runs show

Each of these states a sentence of the repository; TLC shows an execution of the
code that breaks it (`findings` in `PROJECT.json` quotes the lines).

* `grown_feed`: a feed puts its new item first, so all positions move, but the
  stored numbers do not; the new item claims a number that is taken and the
  re-run ends in a conflict. Nothing has failed and nothing is concurrent.
* `stale_patch`: a PATCH that read a draft writes it back after a publish was
  answered: the show is a draft again.
* `memory_unique`: two concurrent creates both find no clash and both insert.
* `lost_pages`: the cursor is empty though rows without a date were not given.

Not a run of its own: a run that is cut between the insert of a row and of its
ref leaves a row that no later run finds, and every later run of that document
ends in a conflict. `OrphanBound` in the run `imports` says how many such rows
there can be, and `RerunUpserts` in `mixed` what holds of documents that were
imported whole.

### Fairness

* `WritePath!FairSpec`: weak fairness of the statements of each started run. A
  statement is answered or its context ends; Go runs every goroutine.
* `MemoryStore!FairSpec`: weak fairness for actors and for taking a reply, both
  goroutines that stay runnable; strong fairness for `Send`, since senders on a
  Go channel are served in the order they came, while another may be served in
  between.
* `ReadCache!FairSpec`: requests are served, and an entry with a time to live
  ends. With a ttl of 0 entries would not end; the configuration sets one.
* `Lifecycle!FairLifeSpec`: whoever operates the service starts a process that
  ended again (the compose file does not); main goes on from each statement to
  the next; the timer of Shutdown runs out. Handlers are not assumed to return:
  `StopsWhenTold` holds because the grace ends. `AllGetUp` and `AddressesServed`
  are about executions in which from some time on calls fail no more and nothing
  crashes or is told to stop.

Nothing is assumed of editors, readers or the starters of imports.

## 4. Proofs

TLAPS proves, for all values of the constants that meet the named assumptions of
the modules, every safety property that a passing run checks: the invariants, the
action properties, and the refinement of the ledgers. `theorems` in
`PROJECT.json` lists them with the property each one states. The inductive
invariants were first checked by TLC on the instances of the runs. They stand
at the end of the specifications (`WritePath`, `Discovery`, `Paging`) or, when
only the proof needs their terms, at the head of the part of the proof that
uses them.

**Types and keys** (`WritePathProofs`: `TypeCorrect`, `UpdatesAlwaysApply`,
`IdentityStable`). `TypeOK` alone is not inductive: what a run writes is typed
only because of where the run is. `TypeInv` adds `RunShape` of every run: the
document is there after the fetch, `next` is a position of it while episodes are
at hand, `owner` and `copy` are of the kind the next statement needs. `KeysInv`
says that the constraints of the migration hold of the tables
(`CatalogConstraints`), and that every copy about to be written has its row and
that row's keys and author (`CopiesKeepKeys`). It is needed because a copy is as
old as one likes: only that no one ever changes keys lets it be written.

**Published state** (`WritePathStatusProofs`: `ImportedStaysPublished`,
`AckedEpisodesStayPublished`, `OnlyStalePatchesUnpublish`). The three promises
are not inductive either, because an old copy in flight could take them back.
`StatusInv` is about these copies (`CopiesKeepStatus`): none of an imported row
or of an episode whose publish was answered is a draft, and this is so because
the code has no operation that unpublishes. Its other parts say which rows that
concerns: what a ref names (`RefsImported`), what a run has at hand
(`OwnersImported`), what an answered request was about (`RepliesNameRows`).
`EpisodesStayUp` is what it gives of a step: no step takes a published episode
down. Of shows this does not hold, and the third theorem says who may take one
down.

The module also says once what a step does: `ShowAdded`, `ShowChanged`,
`ShowBound` and their like for episodes are the effects that the statements of
the store can have, and every action of a handler or run is shown to be one of
them (or nothing) together with a change of its own record. Later proofs are by
cases over these effects, not over the actions.

**Refs** (`WritePathRefProofs`: `EpisodesUnderTheirShows`, `OrphansBounded`,
`DoneMeansImported`, `ReportsTruthful`, `ForeignItems`, `RerunsOnlyUpdate`,
`RefsImplementLedgers`). `RefInv` has what all of them rest on. A ref tells which
feed its row came from, that of the run in `createdBy`
(`ShowsOfTheirFeed`, `EpisodesOfTheirFeed`), so no two refs share a row. A run
knows of the refs what its place in `Service.Run` implies (`RunRefs`), the row
it has just inserted has no ref yet (`Unbound`), every other row it made has one
(`AtMostOneOrphan`), and its counts are those rows (`CountsWhatItMade`,
`MadeWhatItCounts`). That a step of one run does not disturb what another knows
follows from refs being only added: `StepBy` says what a step of an actor adds,
and under whose name. The refinement is then step by step: a step binds one
unbound key to a row that no key has, which is `ProvenanceLedger`'s step, or
leaves the ledger alone; the row being free is `Unbound`. `RerunUpserts` has the
form [](P => []Q); `Rerun` is what P makes true and every step then keeps: the
document stays covered, and a run that is given it has created nothing and is at
no insert.

**Discovery** (`DiscoveryProofs`: `GivenStaysPublic`, `KeysStayRight`,
`PublishedAreFound`). Readers change nothing of the tables (`ReadersOnlyRead`:
`ReadSpec` implies `Spec`), so all of the above holds next to them. `ReadInv` says of
every cached entry and every row in a reader's hands that it fits its key now.
It is inductive because of two results of the write path: rows keep slug and show
(`RowsKept`), and published episodes stay published (`EpisodesStayUp`). A fact
about a row that was true at its load is therefore true at any age of the entry,
which is the whole reason why this cache needs no invalidation as far as
these properties go.

**Paging** (`PagingProofs`: `WalksComplete`, `RepeatsMoved`, `WalksDescend`,
`ShiftsAreBounded`). Of a walk by cursors, `WalkKept` says that each page, cached
when it may have been, has the steady rows from its cursor down to the next one
(`PageKept`) and nothing above, and that the walk has been given what is above
its cursor. The page of a moment is "the first `Limit` in an order", given by the
number of rows before each (`Before`); that a last row of a full page exists and
bounds the others is proved from least elements (below). Of a walk by numbers,
`OffsetKept` counts: the rows passed without being given are at most `left`, the
given ones that will come again at most `came`. It is inductive because one row
more or less in the list moves at most one row over the edge between the pages.

**Cache** (`ReadCacheProofs`: `FlightsAlwaysLed`, `OnlyPublishedGiven`,
`ReadsOfAProcessGoOn`). The last follows from `Monotone`: with one process and no
failed fill, what was given is at most what the cache holds, what the leader has
loaded, and what the store holds. This needs `FlightsLed`: a second leader could
fill an older version after a newer one was given.

**Processes** (`LifecycleProofs`). `AdminWhenServing` and `AdminMadeOnce` are
theorems of `Bootstrap!Spec`; `LifeImplementsBootstrap` shows that the
steps of `Lifecycle` are those of `Bootstrap` or leave its variables alone, and
carries both over (`LifeServesWithAdmin`, `LifeAdminStays`). `StoreOutlivesHandlers`,
`ActorsStayUsers` and `OnlyEditorsChange` are of `Lifecycle` itself. The second
needs that tokens name users before they are used (`TokensNameUsers`) and that
the administrator's row is never another one; the third that a handler runs
only with what the check let pass (`LetPass`), and a lemma on the matrix of roles
and routes (`MayChange`).

**Memory backend** (`MemoryStoreProofs`: `AnswersAreTrue`, `ListsComplete`,
`UsersAndRefsUnique`, `RetriesKeepApart`). `AnswersInv` follows a call through its
closures: what a reply that is still in its channel says (`ReplyTrue`), what the
shards walked so far imply (`WalkTrue`), what the answer then means
(`AnswerTrue`); it relies on rows being only added (`RowsGrow`) and on every copy
in flight having its row, under that row's key and author (`UpdatesFit`). For
episodes both carry the published state too; of shows they say nothing of it,
since a PATCH may write an older state. `RetryInv` is about the closures a caller
left behind: such a closure waits at its shard, and a new walk of the same
caller has not yet passed that shard or has found no clash with what it
inserts. What a caller has made, left behind and is about is compared in pairs
(`LeftVsRows`, `LeftVsLeft`, `WalkVsRows`, `WalkVsLeft`,
`InsertVsRows`, `InsertVsLeft`).

The assumptions are the `ASSUME`s of the modules: the functions given as constants
have the types the code gives them, shards and pages are not empty, `Clash` is
symmetric, the ids of `Paging` are numbers (the pages are ordered by them), and
sentinels such as `None` are not a row, an id or a name. TLC evaluates each of
them on every run of its module.

The library's induction theorems cannot be instantiated by the provers at hand.
Where a proof needs a least or a greatest element of a set of numbers
(`LeastNumber`, `MinExists`, `MaxExists`) it takes it from the well-foundedness
of < on Nat, whose theorems speak of sets and relations.

Only model-checked: liveness (`RunsEnd`, `CallsReturn`, `ReadsReturn`,
`OldVersionsGo`, `AllGetUp`, `StopsWhenTold`, `AddressesServed`), which is out of
the prover's reach. The importers take part in the proofs by the types of what
they make of a document (`DocumentAssumption`), `slugify` as an arbitrary
function.

## 5. Not modelled

* Signatures of tokens and hashes of passwords: taken for what they are meant to
  be. A change of a user's role, which a token would show only when it expires, has no
  operation in this code.
* Syntax of XML and CSV; parsing of dates and durations; the strings of cache
  keys (search parameters that join to one key are a matter of formatting).
* Routing, decoding and validation of bodies, rate limits, compression,
  configuration, logging, metrics, profiling: no state that the other parts depend on. The time
  limits of the server appear as calls that may be cut.
* Calls of the memory backend after `Close` that wait for an actor that left:
  the end of the process, which `Lifecycle` has, cuts them.
* The full-text match of a search: whether a row meets a query is arbitrary.

## 6. Plan

Done: the write path, Discovery on top of it, the in-memory store, the cache for
one key, keyset and offset pages, the life of processes with authentication;
the safety properties of all of them proved.

Next, in this order:

1. An abstract repository that `MemoryStore` implements up to the clash of
   concurrent creates, as a refinement that is checked and proved.
2. An abstract cache that gives each process versions that do not go back, for
   `ReadCache` to implement.
3. Several keys and the singleflight group in one module, `Discovery` over
   `ReadCache`; today each has what the other leaves out.
