----------------------------- MODULE WritePath -----------------------------
(***************************************************************************)
(* The write side of the catalog: CMS requests and import runs, each a     *)
(* goroutine, sharing the Postgres tables and nothing else.  A step is one *)
(* statement of one of them.                                               *)
(***************************************************************************)
EXTENDS CMS, Ingestion

vars == <<shows, episodes, showRefs, episodeRefs, req, imp>>

Init == StoreInit /\ CMSInit /\ IngestionInit

SessionStep(s) == CMSStep(s) /\ UNCHANGED imp
RunStep(r) == ImportStep(r) /\ UNCHANGED req

Next ==
    \/ \E s \in Sessions : SessionStep(s)
    \/ \E r \in Runs : RunStep(r)

Spec == Init /\ [][Next]_vars

(* Every call of a started run returns: the database answers or the call   *)
(* is cut.  Nothing is assumed of the editors, nor that a run is started.  *)
Serve(r) == (UpsertShow(r) \/ UpsertEpisode(r)) /\ UNCHANGED req

FairSpec == Spec /\ \A r \in Runs : WF_vars(Serve(r))

(* One import after the other and no editors: what an operator who re-runs *)
(* an import after the first has ended sees.                               *)
SeqNext ==
    \E r \in Runs :
        /\ RunStep(r)
        /\ \A q \in Runs \ {r} : imp[q].pc \in Stopped \cup {"idle"}

SeqSpec == Init /\ [][SeqNext]_vars

----------------------------------------------------------------------------
\* Every variable has the shape the code's types give it.
TypeOK == StoreTypeOK /\ CMSTypeOK /\ imp \in [Runs -> ImportRun]

(* No update is refused.  Every handler writes a whole row from a copy it  *)
(* read earlier, after any number of other inserts and updates; the write  *)
(* still finds its row and breaks no unique constraint, so PATCH, publish  *)
(* and re-import never answer 404 or 409 for a row they have read.         *)
UpdatesApply ==
    /\ \A s \in Sessions :
          /\ req[s].pc = "writeShow" =>
                UpdateShowResult(req[s].id, req[s].copy) = "ok"
          /\ req[s].pc = "writeEpisode" =>
                UpdateEpisodeResult(req[s].id, req[s].copy) = "ok"
    /\ \A r \in Runs :
          /\ imp[r].pc = "updateShow" =>
                UpdateShowResult(imp[r].owner, imp[r].copy) = "ok"
          /\ imp[r].pc = "updateEpisode" =>
                UpdateEpisodeResult(imp[r].owner, imp[r].copy) = "ok"

(* The stale whole-row writes never take a row away from its slug, number, *)
(* parent or author, and no row disappears: links to the catalog last.     *)
RowIdentityStable ==
    [][/\ \A i \in ShowIds : shows[i] # None =>
             /\ shows'[i] # None
             /\ shows'[i].slug = shows[i].slug
             /\ shows'[i].createdBy = shows[i].createdBy
       /\ \A e \in EpisodeIds : episodes[e] # None =>
             /\ episodes'[e] # None
             /\ episodes'[e].show = episodes[e].show
             /\ episodes'[e].slug = episodes[e].slug
             /\ episodes'[e].number = episodes[e].number
             /\ episodes'[e].createdBy = episodes[e].createdBy]_vars

(* A published show goes back to draft in one way only: a PATCH that read  *)
(* the row before it was published writes its copy (the lost update of     *)
(* updateShow).  No import and no other request takes a show down, and a   *)
(* PATCH itself asks for no change of status.                              *)
UnpublishedOnlyByStalePatch ==
    [][/\ \A i \in ShowIds :
             (shows[i] # None /\ shows[i].status = "published"
              /\ shows'[i].status # "published") =>
                 \E s \in Sessions :
                     /\ req[s].pc = "writeShow" /\ req[s].op = "updateShow"
                     /\ req[s].id = i /\ req[s].copy.status = "draft"
       /\ \A s \in Sessions :
             (req[s].pc = "idle" /\ req'[s].pc = "writeShow"
              /\ req'[s].op = "updateShow") =>
                 req'[s].copy.status = shows[req'[s].id].status]_vars

(* An episode for which publishEpisode answered 200 is published, whatever *)
(* imports and other publishes of it were in flight.                       *)
AckedEpisodePublishHolds ==
    \A s \in Sessions :
        (req[s].pc = "idle" /\ req[s].op = "publishEpisode" /\ req[s].code = "ok")
            => episodes[req[s].id].status = "published"

(* The same for a show.  updateShow can undo it: PATCH has no status, yet  *)
(* it writes the status it read.                                           *)
AckedShowPublishHolds ==
    \A s \in Sessions :
        (req[s].pc = "idle" /\ req[s].op = "publishShow" /\ req[s].code = "ok")
            => shows[req[s].id].status = "published"

(* What a run created is published from the start and stays so, although   *)
(* editors and other runs write old copies of its rows back.               *)
ImportedStayPublished ==
    /\ \A i \in ShowIds : shows[i] # None /\ shows[i].createdBy \in Runs
          => shows[i].status = "published"
    /\ \A e \in EpisodeIds : episodes[e] # None /\ episodes[e].createdBy \in Runs
          => episodes[e].status = "published"

----------------------------------------------------------------------------
(* What an import leaves behind.                                           *)

(* An imported episode belongs to an imported show of the same source.     *)
RefedEpisodesUnderRefedShows ==
    \A src \in Sources, x \in ExtIds : episodeRefs[<<src, x>>] # None =>
        \E y \in ExtIds : showRefs[<<src, y>>] = episodes[episodeRefs[<<src, x>>]].show

RowsOf(r) ==
    {i \in ShowIds : shows[i] # None /\ shows[i].createdBy = r} \cup
    {e \in EpisodeIds : episodes[e] # None /\ episodes[e].createdBy = r}

Owners == {showRefs[k] : k \in Sources \X ExtIds} \cup
          {episodeRefs[k] : k \in Sources \X ExtIds}

(* A run leaves at most one row without its external ref, the one at hand, *)
(* and only between the two inserts or when it ended with an error: what a *)
(* crash there costs is bounded.                                           *)
OrphanBound ==
    \A r \in Runs :
        /\ RowsOf(r) \ Owners \subseteq {imp[r].owner}
        /\ imp[r].pc \notin {"refShow", "refEpisode", "conflict", "failed"}
              => RowsOf(r) \subseteq Owners

(* The report of a finished run: the items it counts as created are those  *)
(* whose rows it made, no other run counts them, and the runs together     *)
(* count each imported item once.                                          *)
ReportTruthful ==
    \A r \in Runs :
        /\ imp[r].pc = "done" =>
              RowsOf(r) =
                 {showRefs[<<imp[r].src, k[2]>>] : k \in {k \in imp[r].created : k[1] = "show"}}
                 \cup
                 {episodeRefs[<<imp[r].src, k[2]>>] : k \in {k \in imp[r].created : k[1] = "episode"}}
        /\ \A q \in Runs \ {r} :
              imp[q].src = imp[r].src => imp[q].created \cap imp[r].created = {}

\* Every item of the document has its row.
Covered(src, data) ==
    /\ showRefs[<<src, data.ext>>] # None
    /\ \A n \in DOMAIN data.episodes : episodeRefs[<<src, data.episodes[n].ext>>] # None

(* A run that answers 200 has imported the whole document, and what it     *)
(* imported is there to be seen: the rows of its items are published.      *)
DoneImportsAll ==
    \A r \in Runs : imp[r].pc = "done" =>
        /\ Covered(imp[r].src, imp[r].data)
        /\ shows[showRefs[ShowKey(r)]].status = "published"
        /\ \A n \in DOMAIN imp[r].data.episodes :
              episodes[episodeRefs[<<imp[r].src, imp[r].data.episodes[n].ext>>]].status
                  = "published"

(* An item of a finished run is under the run's own show, unless the run   *)
(* that created it took the same id from another feed: external ids of     *)
(* episodes are not kept apart by show.                                    *)
ForeignItemsShareIds ==
    \A r \in Runs : imp[r].pc = "done" =>
        \A n \in DOMAIN imp[r].data.episodes :
            LET ext == imp[r].data.episodes[n].ext
                row == episodes[episodeRefs[<<imp[r].src, ext>>]]
                other == imp[row.createdBy]
            IN  \/ row.show = imp[r].show
                \/ /\ other.src = imp[r].src
                   /\ other.data.ext # imp[r].data.ext
                   /\ \E m \in DOMAIN other.data.episodes :
                         other.data.episodes[m].ext = ext

(* Once all of a document is imported, a run given that document only      *)
(* updates: it creates nothing and ends in no conflict, whatever editors   *)
(* and other runs do meanwhile (the idempotence of Service.Run).           *)
RerunUpserts ==
    \A r \in Runs, d \in Documents :
        []((imp[r].pc = "idle" /\ Covered(d.source, ImportOf(d))) =>
            [](imp[r].src = d.source /\ imp[r].data = ImportOf(d) =>
                  /\ imp[r].created = {}
                  /\ imp[r].pc \notin {"insertShow", "refShow", "insertEpisode",
                                       "refEpisode", "conflict"}))

(* A started run ends.                                                     *)
RunsEnd == \A r \in Runs : imp[r].pc # "idle" ~> imp[r].pc \in Stopped

(* A run that does its rows one by one, next to others, still keeps the    *)
(* promise of external refs: those of shows and of episodes are a ledger.  *)
ShowLedger == INSTANCE ProvenanceLedger WITH
    Keys <- Sources \X ExtIds, Rows <- ShowIds, NoRow <- None,
    rows <- {i \in ShowIds : shows[i] # None}, bound <- showRefs

EpisodeLedger == INSTANCE ProvenanceLedger WITH
    Keys <- Sources \X ExtIds, Rows <- EpisodeIds, NoRow <- None,
    rows <- {e \in EpisodeIds : episodes[e] # None}, bound <- episodeRefs

RefsAreLedgers == ShowLedger!Ledger /\ EpisodeLedger!Ledger

----------------------------------------------------------------------------
(* The inductive invariant behind these, in parts.                         *)

ShowPcs == {"findShow", "getShow", "updateShow", "insertShow", "refShow"}
EpisodePcs == {"findEpisode", "getEpisode", "updateEpisode", "insertEpisode",
               "refEpisode"}

\* What the locals of a run hold at each point of Run.
RunShape(run) ==
    /\ run.pc \in ShowPcs \cup EpisodePcs \cup {"done", "conflict"} =>
          run.src \in Sources /\ run.data \in ImportedShow
    /\ run.pc \in ShowPcs \cup {"idle"} => run.next = 1
    /\ run.pc \in {"getShow", "updateShow", "refShow"} => run.owner \in ShowIds
    /\ run.pc = "updateShow" => run.copy \in ShowRow
    /\ run.pc \in EpisodePcs =>
          run.show \in ShowIds /\ run.next \in 1..Len(run.data.episodes)
    /\ run.pc \in {"getEpisode", "updateEpisode", "refEpisode"} =>
          run.owner \in EpisodeIds
    /\ run.pc = "updateEpisode" => run.copy \in EpisodeRow
    /\ run.pc = "done" => run.show \in ShowIds

\* The columns no handler changes.
SameShow(a, b) == a.slug = b.slug /\ a.createdBy = b.createdBy
SameEpisode(a, b) ==
    /\ a.show = b.show /\ a.slug = b.slug /\ a.number = b.number
    /\ a.createdBy = b.createdBy

\* A copy about to be written has its row, and the row's keys.
RequestCopyKept(r) ==
    /\ r.pc = "writeShow" => shows[r.id] # None /\ SameShow(r.copy, shows[r.id])
    /\ r.pc = "writeEpisode" =>
          episodes[r.id] # None /\ SameEpisode(r.copy, episodes[r.id])

RunCopyKept(run) ==
    /\ run.pc = "updateShow" =>
          shows[run.owner] # None /\ SameShow(run.copy, shows[run.owner])
    /\ run.pc = "updateEpisode" =>
          episodes[run.owner] # None /\ SameEpisode(run.copy, episodes[run.owner])

CopiesKeepKeys ==
    /\ \A s \in Sessions : RequestCopyKept(req[s])
    /\ \A r \in Runs : RunCopyKept(imp[r])

KeysInv == CatalogConstraints /\ CopiesKeepKeys

\* No copy about to be written takes back what ImportedStayPublished and
\* AckedEpisodePublishHolds state; only a PATCH of a draft holds a draft.
CopiesKeepStatus ==
    /\ \A s \in Sessions :
          /\ req[s].pc = "writeShow" /\ req[s].op = "publishShow" =>
                req[s].copy.status = "published"
          /\ req[s].pc = "writeShow" /\ req[s].copy.createdBy \in Runs =>
                req[s].copy.status = "published"
          /\ req[s].pc = "writeShow" => req[s].copy.status \in {"draft", "published"}
          /\ req[s].pc = "writeEpisode" => req[s].copy.status = "published"
          /\ req[s].pc = "insertEpisode" => req[s].copy.createdBy = s
    /\ \A r \in Runs :
          /\ imp[r].pc = "updateShow" => imp[r].copy.status = "published"
          /\ imp[r].pc = "updateEpisode" => imp[r].copy.status = "published"

\* A ref points at a row that a run of its source created.
RefsImported ==
    /\ \A k \in Sources \X ExtIds : showRefs[k] # None =>
          shows[showRefs[k]] # None /\ shows[showRefs[k]].createdBy \in Runs
    /\ \A k \in Sources \X ExtIds : episodeRefs[k] # None =>
          episodes[episodeRefs[k]] # None /\ episodes[episodeRefs[k]].createdBy \in Runs

\* A row found, or inserted but not yet referenced, is an imported row.
OwnersImported ==
    \A r \in Runs :
        /\ imp[r].pc \in {"getShow", "updateShow", "refShow"} =>
              shows[imp[r].owner] # None /\ shows[imp[r].owner].createdBy \in Runs
        /\ imp[r].pc \in {"getEpisode", "updateEpisode", "refEpisode"} =>
              /\ episodes[imp[r].owner] # None
              /\ episodes[imp[r].owner].createdBy \in Runs

\* A reply that names an episode names one that exists.
RepliesNameRows ==
    \A s \in Sessions :
        (req[s].pc = "idle" /\ req[s].op = "publishEpisode" /\ req[s].code = "ok")
            => req[s].id \in EpisodeIds /\ episodes[req[s].id] # None

\* Nothing archives a row.
NeverArchived ==
    \A i \in ShowIds : shows[i] # None => shows[i].status # "archived"

StatusInv ==
    /\ RefsImported /\ OwnersImported /\ RepliesNameRows /\ NeverArchived
    /\ CopiesKeepStatus /\ ImportedStayPublished /\ AckedEpisodePublishHolds

RefKeys == Sources \X ExtIds

InFeed(run, x) == \E n \in DOMAIN run.data.episodes : run.data.episodes[n].ext = x

(* A ref tells which feed its row came from: the one of the run that       *)
(* created the row.  So no two refs share a row.                           *)
ShowsOfTheirFeed ==
    \A k \in RefKeys : showRefs[k] # None =>
        LET maker == shows[showRefs[k]].createdBy
        IN  imp[maker].pc # "idle" /\ k = ShowKey(maker)

EpisodesOfTheirFeed ==
    \A k \in RefKeys : episodeRefs[k] # None =>
        LET row == episodes[episodeRefs[k]]
            maker == row.createdBy
        IN  /\ imp[maker].pc # "idle"
            /\ k[1] = imp[maker].src /\ InFeed(imp[maker], k[2])
            /\ ShowKey(maker) \in RefKeys /\ showRefs[ShowKey(maker)] = row.show

ShowReffed(i) == \E k \in RefKeys : showRefs[k] = i
EpisodeReffed(e) == \E k \in RefKeys : episodeRefs[k] = e

\* What a run knows of the refs, at each point of it.
RunRefs(r) ==
    /\ imp[r].pc \in {"getShow", "updateShow"} => showRefs[ShowKey(r)] = imp[r].owner
    /\ imp[r].pc = "refShow" => shows[imp[r].owner].createdBy = r
    /\ imp[r].pc \in EpisodePcs \cup {"done"} =>
          showRefs[ShowKey(r)] = imp[r].show
    /\ imp[r].pc \in {"getEpisode", "updateEpisode"} =>
          episodeRefs[ItemKey(r)] = imp[r].owner
    /\ imp[r].pc = "refEpisode" =>
          /\ episodes[imp[r].owner].createdBy = r
          /\ episodes[imp[r].owner].show = imp[r].show
    /\ imp[r].pc \in EpisodePcs \cup {"done"} =>
          \A n \in DOMAIN imp[r].data.episodes : n < imp[r].next =>
              episodeRefs[<<imp[r].src, imp[r].data.episodes[n].ext>>] # None
    /\ imp[r].pc = "done" => imp[r].next > Len(imp[r].data.episodes)

\* The row at hand that has no ref, if there is one.
Unbound(r) ==
    /\ imp[r].pc = "refShow" => ~ShowReffed(imp[r].owner)
    /\ imp[r].pc = "refEpisode" => ~EpisodeReffed(imp[r].owner)

MayOrphan == {"refShow", "refEpisode", "conflict", "failed"}

AtMostOneOrphan(r) ==
    /\ \A i \in ShowIds : shows[i] # None /\ shows[i].createdBy = r =>
          \/ ShowReffed(i)
          \/ imp[r].pc \in MayOrphan /\ imp[r].owner = i
    /\ \A e \in EpisodeIds : episodes[e] # None /\ episodes[e].createdBy = r =>
          \/ EpisodeReffed(e)
          \/ imp[r].pc \in MayOrphan /\ imp[r].owner = e

\* The report so far.
CountsWhatItMade(r) ==
    /\ imp[r].pc \in ShowPcs \cup {"idle"} => imp[r].created = {}
    /\ \A x \in ExtIds :
          /\ <<"show", x>> \in imp[r].created =>
                /\ <<imp[r].src, x>> \in RefKeys /\ showRefs[<<imp[r].src, x>>] # None
                /\ shows[showRefs[<<imp[r].src, x>>]].createdBy = r
          /\ <<"episode", x>> \in imp[r].created =>
                /\ <<imp[r].src, x>> \in RefKeys /\ episodeRefs[<<imp[r].src, x>>] # None
                /\ episodes[episodeRefs[<<imp[r].src, x>>]].createdBy = r

MadeWhatItCounts(r) ==
    imp[r].pc \notin {"conflict", "failed"} =>
        /\ \A k \in RefKeys : showRefs[k] # None /\ shows[showRefs[k]].createdBy = r =>
              k[1] = imp[r].src /\ <<"show", k[2]>> \in imp[r].created
        /\ \A k \in RefKeys : episodeRefs[k] # None /\ episodes[episodeRefs[k]].createdBy = r =>
              k[1] = imp[r].src /\ <<"episode", k[2]>> \in imp[r].created

\* The refs, and what each run has to do with them.
RefInv ==
    /\ ShowsOfTheirFeed /\ EpisodesOfTheirFeed
    /\ \A k, l \in RefKeys : episodeRefs[k] # None /\ episodeRefs[k] = episodeRefs[l] => k = l
    /\ \A r \in Runs : /\ RunRefs(r) /\ Unbound(r) /\ AtMostOneOrphan(r)
                       /\ CountsWhatItMade(r) /\ MadeWhatItCounts(r)

Inv ==
    /\ TypeOK /\ (\A r \in Runs : RunShape(imp[r]))
    /\ KeysInv /\ StatusInv /\ RefInv

----------------------------------------------------------------------------
(* What the API description says of a re-run, for runs one after another.  *)

(* The same feed again, after a run of it that ended well.                 *)
GrownFeedUpserts ==
    \A r \in Runs, q \in Runs :
        (q # r /\ imp[q].pc = "done" /\ imp[q].src = imp[r].src
         /\ imp[q].data.ext = imp[r].data.ext)
            => imp[r].pc # "conflict"
=============================================================================
