------------------------- MODULE WritePathStatusProofs -------------------------
(***************************************************************************)
(* The steps of requests and runs by what they do, and from these what     *)
(* stays published, whatever old copies are written back.                  *)
(***************************************************************************)
EXTENDS WritePathProofs

(* The statements, by what they do to the tables when they go well.        *)
ShowAdded(i, row) ==
    /\ i \in ShowIds /\ row \in ShowRow /\ shows[i] = None
    /\ shows' = [shows EXCEPT ![i] = row]
    /\ UNCHANGED <<episodes, showRefs, episodeRefs>>

ShowChanged(i, row) ==
    /\ i \in ShowIds /\ row \in ShowRow /\ shows[i] # None /\ SameShow(row, shows[i])
    /\ shows' = [shows EXCEPT ![i] = row]
    /\ UNCHANGED <<episodes, showRefs, episodeRefs>>

ShowBound(k, i) ==
    /\ k \in Sources \X ExtIds /\ i \in ShowIds /\ showRefs[k] = None
    /\ showRefs' = [showRefs EXCEPT ![k] = i]
    /\ UNCHANGED <<shows, episodes, episodeRefs>>

EpisodeAdded(e, row) ==
    /\ e \in EpisodeIds /\ row \in EpisodeRow /\ episodes[e] = None
    /\ shows[row.show] # None
    /\ episodes' = [episodes EXCEPT ![e] = row]
    /\ UNCHANGED <<shows, showRefs, episodeRefs>>

EpisodeChanged(e, row) ==
    /\ e \in EpisodeIds /\ row \in EpisodeRow
    /\ episodes[e] # None /\ SameEpisode(row, episodes[e])
    /\ episodes' = [episodes EXCEPT ![e] = row]
    /\ UNCHANGED <<shows, showRefs, episodeRefs>>

EpisodeBound(k, e) ==
    /\ k \in Sources \X ExtIds /\ e \in EpisodeIds /\ episodeRefs[k] = None
    /\ episodeRefs' = [episodeRefs EXCEPT ![k] = e]
    /\ UNCHANGED <<shows, episodes, showRefs>>

----------------------------------------------------------------------------
(* The steps of a request, by where they leave it.                         *)
OthersWait(s) == imp' = imp /\ \A t \in Sessions \ {s} : req'[t] = req[t]

Refused(s) ==
    /\ UNCHANGED storeVars
    /\ req'[s].pc = "idle" /\ req'[s].code # "ok"

ShowCreated(s) ==
    /\ UNCHANGED storeVars \/ \E i \in ShowIds, row \in ShowRow :
          ShowAdded(i, row) /\ row.status = "draft" /\ row.createdBy = s
    /\ req'[s].pc = "idle" /\ req'[s].op = "createShow"

ShowRead(s) ==
    /\ UNCHANGED storeVars
    /\ req[s].pc = "idle" /\ req'[s].pc = "writeShow"
    /\ req'[s].id \in ShowIds /\ shows[req'[s].id] # None
    /\ SameShow(req'[s].copy, shows[req'[s].id])
    /\ \/ req'[s].op = "updateShow" /\ req'[s].copy.status = shows[req'[s].id].status
       \/ req'[s].op = "publishShow" /\ req'[s].copy.status = "published"

ShowWritten(s) ==
    /\ req[s].pc = "writeShow" /\ ShowChanged(req[s].id, req[s].copy)
    /\ req[s].op \in {"updateShow", "publishShow"}
    /\ req'[s].pc = "idle" /\ req'[s].op = req[s].op

EpisodeDrafted(s) ==
    /\ UNCHANGED storeVars
    /\ req'[s].pc = "insertEpisode" /\ req'[s].copy.createdBy = s

EpisodeCreated(s) ==
    /\ req[s].pc = "insertEpisode"
    /\ UNCHANGED storeVars \/ \E e \in EpisodeIds : EpisodeAdded(e, req[s].copy)
    /\ req'[s].pc = "idle" /\ req'[s].op = "createEpisode"

EpisodeRead(s) ==
    /\ UNCHANGED storeVars
    /\ req'[s].pc = "writeEpisode" /\ req'[s].copy.status = "published"

EpisodeWritten(s) ==
    /\ req[s].pc = "writeEpisode" /\ EpisodeChanged(req[s].id, req[s].copy)
    /\ req'[s].pc = "idle" /\ (req'[s].code = "ok" => req'[s].id = req[s].id)

SessionEffect(s) ==
    \/ Refused(s) \/ ShowCreated(s) \/ ShowRead(s) \/ ShowWritten(s)
    \/ EpisodeDrafted(s) \/ EpisodeCreated(s) \/ EpisodeRead(s) \/ EpisodeWritten(s)

LEMMA ReplyLeaves ==
    ASSUME CMSTypeOK, NEW s \in Sessions, NEW op, NEW id, NEW code, Reply(s, op, id, code)
    PROVE  /\ req'[s].pc = "idle" /\ req'[s].op = op /\ req'[s].code = code
           /\ code = "ok" => req'[s].id = id
           /\ \A t \in Sessions \ {s} : req'[t] = req[t]
  BY DEF Reply, CMSTypeOK

LEMMA CallLeaves ==
    ASSUME CMSTypeOK, NEW s \in Sessions, NEW pc, NEW op, NEW id, NEW copy,
           Call(s, pc, op, id, copy)
    PROVE  /\ req'[s].pc = pc /\ req'[s].op = op /\ req'[s].id = id /\ req'[s].copy = copy
           /\ \A t \in Sessions \ {s} : req'[t] = req[t]
  BY DEF Call, CMSTypeOK

LEMMA SessionEffects ==
    ASSUME KeysTyped, NEW s \in Sessions, SessionStep(s)
    PROVE  OthersWait(s) /\ SessionEffect(s)
<1>1. StoreTypeOK /\ CMSTypeOK /\ imp' = imp
  BY DEF KeysTyped, TypeInv, TypeOK, SessionStep
<1> USE <1>1 DEF OthersWait, SessionEffect
<1>2. CASE CreateShow(s)
  <2>1. PICK i \in ShowIds, slug \in Slugs, title \in Titles, lang \in Langs :
           LET row == [slug |-> slug, title |-> title, lang |-> lang,
                       status |-> "draft", createdBy |-> s]
               result == CreateShowResult(i, row)
           IN  /\ shows[i] = None
               /\ PutShow(i, row, result)
               /\ \E code \in Answers(s, result) : Reply(s, "createShow", i, code)
    BY <1>2 DEF CreateShow
  <2> DEFINE row == [slug |-> slug, title |-> title, lang |-> lang,
                     status |-> "draft", createdBy |-> s]
  <2>2. row \in ShowRow /\ row.status = "draft" /\ row.createdBy = s
    BY DEF ShowRow, Status
  <2>3. shows[i] = None /\ PutShow(i, row, CreateShowResult(i, row))
    BY <2>1
  <2>4. UNCHANGED storeVars \/ ShowAdded(i, row)
    <3> HIDE DEF row
    <3> QED
      BY <1>2, <2>2, <2>3 DEF CreateShow, PutShow, ShowAdded, storeVars
  <2>5. OthersWait(s) /\ req'[s].pc = "idle" /\ req'[s].op = "createShow"
    BY <2>1, ReplyLeaves
  <2>6. ShowCreated(s)
    <3> HIDE DEF row
    <3> QED
      BY <2>2, <2>4, <2>5 DEF ShowCreated
  <2> QED
    BY <2>5, <2>6
<1>3. CASE ReadForUpdateShow(s)
  <2>1. ASSUME NEW i \in ShowIds, shows[i] # None, NEW title \in Titles \cup {None},
               NEW lang \in Langs \cup {None},
               Call(s, "writeShow", "updateShow", i, Patched(shows[i], title, lang))
        PROVE  OthersWait(s) /\ ShowRead(s)
    <3>1. shows[i] \in ShowRow
      BY <2>1 DEF StoreTypeOK
    <3>2. /\ SameShow(Patched(shows[i], title, lang), shows[i])
          /\ Patched(shows[i], title, lang).status = shows[i].status
      BY <3>1 DEF Patched, SameShow, ShowRow
    <3> QED
      BY <1>3, <2>1, <3>2, CallLeaves DEF ShowRead, ReadForUpdateShow, Idle
  <2>2. ASSUME NEW i \in ShowIds, Reply(s, "updateShow", i, "notfound")
        PROVE  OthersWait(s) /\ Refused(s)
    BY <1>3, <2>2, ReplyLeaves DEF Refused, ReadForUpdateShow
  <2>3. PICK i \in ShowIds :
           \/ Reply(s, "updateShow", i, "notfound")
           \/ /\ shows[i] # None
              /\ \E title \in Titles \cup {None}, lang \in Langs \cup {None} :
                    Call(s, "writeShow", "updateShow", i, Patched(shows[i], title, lang))
    BY <1>3 DEF ReadForUpdateShow
  <2> QED
    BY <2>1, <2>2, <2>3
<1>4. CASE ReadForPublishShow(s)
  <2>1. ASSUME NEW i \in ShowIds, shows[i] # None,
               Call(s, "writeShow", "publishShow", i,
                    [shows[i] EXCEPT !.status = "published"])
        PROVE  OthersWait(s) /\ ShowRead(s)
    <3> DEFINE copy == [shows[i] EXCEPT !.status = "published"]
    <3>1. shows[i] \in ShowRow
      BY <2>1 DEF StoreTypeOK
    <3>2. SameShow(copy, shows[i]) /\ copy.status = "published"
      BY <3>1 DEF SameShow, ShowRow
    <3>3. Call(s, "writeShow", "publishShow", i, copy)
      BY <2>1
    <3> HIDE DEF copy
    <3> QED
      BY <1>4, <2>1, <3>2, <3>3, CallLeaves DEF ShowRead, ReadForPublishShow, Idle
  <2>2. ASSUME NEW i \in ShowIds, Reply(s, "publishShow", i, "notfound")
        PROVE  OthersWait(s) /\ Refused(s)
    BY <1>4, <2>2, ReplyLeaves DEF Refused, ReadForPublishShow
  <2> QED
    BY <1>4, <2>1, <2>2 DEF ReadForPublishShow
<1>5. CASE WriteShow(s)
  <2>1. req[s] \in ShowWrite
    BY <1>5 DEF WriteShow, CMSTypeOK, IdleReq, ShowWrite, EpisodeInsert, EpisodeWrite
  <2>2. /\ req[s].id \in ShowIds /\ req[s].copy \in ShowRow
        /\ req[s].op \in {"updateShow", "publishShow"}
    BY <2>1 DEF ShowWrite
  <2>3. shows[req[s].id] # None /\ SameShow(req[s].copy, shows[req[s].id])
    BY <1>5 DEF WriteShow, KeysTyped, KeysInv, CopiesKeepKeys, RequestCopyKept
  <2>4. ShowChanged(req[s].id, req[s].copy)
    BY <1>5, <2>2, <2>3, UpdatesGoWell DEF WriteShow, PutShow, ShowChanged
  <2>5. PICK code : Reply(s, req[s].op, req[s].id, code)
    BY <1>5 DEF WriteShow
  <2> QED
    BY <1>5, <2>2, <2>4, <2>5, ReplyLeaves DEF ShowWritten, WriteShow
<1>6. CASE CheckShowForEpisode(s)
  <2>1. ASSUME NEW row, row.createdBy = s, Call(s, "insertEpisode", "createEpisode", None, row)
        PROVE  OthersWait(s) /\ EpisodeDrafted(s)
    BY <1>6, <2>1, CallLeaves DEF EpisodeDrafted, CheckShowForEpisode
  <2>2. ASSUME NEW i \in ShowIds, Reply(s, "createEpisode", i, "notfound")
        PROVE  OthersWait(s) /\ Refused(s)
    BY <1>6, <2>2, ReplyLeaves DEF Refused, CheckShowForEpisode
  <2>3. ASSUME NEW i \in ShowIds, NEW slug \in Slugs, NEW number \in Numbers,
               NEW title \in Titles,
               Call(s, "insertEpisode", "createEpisode", None,
                    [show |-> i, slug |-> slug, number |-> number,
                     title |-> title, status |-> "draft",
                     publishedAt |-> "null", createdBy |-> s])
        PROVE  OthersWait(s) /\ EpisodeDrafted(s)
    BY <2>1, <2>3
  <2>4. PICK i \in ShowIds :
           \/ Reply(s, "createEpisode", i, "notfound")
           \/ \E slug \in Slugs, number \in Numbers, title \in Titles :
                 Call(s, "insertEpisode", "createEpisode", None,
                      [show |-> i, slug |-> slug, number |-> number,
                       title |-> title, status |-> "draft",
                       publishedAt |-> "null", createdBy |-> s])
    BY <1>6 DEF CheckShowForEpisode
  <2> QED
    BY <2>2, <2>3, <2>4
<1>7. CASE InsertEpisode(s)
  <2>1. req[s].copy \in EpisodeRow
    BY <1>7 DEF InsertEpisode, CMSTypeOK, IdleReq, ShowWrite, EpisodeInsert, EpisodeWrite
  <2>2. PICK e \in EpisodeIds :
           /\ episodes[e] = None
           /\ PutEpisode(e, req[s].copy, CreateEpisodeResult(e, req[s].copy))
           /\ \E code \in Answers(s, CreateEpisodeResult(e, req[s].copy)) :
                 Reply(s, "createEpisode", e, code)
    BY <1>7 DEF InsertEpisode
  <2>3. UNCHANGED storeVars \/ EpisodeAdded(e, req[s].copy)
    BY <1>7, <2>1, <2>2
       DEF InsertEpisode, PutEpisode, CreateEpisodeResult, EpisodeAdded, storeVars
  <2> QED
    BY <1>7, <2>2, <2>3, ReplyLeaves DEF EpisodeCreated, InsertEpisode
<1>8. CASE ReadForPublishEpisode(s)
  <2>1. ASSUME NEW e \in EpisodeIds, episodes[e] # None,
               Call(s, "writeEpisode", "publishEpisode", e,
                    [episodes[e] EXCEPT !.status = "published", !.publishedAt = "cms"])
        PROVE  OthersWait(s) /\ EpisodeRead(s)
    <3> DEFINE copy == [episodes[e] EXCEPT !.status = "published", !.publishedAt = "cms"]
    <3>1. copy.status = "published"
      BY <2>1 DEF StoreTypeOK, EpisodeRow
    <3>2. Call(s, "writeEpisode", "publishEpisode", e, copy)
      BY <2>1
    <3> HIDE DEF copy
    <3> QED
      BY <1>8, <2>1, <3>1, <3>2, CallLeaves DEF EpisodeRead, ReadForPublishEpisode
  <2>2. ASSUME NEW e \in EpisodeIds, Reply(s, "publishEpisode", e, "notfound")
        PROVE  OthersWait(s) /\ Refused(s)
    BY <1>8, <2>2, ReplyLeaves DEF Refused, ReadForPublishEpisode
  <2> QED
    BY <1>8, <2>1, <2>2 DEF ReadForPublishEpisode
<1>9. CASE WriteEpisode(s)
  <2>1. req[s].id \in EpisodeIds /\ req[s].copy \in EpisodeRow
    BY <1>9, RequestCopyType DEF WriteEpisode
  <2>2. episodes[req[s].id] # None /\ SameEpisode(req[s].copy, episodes[req[s].id])
    BY <1>9 DEF WriteEpisode, KeysTyped, KeysInv, CopiesKeepKeys, RequestCopyKept
  <2>3. EpisodeChanged(req[s].id, req[s].copy)
    BY <1>9, <2>1, <2>2, UpdatesGoWell DEF WriteEpisode, PutEpisode, EpisodeChanged
  <2>4. PICK code : Reply(s, req[s].op, req[s].id, code)
    BY <1>9 DEF WriteEpisode
  <2> QED
    BY <1>9, <2>3, <2>4, ReplyLeaves DEF EpisodeWritten, WriteEpisode
<1>10. CASE RequestFails(s)
  <2>1. PICK op : Reply(s, op, None, "error")
    BY <1>10 DEF RequestFails
  <2> QED
    BY <1>10, <2>1, ReplyLeaves DEF Refused, RequestFails
<1> QED
  BY <1>2, <1>3, <1>4, <1>5, <1>6, <1>7, <1>8, <1>9, <1>10 DEF SessionStep, CMSStep

----------------------------------------------------------------------------
(* The steps of a run, by where they leave its locals.                     *)
RunsWait(r) == req' = req /\ \A q \in Runs \ {r} : imp'[q] = imp[q]

SameTask(r) == imp'[r].src = imp[r].src /\ imp'[r].data = imp[r].data

SameCount(r) ==
    /\ imp'[r].next = imp[r].next /\ imp'[r].show = imp[r].show
    /\ imp'[r].created = imp[r].created

SameOwner(r) == imp'[r].owner = imp[r].owner

Fetched(r) ==
    /\ UNCHANGED storeVars /\ SameCount(r) /\ SameOwner(r)
    /\ imp[r].pc = "idle" /\ imp'[r].pc = "findShow"
    /\ imp'[r].src \in Sources /\ imp'[r].data \in ImportedShow

\* The last statement may have been done although it answered with an error.
GaveUp(r) ==
    /\ SameTask(r) /\ SameCount(r) /\ SameOwner(r)
    /\ imp[r].pc \notin Stopped /\ imp'[r].pc \in {"conflict", "failed"}
    /\ imp'[r].pc = "conflict" => imp[r].pc \in {"refShow", "refEpisode"}
    /\ \/ UNCHANGED storeVars
       \/ imp[r].pc = "updateShow" /\ ShowChanged(imp[r].owner, imp[r].copy)
       \/ imp[r].pc = "refShow" /\ ShowBound(ShowKey(r), imp[r].owner)
       \/ imp[r].pc = "updateEpisode" /\ EpisodeChanged(imp[r].owner, imp[r].copy)
       \/ imp[r].pc = "refEpisode" /\ EpisodeBound(ItemKey(r), imp[r].owner)

ShowLookedUp(r) ==
    /\ UNCHANGED storeVars /\ SameTask(r) /\ SameCount(r)
    /\ imp[r].pc = "findShow" /\ imp'[r].owner = showRefs[ShowKey(r)]
    /\ imp'[r].pc = IF showRefs[ShowKey(r)] = None THEN "insertShow" ELSE "getShow"

ShowFound(r) ==
    /\ UNCHANGED storeVars /\ SameTask(r) /\ SameCount(r) /\ SameOwner(r)
    /\ imp[r].pc = "getShow" /\ imp'[r].pc = "updateShow"
    /\ shows[imp[r].owner] # None
    /\ imp'[r].copy = RefreshedShow(r, shows[imp[r].owner])

ShowTried(r) ==
    /\ SameTask(r) /\ SameCount(r)
    /\ imp[r].pc = "insertShow" /\ imp'[r].owner \in ShowIds
    /\ \/ /\ imp'[r].pc \in {"refShow", "failed"}
          /\ ShowAdded(imp'[r].owner, NewShowOf(r))
       \/ imp'[r].pc \in {"conflict", "failed"} /\ UNCHANGED storeVars

ShowUpserted(r) ==
    /\ SameTask(r) /\ SameOwner(r)
    /\ imp'[r].next = imp[r].next /\ imp'[r].show = imp[r].owner
    /\ imp'[r].pc = LoopPc(r, 1)
    /\ \/ /\ imp[r].pc = "updateShow" /\ ShowChanged(imp[r].owner, imp[r].copy)
          /\ imp'[r].created = {}
       \/ /\ imp[r].pc = "refShow" /\ ShowBound(ShowKey(r), imp[r].owner)
          /\ imp'[r].created = {<<"show", imp[r].data.ext>>}

EpisodeLookedUp(r) ==
    /\ UNCHANGED storeVars /\ SameTask(r) /\ SameCount(r)
    /\ imp[r].pc = "findEpisode" /\ imp'[r].owner = episodeRefs[ItemKey(r)]
    /\ imp'[r].pc = IF episodeRefs[ItemKey(r)] = None THEN "insertEpisode" ELSE "getEpisode"

EpisodeFound(r) ==
    /\ UNCHANGED storeVars /\ SameTask(r) /\ SameCount(r) /\ SameOwner(r)
    /\ imp[r].pc = "getEpisode" /\ imp'[r].pc = "updateEpisode"
    /\ episodes[imp[r].owner] # None
    /\ imp'[r].copy = RefreshedEpisode(r, episodes[imp[r].owner])

EpisodeTried(r) ==
    /\ SameTask(r) /\ SameCount(r)
    /\ imp[r].pc = "insertEpisode" /\ imp'[r].owner \in EpisodeIds
    /\ \/ /\ imp'[r].pc \in {"refEpisode", "failed"}
          /\ EpisodeAdded(imp'[r].owner, NewEpisodeOf(r))
       \/ imp'[r].pc \in {"conflict", "failed"} /\ UNCHANGED storeVars

EpisodeUpserted(r) ==
    /\ SameTask(r) /\ SameOwner(r)
    /\ imp'[r].next = imp[r].next + 1 /\ imp'[r].show = imp[r].show
    /\ imp'[r].pc = LoopPc(r, imp[r].next + 1)
    /\ \/ /\ imp[r].pc = "updateEpisode" /\ EpisodeChanged(imp[r].owner, imp[r].copy)
          /\ imp'[r].created = imp[r].created
       \/ /\ imp[r].pc = "refEpisode" /\ EpisodeBound(ItemKey(r), imp[r].owner)
          /\ imp'[r].created = imp[r].created \cup {<<"episode", Item(r).ext>>}

RunEffect(r) ==
    \/ Fetched(r) \/ GaveUp(r)
    \/ ShowLookedUp(r) \/ ShowFound(r) \/ ShowTried(r) \/ ShowUpserted(r)
    \/ EpisodeLookedUp(r) \/ EpisodeFound(r) \/ EpisodeTried(r) \/ EpisodeUpserted(r)

LEMMA BecomeLeaves ==
    ASSUME RunsTyped, NEW r \in Runs, NEW new, Become(r, new)
    PROVE  imp'[r] = new /\ \A q \in Runs \ {r} : imp'[q] = imp[q]
  BY DEF Become, RunsTyped

LEMMA StopLeaves ==
    ASSUME RunsTyped, NEW r \in Runs, NEW code, code # "ok", Stop(r, code)
    PROVE  /\ \A q \in Runs \ {r} : imp'[q] = imp[q]
           /\ SameTask(r) /\ SameCount(r) /\ SameOwner(r)
           /\ imp'[r].pc \in {"conflict", "failed"}
           /\ code # "conflict" => imp'[r].pc = "failed"
<1>1. imp[r] \in ImportRun
  BY DEF RunsTyped
<1> DEFINE pc == After(code, "done")
           new == [imp[r] EXCEPT !.pc = pc, !.copy = None]
<1>2. pc \in {"conflict", "failed"} /\ (code # "conflict" => pc = "failed")
  BY DEF After
<1>3. /\ new.pc = pc /\ new.src = imp[r].src /\ new.data = imp[r].data
      /\ new.next = imp[r].next /\ new.show = imp[r].show
      /\ new.created = imp[r].created /\ new.owner = imp[r].owner
  BY <1>1 DEF ImportRun
<1>4. Become(r, new)
  BY DEF Stop
<1> HIDE DEF pc, new
<1> QED
  BY <1>2, <1>3, <1>4, BecomeLeaves DEF SameTask, SameCount, SameOwner

\* What a run is about to bind or to look up.
LEMMA KeyTypes ==
    ASSUME RunsTyped, NEW r \in Runs
    PROVE  /\ imp[r].pc \in ShowPcs => ShowKey(r) \in Sources \X ExtIds
           /\ imp[r].pc \in EpisodePcs =>
                 ItemKey(r) \in Sources \X ExtIds /\ Item(r) \in ImportedEpisode
<1>1. RunShape(imp[r])
  BY DEF RunsTyped
<1>2. ASSUME imp[r].pc \in ShowPcs PROVE ShowKey(r) \in Sources \X ExtIds
  BY <1>1, <1>2 DEF RunShape, ShowKey, ImportedShow
<1>3. ASSUME imp[r].pc \in EpisodePcs
      PROVE  ItemKey(r) \in Sources \X ExtIds /\ Item(r) \in ImportedEpisode
  <2>1. Item(r) \in ImportedEpisode /\ imp[r].src \in Sources
    BY <1>1, <1>3, ItemType DEF RunShape
  <2> QED
    BY <2>1 DEF ItemKey, ImportedEpisode
<1> QED
  BY <1>2, <1>3

LEMMA RunEffects ==
    ASSUME KeysTyped, NEW r \in Runs, RunStep(r)
    PROVE  RunsWait(r) /\ RunEffect(r)
<1>1. StoreTypeOK /\ RunsTyped /\ req' = req
  BY DEF KeysTyped, TypeInv, TypeOK, RunStep
<1>2. imp[r] \in ImportRun /\ RunShape(imp[r])
  BY <1>1 DEF RunsTyped
<1> USE <1>1 DEF RunsWait, RunEffect
<1>3. ASSUME NEW code \in {"error", "notfound"}, Stop(r, code), UNCHANGED storeVars,
             imp[r].pc \notin Stopped
      PROVE  RunsWait(r) /\ GaveUp(r)
  BY <1>3, StopLeaves DEF GaveUp, Stopped
<1>4. CASE Fetch(r)
  <2>1. ASSUME NEW d \in Documents,
               Become(r, [imp[r] EXCEPT !.pc = "findShow", !.src = d.source,
                                        !.data = ImportOf(d)])
        PROVE  RunsWait(r) /\ Fetched(r)
    <3> DEFINE new == [imp[r] EXCEPT !.pc = "findShow", !.src = d.source,
                                     !.data = ImportOf(d)]
    <3>1. /\ new.pc = "findShow" /\ new.src = d.source /\ new.data = ImportOf(d)
          /\ new.next = imp[r].next /\ new.show = imp[r].show
          /\ new.created = imp[r].created /\ new.owner = imp[r].owner
      BY <1>2 DEF ImportRun
    <3>2. Become(r, new)
      BY <2>1
    <3> HIDE DEF new
    <3> QED
      BY <1>4, <3>1, <3>2, BecomeLeaves, DocumentAssumption
         DEF Fetch, Fetched, SameCount, SameOwner
  <2> QED
    BY <1>3, <1>4, <2>1 DEF Fetch, ImportFails, Stopped
<1>5. CASE FindShowOwner(r)
  <2> DEFINE found == showRefs[ShowKey(r)]
             pc == IF found = None THEN "insertShow" ELSE "getShow"
             new == [imp[r] EXCEPT !.pc = pc, !.owner = found]
  <2>1. /\ new.pc = pc /\ new.src = imp[r].src /\ new.data = imp[r].data
        /\ new.next = imp[r].next /\ new.show = imp[r].show
        /\ new.created = imp[r].created /\ new.owner = found
    BY <1>2 DEF ImportRun
  <2>2. Become(r, new) /\ imp[r].pc = "findShow" /\ UNCHANGED storeVars
    BY <1>5 DEF FindShowOwner
  <2> HIDE DEF new
  <2> QED
    BY <2>1, <2>2, BecomeLeaves DEF ShowLookedUp, SameTask, SameCount
<1>6. CASE GetShow(r)
  <2>1. CASE shows[imp[r].owner] = None
    BY <1>3, <1>6, <2>1 DEF GetShow, Stopped
  <2>2. CASE shows[imp[r].owner] # None
    <3> DEFINE copy == RefreshedShow(r, shows[imp[r].owner])
               new == [imp[r] EXCEPT !.pc = "updateShow", !.copy = copy]
    <3>1. /\ new.pc = "updateShow" /\ new.src = imp[r].src /\ new.data = imp[r].data
          /\ new.next = imp[r].next /\ new.show = imp[r].show /\ new.copy = copy
          /\ new.created = imp[r].created /\ new.owner = imp[r].owner
      BY <1>2 DEF ImportRun
    <3>2. Become(r, new) /\ imp[r].pc = "getShow" /\ UNCHANGED storeVars
      BY <1>6, <2>2 DEF GetShow
    <3> HIDE DEF new
    <3> QED
      BY <2>2, <3>1, <3>2, BecomeLeaves DEF ShowFound, SameTask, SameCount, SameOwner
  <2> QED
    BY <2>1, <2>2
<1>7. ASSUME NEW created, ShowDone(r, created)
      PROVE  /\ RunsWait(r) /\ SameTask(r) /\ SameOwner(r)
             /\ imp'[r].next = imp[r].next /\ imp'[r].show = imp[r].owner
             /\ imp'[r].pc = LoopPc(r, 1) /\ imp'[r].created = created
  <2> DEFINE new == [imp[r] EXCEPT !.pc = LoopPc(r, 1), !.show = imp[r].owner,
                                   !.copy = None, !.created = created]
  <2>1. /\ new.pc = LoopPc(r, 1) /\ new.src = imp[r].src /\ new.data = imp[r].data
        /\ new.next = imp[r].next /\ new.show = imp[r].owner
        /\ new.created = created /\ new.owner = imp[r].owner
    BY <1>2 DEF ImportRun
  <2>2. Become(r, new)
    BY <1>7 DEF ShowDone
  <2> HIDE DEF new
  <2> QED
    BY <2>1, <2>2, BecomeLeaves DEF SameTask, SameOwner
<1>8. CASE UpdateShow(r)
  <2>1. /\ imp[r].owner \in ShowIds /\ imp[r].copy \in ShowRow
        /\ shows[imp[r].owner] # None /\ SameShow(imp[r].copy, shows[imp[r].owner])
    BY <1>8, RunCopyType DEF UpdateShow, KeysTyped, KeysInv, CopiesKeepKeys, RunCopyKept
  <2>2. imp[r].pc = "updateShow" /\ ShowChanged(imp[r].owner, imp[r].copy)
    BY <1>8, <2>1, UpdatesGoWell DEF UpdateShow, PutShow, ShowChanged
  <2>3. PICK code \in {"ok", "error"} : IF code = "ok" THEN ShowDone(r, {}) ELSE Stop(r, code)
    BY <1>8, <2>1, UpdatesGoWell DEF UpdateShow, Answers
  <2>4. CASE code = "ok"
    BY <1>7, <2>2, <2>3, <2>4 DEF ShowUpserted
  <2>5. CASE code # "ok"
    BY <2>2, <2>3, <2>5, StopLeaves DEF GaveUp, Stopped
  <2> QED
    BY <2>4, <2>5
<1>9. CASE AddShow(r)
  <2>1. PICK i \in ShowIds :
           /\ shows[i] = None
           /\ PutShow(i, NewShowOf(r), CreateShowResult(i, NewShowOf(r)))
           /\ \E code \in Answers(r, CreateShowResult(i, NewShowOf(r))) :
                 Become(r, [imp[r] EXCEPT !.pc = After(code, "refShow"), !.owner = i])
    BY <1>9 DEF AddShow
  <2>2. PICK code \in Answers(r, CreateShowResult(i, NewShowOf(r))) :
            Become(r, [imp[r] EXCEPT !.pc = After(code, "refShow"), !.owner = i])
    BY <2>1
  <2> DEFINE pc == After(code, "refShow")
             new == [imp[r] EXCEPT !.pc = pc, !.owner = i]
  <2>3. /\ new.pc = pc /\ new.src = imp[r].src /\ new.data = imp[r].data
        /\ new.next = imp[r].next /\ new.show = imp[r].show
        /\ new.created = imp[r].created /\ new.owner = i
    BY <1>2 DEF ImportRun
  <2>4. Become(r, new) /\ imp[r].pc = "insertShow"
    BY <1>9, <2>2 DEF AddShow
  <2>5. \/ pc \in {"refShow", "failed"} /\ ShowAdded(i, NewShowOf(r))
        \/ pc \in {"conflict", "failed"} /\ UNCHANGED storeVars
    BY <1>9, <2>1, <2>2, NewRowTypes
       DEF AddShow, PutShow, CreateShowResult, Answers, After, ShowAdded, storeVars
  <2> HIDE DEF new, pc
  <2> QED
    BY <2>3, <2>4, <2>5, BecomeLeaves DEF ShowTried, SameTask, SameCount
<1>10. CASE RefShow(r)
  <2>1. ShowKey(r) \in Sources \X ExtIds /\ imp[r].owner \in ShowIds
    BY <1>2, <1>10, KeyTypes DEF RefShow, ShowPcs, RunShape
  <2>2. UNCHANGED storeVars \/ ShowBound(ShowKey(r), imp[r].owner)
    BY <1>10, <2>1 DEF RefShow, CreateRefResult, WithRef, ShowBound, storeVars
  <2>3. PICK code \in Answers(r, CreateRefResult(showRefs, ShowKey(r))) :
            IF code = "ok" THEN ShowDone(r, {<<"show", imp[r].data.ext>>}) ELSE Stop(r, code)
    BY <1>10 DEF RefShow
  <2>4. CASE code = "ok"
    <3>1. CreateRefResult(showRefs, ShowKey(r)) = "ok"
      BY <2>3, <2>4 DEF Answers
    <3>2. imp[r].pc = "refShow" /\ ShowBound(ShowKey(r), imp[r].owner)
      BY <1>10, <2>1, <3>1 DEF RefShow, CreateRefResult, WithRef, ShowBound
    <3> QED
      BY <1>7, <2>3, <2>4, <3>2 DEF ShowUpserted
  <2>5. CASE code # "ok"
    BY <1>10, <2>2, <2>3, <2>5, StopLeaves DEF GaveUp, RefShow, Stopped
  <2> QED
    BY <2>4, <2>5
<1>11. CASE FindEpisodeOwner(r)
  <2> DEFINE found == episodeRefs[ItemKey(r)]
             pc == IF found = None THEN "insertEpisode" ELSE "getEpisode"
             new == [imp[r] EXCEPT !.pc = pc, !.owner = found]
  <2>1. /\ new.pc = pc /\ new.src = imp[r].src /\ new.data = imp[r].data
        /\ new.next = imp[r].next /\ new.show = imp[r].show
        /\ new.created = imp[r].created /\ new.owner = found
    BY <1>2 DEF ImportRun
  <2>2. Become(r, new) /\ imp[r].pc = "findEpisode" /\ UNCHANGED storeVars
    BY <1>11 DEF FindEpisodeOwner, FoundEpisode
  <2> HIDE DEF new
  <2> QED
    BY <2>1, <2>2, BecomeLeaves DEF EpisodeLookedUp, SameTask, SameCount
<1>12. CASE GetEpisode(r)
  <2>1. CASE episodes[imp[r].owner] = None
    BY <1>3, <1>12, <2>1 DEF GetEpisode, Stopped
  <2>2. CASE episodes[imp[r].owner] # None
    <3> DEFINE copy == RefreshedEpisode(r, episodes[imp[r].owner])
               new == [imp[r] EXCEPT !.pc = "updateEpisode", !.copy = copy]
    <3>1. /\ new.pc = "updateEpisode" /\ new.src = imp[r].src /\ new.data = imp[r].data
          /\ new.next = imp[r].next /\ new.show = imp[r].show /\ new.copy = copy
          /\ new.created = imp[r].created /\ new.owner = imp[r].owner
      BY <1>2 DEF ImportRun
    <3>2. Become(r, new) /\ imp[r].pc = "getEpisode" /\ UNCHANGED storeVars
      BY <1>12, <2>2 DEF GetEpisode
    <3> HIDE DEF new
    <3> QED
      BY <2>2, <3>1, <3>2, BecomeLeaves DEF EpisodeFound, SameTask, SameCount, SameOwner
  <2> QED
    BY <2>1, <2>2
<1>13. ASSUME NEW created, ItemDone(r, created)
      PROVE  /\ RunsWait(r) /\ SameTask(r) /\ SameOwner(r)
             /\ imp'[r].next = imp[r].next + 1 /\ imp'[r].show = imp[r].show
             /\ imp'[r].pc = LoopPc(r, imp[r].next + 1)
             /\ imp'[r].created = imp[r].created \cup created
  <2> DEFINE new == [imp[r] EXCEPT !.pc = LoopPc(r, imp[r].next + 1),
                                   !.next = imp[r].next + 1, !.copy = None,
                                   !.created = imp[r].created \cup created]
  <2>1. /\ new.pc = LoopPc(r, imp[r].next + 1) /\ new.src = imp[r].src
        /\ new.data = imp[r].data /\ new.next = imp[r].next + 1
        /\ new.show = imp[r].show /\ new.owner = imp[r].owner
        /\ new.created = imp[r].created \cup created
    BY <1>2 DEF ImportRun
  <2>2. Become(r, new)
    BY <1>13 DEF ItemDone
  <2> HIDE DEF new
  <2> QED
    BY <2>1, <2>2, BecomeLeaves DEF SameTask, SameOwner
<1>14. CASE UpdateEpisode(r)
  <2>1. /\ imp[r].owner \in EpisodeIds /\ imp[r].copy \in EpisodeRow
        /\ episodes[imp[r].owner] # None
        /\ SameEpisode(imp[r].copy, episodes[imp[r].owner])
    BY <1>14, RunCopyType
       DEF UpdateEpisode, KeysTyped, KeysInv, CopiesKeepKeys, RunCopyKept
  <2>2. imp[r].pc = "updateEpisode" /\ EpisodeChanged(imp[r].owner, imp[r].copy)
    BY <1>14, <2>1, UpdatesGoWell DEF UpdateEpisode, PutEpisode, EpisodeChanged
  <2>3. PICK code \in {"ok", "error"} : IF code = "ok" THEN ItemDone(r, {}) ELSE Stop(r, code)
    BY <1>14, <2>1, UpdatesGoWell DEF UpdateEpisode, Answers
  <2>4. CASE code = "ok"
    <3>1. imp[r].created \cup {} = imp[r].created
      OBVIOUS
    <3> QED
      BY <1>13, <2>2, <2>3, <2>4, <3>1 DEF EpisodeUpserted
  <2>5. CASE code # "ok"
    BY <2>2, <2>3, <2>5, StopLeaves DEF GaveUp, Stopped
  <2> QED
    BY <2>4, <2>5
<1>15. CASE AddEpisode(r)
  <2>1. PICK e \in EpisodeIds :
           /\ episodes[e] = None
           /\ PutEpisode(e, NewEpisodeOf(r), CreateEpisodeResult(e, NewEpisodeOf(r)))
           /\ \E code \in Answers(r, CreateEpisodeResult(e, NewEpisodeOf(r))) :
                 Become(r, [imp[r] EXCEPT !.pc = After(code, "refEpisode"), !.owner = e])
    BY <1>15 DEF AddEpisode
  <2>2. PICK code \in Answers(r, CreateEpisodeResult(e, NewEpisodeOf(r))) :
            Become(r, [imp[r] EXCEPT !.pc = After(code, "refEpisode"), !.owner = e])
    BY <2>1
  <2> DEFINE pc == After(code, "refEpisode")
             new == [imp[r] EXCEPT !.pc = pc, !.owner = e]
  <2>3. /\ new.pc = pc /\ new.src = imp[r].src /\ new.data = imp[r].data
        /\ new.next = imp[r].next /\ new.show = imp[r].show
        /\ new.created = imp[r].created /\ new.owner = e
    BY <1>2 DEF ImportRun
  <2>4. Become(r, new) /\ imp[r].pc = "insertEpisode"
    BY <1>15, <2>2 DEF AddEpisode
  <2>5. \/ pc \in {"refEpisode", "failed"} /\ EpisodeAdded(e, NewEpisodeOf(r))
        \/ pc \in {"conflict", "failed"} /\ UNCHANGED storeVars
    BY <1>15, <2>1, <2>2, NewRowTypes
       DEF AddEpisode, PutEpisode, CreateEpisodeResult, Answers, After, EpisodeAdded,
           storeVars
  <2> HIDE DEF new, pc
  <2> QED
    BY <2>3, <2>4, <2>5, BecomeLeaves DEF EpisodeTried, SameTask, SameCount
<1>16. CASE RefEpisode(r)
  <2>1. ItemKey(r) \in Sources \X ExtIds /\ imp[r].owner \in EpisodeIds
    BY <1>2, <1>16, KeyTypes DEF RefEpisode, EpisodePcs, RunShape
  <2>2. UNCHANGED storeVars \/ EpisodeBound(ItemKey(r), imp[r].owner)
    BY <1>16, <2>1 DEF RefEpisode, CreateRefResult, WithRef, EpisodeBound, storeVars
  <2>3. PICK code \in Answers(r, CreateRefResult(episodeRefs, ItemKey(r))) :
            IF code = "ok" THEN ItemDone(r, {<<"episode", Item(r).ext>>}) ELSE Stop(r, code)
    BY <1>16 DEF RefEpisode
  <2>4. CASE code = "ok"
    <3>1. CreateRefResult(episodeRefs, ItemKey(r)) = "ok"
      BY <2>3, <2>4 DEF Answers
    <3>2. imp[r].pc = "refEpisode" /\ EpisodeBound(ItemKey(r), imp[r].owner)
      BY <1>16, <2>1, <3>1 DEF RefEpisode, CreateRefResult, WithRef, EpisodeBound
    <3> QED
      BY <1>13, <2>3, <2>4, <3>2 DEF EpisodeUpserted
  <2>5. CASE code # "ok"
    BY <1>16, <2>2, <2>3, <2>5, StopLeaves DEF GaveUp, RefEpisode, Stopped
  <2> QED
    BY <2>4, <2>5
<1>17. CASE CallFails(r)
  BY <1>3, <1>17 DEF CallFails, Stopped
<1> QED
  BY <1>4, <1>5, <1>6, <1>8, <1>9, <1>10, <1>11, <1>12, <1>14, <1>15, <1>16, <1>17
     DEF RunStep, ImportStep, UpsertShow, UpsertEpisode

(* Every step of the write path is one of these.                           *)
LEMMA Effects ==
    ASSUME KeysTyped, [Next]_vars
    PROVE  \/ UNCHANGED vars
           \/ \E s \in Sessions : OthersWait(s) /\ SessionEffect(s)
           \/ \E r \in Runs : RunsWait(r) /\ RunEffect(r)
  BY SessionEffects, RunEffects DEF Next

----------------------------------------------------------------------------
(* What stays published.  StatusInv, by rows, requests and runs.            *)
RowStatus == RefsImported /\ NeverArchived /\ ImportedStayPublished

RequestStatus(s) ==
    /\ req[s].pc = "writeShow" =>
          /\ req[s].copy.status \in {"draft", "published"}
          /\ req[s].op = "publishShow" => req[s].copy.status = "published"
          /\ req[s].copy.createdBy \in Runs => req[s].copy.status = "published"
    /\ req[s].pc = "writeEpisode" => req[s].copy.status = "published"
    /\ req[s].pc = "insertEpisode" => req[s].copy.createdBy = s
    /\ req[s].pc = "idle" /\ req[s].op = "publishEpisode" /\ req[s].code = "ok" =>
          /\ req[s].id \in EpisodeIds /\ episodes[req[s].id] # None
          /\ episodes[req[s].id].status = "published"

RunStatus(r) ==
    /\ imp[r].pc \in {"getShow", "updateShow", "refShow"} =>
          shows[imp[r].owner] # None /\ shows[imp[r].owner].createdBy \in Runs
    /\ imp[r].pc \in {"getEpisode", "updateEpisode", "refEpisode"} =>
          episodes[imp[r].owner] # None /\ episodes[imp[r].owner].createdBy \in Runs
    /\ imp[r].pc \in {"updateShow", "updateEpisode"} => imp[r].copy.status = "published"

LEMMA StatusParts ==
    StatusInv <=> /\ RowStatus
                  /\ \A s \in Sessions : RequestStatus(s)
                  /\ \A r \in Runs : RunStatus(r)
  BY DEF StatusInv, RowStatus, RequestStatus, RunStatus, OwnersImported, RepliesNameRows,
         CopiesKeepStatus, AckedEpisodePublishHolds

LEMMA StatusPartsNext ==
    ASSUME RowStatus', \A s \in Sessions : RequestStatus(s)', \A r \in Runs : RunStatus(r)'
    PROVE  StatusInv'
  BY DEF StatusInv, RowStatus, RequestStatus, RunStatus, OwnersImported, RepliesNameRows,
         CopiesKeepStatus, AckedEpisodePublishHolds

\* No write takes an episode down.
EpisodesStayUp ==
    \A e \in EpisodeIds : episodes[e] # None /\ episodes[e].status = "published" =>
        episodes'[e] # None /\ episodes'[e].status = "published"

\* A row that may be written: imported rows are published.
Writable(row) == row.createdBy \in Runs => row.status = "published"

LEMMA TablesStatus ==
    ASSUME UNCHANGED storeVars, RowStatus
    PROVE  RowStatus' /\ EpisodesStayUp
  BY DEF RowStatus, RefsImported, NeverArchived, ImportedStayPublished, EpisodesStayUp,
         storeVars

LEMMA ShowStatus ==
    ASSUME StoreTypeOK, RowStatus, RowsKept, NEW i, NEW row, Writable(row),
           row.status # "archived", ShowAdded(i, row) \/ ShowChanged(i, row)
    PROVE  RowStatus' /\ EpisodesStayUp
<1>1. /\ shows'[i] = row /\ \A j \in ShowIds \ {i} : shows'[j] = shows[j]
      /\ UNCHANGED <<episodes, showRefs, episodeRefs>>
  BY DEF ShowAdded, ShowChanged, StoreTypeOK
<1>2. RefsImported'
  BY <1>1 DEF RowStatus, RefsImported, RowsKept, SameShow, SameEpisode, StoreTypeOK
<1>3. NeverArchived' /\ ImportedStayPublished'
  BY <1>1 DEF RowStatus, NeverArchived, ImportedStayPublished, Writable
<1> QED
  BY <1>1, <1>2, <1>3 DEF RowStatus, EpisodesStayUp

LEMMA EpisodeStatus ==
    ASSUME StoreTypeOK, RowStatus, RowsKept, NEW e, NEW row, Writable(row),
           \/ EpisodeAdded(e, row)
           \/ EpisodeChanged(e, row) /\ row.status = "published"
    PROVE  RowStatus' /\ EpisodesStayUp
<1>1. /\ episodes'[e] = row /\ \A f \in EpisodeIds \ {e} : episodes'[f] = episodes[f]
      /\ UNCHANGED <<shows, showRefs, episodeRefs>>
  BY DEF EpisodeAdded, EpisodeChanged, StoreTypeOK
<1>2. RefsImported'
  BY <1>1 DEF RowStatus, RefsImported, RowsKept, SameShow, SameEpisode, StoreTypeOK
<1>3. NeverArchived' /\ ImportedStayPublished'
  BY <1>1 DEF RowStatus, NeverArchived, ImportedStayPublished, Writable
<1>4. EpisodesStayUp
  BY <1>1, RowAssumption DEF EpisodesStayUp, EpisodeAdded, EpisodeChanged
<1> QED
  BY <1>2, <1>3, <1>4 DEF RowStatus

LEMMA BoundStatus ==
    ASSUME StoreTypeOK, RowStatus, NEW k, NEW owner,
           \/ /\ ShowBound(k, owner)
              /\ shows[owner] # None /\ shows[owner].createdBy \in Runs
           \/ /\ EpisodeBound(k, owner)
              /\ episodes[owner] # None /\ episodes[owner].createdBy \in Runs
    PROVE  RowStatus' /\ EpisodesStayUp
<1>1. shows' = shows /\ episodes' = episodes
  BY DEF ShowBound, EpisodeBound
<1>2. NeverArchived' /\ ImportedStayPublished' /\ EpisodesStayUp
  BY <1>1 DEF RowStatus, NeverArchived, ImportedStayPublished, EpisodesStayUp
<1>3. RefsImported'
  BY <1>1 DEF RowStatus, RefsImported, ShowBound, EpisodeBound, StoreTypeOK
<1> QED
  BY <1>2, <1>3 DEF RowStatus

\* Those that do not move keep what they have.
LEMMA StatusStays ==
    ASSUME KeysTyped, RowsKept, EpisodesStayUp
    PROVE  /\ \A s \in Sessions : RequestStatus(s) /\ req'[s] = req[s] => RequestStatus(s)'
           /\ \A r \in Runs : RunStatus(r) /\ imp'[r] = imp[r] => RunStatus(r)'
<1>1. RunsTyped
  BY DEF KeysTyped, TypeInv
<1>2. ASSUME NEW s \in Sessions, RequestStatus(s), req'[s] = req[s] PROVE RequestStatus(s)'
  BY <1>2 DEF RequestStatus, EpisodesStayUp
<1>3. ASSUME NEW r \in Runs, RunStatus(r), imp'[r] = imp[r] PROVE RunStatus(r)'
  BY <1>1, <1>3 DEF RunsTyped, RunShape, RunStatus, RowsKept, SameShow, SameEpisode
<1> QED
  BY <1>2, <1>3

LEMMA SessionStatus ==
    ASSUME KeysTyped, StatusInv, RowsKept, NEW s \in Sessions, OthersWait(s), SessionEffect(s)
    PROVE  StatusInv' /\ EpisodesStayUp
<1>1. StoreTypeOK /\ CMSTypeOK /\ Sessions \cap Runs = {}
  BY StoreAssumption DEF KeysTyped, TypeInv, TypeOK
<1>2. RowStatus /\ (\A t \in Sessions : RequestStatus(t)) /\ \A r \in Runs : RunStatus(r)
  BY StatusParts
<1>3. SUFFICES RowStatus' /\ EpisodesStayUp /\ RequestStatus(s)'
  <2>1. ASSUME RowStatus', EpisodesStayUp, RequestStatus(s)' PROVE StatusInv' /\ EpisodesStayUp
    <3>1. \A t \in Sessions : RequestStatus(t)'
      BY <1>2, <2>1, StatusStays DEF OthersWait
    <3>2. \A r \in Runs : RunStatus(r)'
      BY <1>2, <2>1, StatusStays DEF OthersWait
    <3> QED
      BY <2>1, <3>1, <3>2, StatusPartsNext
  <2> QED
    BY <2>1
<1>4. ASSUME UNCHANGED storeVars PROVE RowStatus' /\ EpisodesStayUp
  BY <1>2, <1>4, TablesStatus
<1>5. CASE Refused(s)
  BY <1>4, <1>5 DEF Refused, RequestStatus
<1>6. CASE ShowCreated(s)
  <2>1. RequestStatus(s)'
    BY <1>6 DEF ShowCreated, RequestStatus
  <2>2. ASSUME NEW i \in ShowIds, NEW row \in ShowRow, ShowAdded(i, row),
               row.status = "draft", row.createdBy = s
        PROVE  RowStatus' /\ EpisodesStayUp
    BY <1>1, <1>2, <2>2, ShowStatus DEF Writable
  <2> QED
    BY <1>4, <1>6, <2>1, <2>2 DEF ShowCreated
<1>7. CASE ShowRead(s)
  <2>1. shows[req'[s].id] \in ShowRow
    BY <1>1, <1>7 DEF ShowRead, StoreTypeOK
  <2>2. /\ shows[req'[s].id].status \in {"draft", "published"}
        /\ shows[req'[s].id].createdBy \in Runs => shows[req'[s].id].status = "published"
    BY <1>2, <1>7, <2>1 DEF ShowRead, RowStatus, NeverArchived, ImportedStayPublished, ShowRow,
                            Status
  <2>3. /\ req'[s].copy.status \in {"draft", "published"}
        /\ req'[s].op = "publishShow" => req'[s].copy.status = "published"
        /\ req'[s].copy.createdBy \in Runs => req'[s].copy.status = "published"
    BY <1>7, <2>2 DEF ShowRead, SameShow
  <2>4. RequestStatus(s)'
    BY <1>7, <2>3 DEF ShowRead, RequestStatus
  <2> QED
    BY <1>4, <1>7, <2>4 DEF ShowRead
<1>8. CASE ShowWritten(s)
  <2>1. RequestStatus(s)'
    BY <1>8 DEF ShowWritten, RequestStatus
  <2>2. Writable(req[s].copy) /\ req[s].copy.status # "archived"
    BY <1>2, <1>8 DEF ShowWritten, RequestStatus, Writable
  <2> QED
    BY <1>1, <1>2, <1>8, <2>1, <2>2, ShowStatus DEF ShowWritten
<1>9. CASE EpisodeDrafted(s)
  BY <1>4, <1>9 DEF EpisodeDrafted, RequestStatus
<1>10. CASE EpisodeCreated(s)
  <2>1. RequestStatus(s)'
    BY <1>10 DEF EpisodeCreated, RequestStatus
  <2>2. Writable(req[s].copy)
    BY <1>1, <1>2, <1>10 DEF EpisodeCreated, RequestStatus, Writable
  <2> QED
    BY <1>1, <1>2, <1>4, <1>10, <2>1, <2>2, EpisodeStatus DEF EpisodeCreated
<1>11. CASE EpisodeRead(s)
  BY <1>4, <1>11 DEF EpisodeRead, RequestStatus
<1>12. CASE EpisodeWritten(s)
  <2>1. req[s].copy.status = "published" /\ EpisodeChanged(req[s].id, req[s].copy)
    BY <1>2, <1>12 DEF EpisodeWritten, RequestStatus
  <2>2. RowStatus' /\ EpisodesStayUp
    BY <1>1, <1>2, <2>1, EpisodeStatus DEF Writable
  <2>3. /\ req[s].id \in EpisodeIds
        /\ episodes'[req[s].id] # None /\ episodes'[req[s].id].status = "published"
    BY <1>1, <2>1, RowAssumption DEF EpisodeChanged, StoreTypeOK
  <2>4. RequestStatus(s)'
    BY <1>12, <2>3 DEF EpisodeWritten, RequestStatus
  <2> QED
    BY <2>2, <2>4
<1> QED
  BY <1>5, <1>6, <1>7, <1>8, <1>9, <1>10, <1>11, <1>12 DEF SessionEffect

LEMMA RunStatusNext ==
    ASSUME KeysTyped, StatusInv, RowsKept, NEW r \in Runs, RunsWait(r), RunEffect(r)
    PROVE  StatusInv' /\ EpisodesStayUp
<1>1. StoreTypeOK /\ RunsTyped /\ RunShape(imp[r])
  BY DEF KeysTyped, TypeInv, TypeOK, RunsTyped
<1>2. RowStatus /\ (\A s \in Sessions : RequestStatus(s)) /\ \A q \in Runs : RunStatus(q)
  BY StatusParts
<1>3. SUFFICES RowStatus' /\ EpisodesStayUp /\ RunStatus(r)'
  <2>1. ASSUME RowStatus', EpisodesStayUp, RunStatus(r)' PROVE StatusInv' /\ EpisodesStayUp
    <3>1. \A s \in Sessions : RequestStatus(s)'
      BY <1>2, <2>1, StatusStays DEF RunsWait
    <3>2. \A q \in Runs : RunStatus(q)'
      BY <1>2, <2>1, StatusStays DEF RunsWait
    <3> QED
      BY <2>1, <3>1, <3>2, StatusPartsNext
  <2> QED
    BY <2>1
<1>4. ASSUME UNCHANGED storeVars PROVE RowStatus' /\ EpisodesStayUp
  BY <1>2, <1>4, TablesStatus
<1>5. imp'[r].pc \in {"insertShow", "insertEpisode", "findShow", "findEpisode", "conflict",
                      "failed", "done"} => RunStatus(r)'
  BY DEF RunStatus
<1>6. \A n : LoopPc(r, n) \in {"done", "findEpisode"}
  BY DEF LoopPc
<1>7. imp[r].pc = "updateShow" /\ ShowChanged(imp[r].owner, imp[r].copy)
        => RowStatus' /\ EpisodesStayUp
  BY <1>1, <1>2, ShowStatus DEF RunStatus, Writable
<1>8. imp[r].pc = "updateEpisode" /\ EpisodeChanged(imp[r].owner, imp[r].copy)
        => RowStatus' /\ EpisodesStayUp
  BY <1>1, <1>2, EpisodeStatus DEF RunStatus, Writable
<1>9. imp[r].pc = "refShow" /\ ShowBound(ShowKey(r), imp[r].owner)
        => RowStatus' /\ EpisodesStayUp
  BY <1>1, <1>2, BoundStatus DEF RunStatus
<1>10. imp[r].pc = "refEpisode" /\ EpisodeBound(ItemKey(r), imp[r].owner)
        => RowStatus' /\ EpisodesStayUp
  BY <1>1, <1>2, BoundStatus DEF RunStatus
<1>11. CASE Fetched(r)
  BY <1>4, <1>5, <1>11 DEF Fetched
<1>12. CASE GaveUp(r)
  BY <1>4, <1>5, <1>7, <1>8, <1>9, <1>10, <1>12 DEF GaveUp
<1>13. CASE ShowLookedUp(r)
  <2>1. ShowKey(r) \in Sources \X ExtIds
    BY <1>1, <1>13, KeyTypes DEF ShowLookedUp, ShowPcs
  <2>2. RunStatus(r)'
    BY <1>2, <1>5, <1>13, <2>1 DEF ShowLookedUp, RunStatus, RowStatus, RefsImported, storeVars
  <2> QED
    BY <1>4, <1>13, <2>2 DEF ShowLookedUp
<1>14. CASE ShowFound(r)
  <2>1. shows[imp[r].owner] \in ShowRow
    BY <1>1, <1>14 DEF ShowFound, RunShape, StoreTypeOK
  <2>2. imp'[r].copy.status = shows[imp[r].owner].status
    BY <1>14, <2>1 DEF ShowFound, RefreshedShow, ShowRow
  <2>3. shows[imp[r].owner].createdBy \in Runs /\ shows[imp[r].owner].status = "published"
    BY <1>1, <1>2, <1>14 DEF ShowFound, RunStatus, RunShape, RowStatus, ImportedStayPublished
  <2>4. RunStatus(r)'
    BY <1>14, <2>2, <2>3 DEF ShowFound, RunStatus, SameOwner, storeVars
  <2> QED
    BY <1>4, <1>14, <2>4 DEF ShowFound
<1>15. CASE ShowTried(r)
  <2>1. NewShowOf(r).status = "published" /\ NewShowOf(r).createdBy = r
    BY DEF NewShowOf
  <2>2. RowStatus' /\ EpisodesStayUp
    BY <1>1, <1>2, <1>4, <1>15, <2>1, ShowStatus DEF ShowTried, Writable
  <2>3. CASE ShowAdded(imp'[r].owner, NewShowOf(r))
    <3>1. shows'[imp'[r].owner] = NewShowOf(r) /\ NewShowOf(r) # None
      BY <1>1, <2>3, RowAssumption DEF ShowAdded, StoreTypeOK
    <3> QED
      BY <1>5, <1>15, <2>1, <2>2, <3>1 DEF ShowTried, RunStatus
  <2> QED
    BY <1>5, <1>15, <2>2, <2>3 DEF ShowTried
<1>16. CASE ShowUpserted(r)
  BY <1>5, <1>6, <1>7, <1>9, <1>16 DEF ShowUpserted
<1>17. CASE EpisodeLookedUp(r)
  <2>1. ItemKey(r) \in Sources \X ExtIds
    BY <1>1, <1>17, KeyTypes DEF EpisodeLookedUp, EpisodePcs
  <2>2. RunStatus(r)'
    BY <1>2, <1>5, <1>17, <2>1
       DEF EpisodeLookedUp, RunStatus, RowStatus, RefsImported, storeVars
  <2> QED
    BY <1>4, <1>17, <2>2 DEF EpisodeLookedUp
<1>18. CASE EpisodeFound(r)
  <2>1. episodes[imp[r].owner] \in EpisodeRow
    BY <1>1, <1>18 DEF EpisodeFound, RunShape, StoreTypeOK
  <2>2. imp'[r].copy.status = episodes[imp[r].owner].status
    BY <1>18, <2>1 DEF EpisodeFound, RefreshedEpisode, EpisodeRow
  <2>3. episodes[imp[r].owner].createdBy \in Runs /\ episodes[imp[r].owner].status = "published"
    BY <1>1, <1>2, <1>18
       DEF EpisodeFound, RunStatus, RunShape, RowStatus, ImportedStayPublished
  <2>4. RunStatus(r)'
    BY <1>18, <2>2, <2>3 DEF EpisodeFound, RunStatus, SameOwner, storeVars
  <2> QED
    BY <1>4, <1>18, <2>4 DEF EpisodeFound
<1>19. CASE EpisodeTried(r)
  <2>1. NewEpisodeOf(r).status = "published" /\ NewEpisodeOf(r).createdBy = r
    BY DEF NewEpisodeOf
  <2>2. RowStatus' /\ EpisodesStayUp
    BY <1>1, <1>2, <1>4, <1>19, <2>1, EpisodeStatus DEF EpisodeTried, Writable
  <2>3. CASE EpisodeAdded(imp'[r].owner, NewEpisodeOf(r))
    <3>1. episodes'[imp'[r].owner] = NewEpisodeOf(r) /\ NewEpisodeOf(r) # None
      BY <1>1, <2>3, RowAssumption DEF EpisodeAdded, StoreTypeOK
    <3> QED
      BY <1>5, <1>19, <2>1, <2>2, <3>1 DEF EpisodeTried, RunStatus
  <2> QED
    BY <1>5, <1>19, <2>2, <2>3 DEF EpisodeTried
<1>20. CASE EpisodeUpserted(r)
  BY <1>5, <1>6, <1>8, <1>10, <1>20 DEF EpisodeUpserted
<1> QED
  BY <1>11, <1>12, <1>13, <1>14, <1>15, <1>16, <1>17, <1>18, <1>19, <1>20 DEF RunEffect

StatusTyped == KeysTyped /\ StatusInv

LEMMA InitStatus == Init => StatusInv
  BY DEF Init, StoreInit, CMSInit, IngestionInit, StatusInv, RefsImported, OwnersImported,
         RepliesNameRows, NeverArchived, CopiesKeepStatus, ImportedStayPublished,
         AckedEpisodePublishHolds

LEMMA NextStatus == StatusTyped /\ [Next]_vars => StatusInv' /\ EpisodesStayUp
<1> SUFFICES ASSUME StatusTyped, [Next]_vars PROVE StatusInv' /\ EpisodesStayUp
  OBVIOUS
<1>1. KeysTyped /\ StatusInv /\ RowsKept
  BY NextKeys DEF StatusTyped
<1>2. CASE UNCHANGED vars
  <2>1. RowStatus' /\ EpisodesStayUp
    BY <1>1, <1>2, StatusParts, TablesStatus DEF vars, storeVars
  <2>2. (\A s \in Sessions : RequestStatus(s)') /\ \A r \in Runs : RunStatus(r)'
    BY <1>1, <1>2, <2>1, StatusParts, StatusStays DEF vars
  <2> QED
    BY <2>1, <2>2, StatusPartsNext
<1>3. ASSUME NEW s \in Sessions, OthersWait(s), SessionEffect(s) PROVE StatusInv' /\ EpisodesStayUp
  BY <1>1, <1>3, SessionStatus
<1>4. ASSUME NEW r \in Runs, RunsWait(r), RunEffect(r) PROVE StatusInv' /\ EpisodesStayUp
  BY <1>1, <1>4, RunStatusNext
<1> QED
  BY <1>1, <1>2, <1>3, <1>4, Effects

LEMMA StatusInductive == Spec => []StatusTyped
<1>1. StatusTyped /\ [Next]_vars => StatusInv'
  BY NextStatus
<1>2. KeysTyped /\ StatusInv => StatusTyped
  BY DEF StatusTyped
<1>3. Spec => []StatusInv
  <2>1. KeysTyped /\ StatusInv /\ [Next]_vars => StatusInv'
    BY <1>1, <1>2
  <2> QED
    BY InitStatus, <2>1, KeysInductive, PTL DEF Spec
<1> QED
  BY <1>2, <1>3, KeysInductive, PTL

(* What a run created is published from the start and for good, whatever    *)
(* old copies of it requests and other runs write back.                     *)
THEOREM ImportedStaysPublished == Spec => []ImportedStayPublished
<1>1. StatusTyped => ImportedStayPublished
  BY DEF StatusTyped, StatusInv
<1> QED
  BY <1>1, StatusInductive, PTL

(* An episode that publishEpisode reported as published is so from then on: *)
(* there is no handler whose copy of an episode could take it down.         *)
THEOREM AckedEpisodesStayPublished == Spec => []AckedEpisodePublishHolds
<1>1. StatusTyped => AckedEpisodePublishHolds
  BY DEF StatusTyped, StatusInv
<1> QED
  BY <1>1, StatusInductive, PTL

\* The statement of UnpublishedOnlyByStalePatch, of one step.
TakenDownBy(i, s) ==
    /\ req[s].pc = "writeShow" /\ req[s].op = "updateShow"
    /\ req[s].id = i /\ req[s].copy.status = "draft"

OnlyByPatch ==
    /\ \A i \in ShowIds :
          (shows[i] # None /\ shows[i].status = "published"
           /\ shows'[i].status # "published") => \E s \in Sessions : TakenDownBy(i, s)
    /\ \A s \in Sessions :
          (req[s].pc = "idle" /\ req'[s].pc = "writeShow" /\ req'[s].op = "updateShow") =>
              req'[s].copy.status = shows[req'[s].id].status

LEMMA NextOnlyByPatch == StatusTyped /\ [Next]_vars => OnlyByPatch
<1> SUFFICES ASSUME StatusTyped, [Next]_vars PROVE OnlyByPatch
  OBVIOUS
<1>1. KeysTyped /\ StoreTypeOK
  BY DEF StatusTyped, KeysTyped, TypeInv, TypeOK
<1>2. RowStatus /\ (\A s \in Sessions : RequestStatus(s)) /\ \A r \in Runs : RunStatus(r)
  BY StatusParts DEF StatusTyped
<1>3. CASE UNCHANGED vars
  BY <1>3 DEF vars, OnlyByPatch
<1>4. ASSUME NEW s \in Sessions, OthersWait(s), SessionEffect(s) PROVE OnlyByPatch
  <2>1. CASE UNCHANGED shows
    BY <1>4, <2>1
       DEF OnlyByPatch, OthersWait, SessionEffect, Refused, ShowCreated, ShowRead, ShowWritten,
           EpisodeDrafted, EpisodeCreated, EpisodeRead, EpisodeWritten
  <2>2. CASE ShowCreated(s) /\ ~UNCHANGED storeVars
    <3>1. PICK i \in ShowIds, row \in ShowRow : ShowAdded(i, row)
      BY <2>2 DEF ShowCreated
    <3>2. shows[i] = None /\ \A j \in ShowIds \ {i} : shows'[j] = shows[j]
      BY <1>1, <3>1 DEF ShowAdded, StoreTypeOK
    <3> QED
      BY <1>4, <2>2, <3>2 DEF OnlyByPatch, OthersWait, ShowCreated
  <2>3. CASE ShowWritten(s)
    <3>1. /\ shows'[req[s].id] = req[s].copy
          /\ \A j \in ShowIds \ {req[s].id} : shows'[j] = shows[j]
      BY <1>1, <2>3 DEF ShowWritten, ShowChanged, StoreTypeOK
    <3>2. req[s].copy.status # "published" => TakenDownBy(req[s].id, s)
      BY <1>2, <2>3 DEF ShowWritten, RequestStatus, TakenDownBy
    <3> QED
      BY <1>4, <2>3, <3>1, <3>2 DEF OnlyByPatch, OthersWait, ShowWritten
  <2> QED
    BY <1>4, <2>1, <2>2, <2>3
       DEF SessionEffect, Refused, ShowCreated, ShowRead, EpisodeDrafted, EpisodeCreated,
           EpisodeRead, EpisodeWritten, EpisodeAdded, EpisodeChanged, storeVars
<1>5. ASSUME NEW r \in Runs, RunsWait(r), RunEffect(r) PROVE OnlyByPatch
  <2>1. CASE UNCHANGED shows
    BY <1>5, <2>1 DEF OnlyByPatch, RunsWait
  <2>2. ASSUME NEW i, NEW row, ShowAdded(i, row) \/ ShowChanged(i, row),
               row.status = "published"
        PROVE  OnlyByPatch
    <3>1. shows'[i] = row /\ \A j \in ShowIds \ {i} : shows'[j] = shows[j]
      BY <1>1, <2>2 DEF ShowAdded, ShowChanged, StoreTypeOK
    <3> QED
      BY <1>5, <2>2, <3>1 DEF OnlyByPatch, RunsWait
  <2>3. NewShowOf(r).status = "published"
    BY DEF NewShowOf
  <2>4. imp[r].pc = "updateShow" => imp[r].copy.status = "published"
    BY <1>2 DEF RunStatus
  <2> QED
    BY <1>5, <2>1, <2>2, <2>3, <2>4
       DEF RunEffect, Fetched, GaveUp, ShowLookedUp, ShowFound, ShowTried, ShowUpserted,
           EpisodeLookedUp, EpisodeFound, EpisodeTried, EpisodeUpserted, ShowBound,
           EpisodeAdded, EpisodeChanged, EpisodeBound, storeVars
<1> QED
  BY <1>1, <1>3, <1>4, <1>5, Effects

(* A published show goes back to draft only by a PATCH that read it before  *)
(* it was published: no import and no other request takes a show down.      *)
THEOREM OnlyStalePatchesUnpublish == Spec => UnpublishedOnlyByStalePatch
<1>1. StatusTyped /\ [Next]_vars => [OnlyByPatch]_vars
  BY NextOnlyByPatch
<1>2. UnpublishedOnlyByStalePatch <=> [][OnlyByPatch]_vars
  BY DEF UnpublishedOnlyByStalePatch, OnlyByPatch, TakenDownBy
<1> QED
  BY <1>1, <1>2, StatusInductive, PTL DEF Spec
===============================================================================
