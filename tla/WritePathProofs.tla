--------------------------- MODULE WritePathProofs ---------------------------
(***************************************************************************)
(* Proofs about WritePath, for any sets of rows, requests, runs, documents:*)
(* first the types, then why no write of an old copy is refused: rows keep *)
(* their keys, so a copy that is late still names its row and clashes with *)
(* no other.                                                               *)
(***************************************************************************)
EXTENDS WritePath, TLAPS

RunsTyped ==
    /\ imp \in [Runs -> ImportRun]
    /\ \A r \in Runs : RunShape(imp[r])

TypeInv == TypeOK /\ RunsTyped

LEMMA InitType == Init => TypeInv
<1> SUFFICES ASSUME Init PROVE TypeInv
  OBVIOUS
<1>1. StoreTypeOK
  BY DEF Init, StoreInit, StoreTypeOK
<1>2. CMSTypeOK
  BY DEF Init, CMSInit, CMSTypeOK, IdleReq, Codes
<1>3. RunsTyped
  BY DEF Init, IngestionInit, ImportRun, RunPcs, RunsTyped, RunShape, ShowPcs, EpisodePcs
<1> QED
  BY <1>1, <1>2, <1>3 DEF TypeInv, TypeOK, RunsTyped

----------------------------------------------------------------------------
(* Requests.                                                               *)

LEMMA ReplyType ==
    ASSUME CMSTypeOK, NEW s \in Sessions, NEW op \in Ops,
           NEW id \in ShowIds \cup EpisodeIds \cup {None}, NEW code \in Codes,
           Reply(s, op, id, code)
    PROVE  CMSTypeOK'
BY DEF Reply, CMSTypeOK, IdleReq

LEMMA AnswerTypes ==
    ASSUME NEW caller, NEW result \in Codes
    PROVE  Answers(caller, result) \subseteq Codes
BY DEF Answers, Codes

LEMMA ResultTypes ==
    /\ \A i, row : CreateShowResult(i, row) \in Codes /\ UpdateShowResult(i, row) \in Codes
    /\ \A e, row : /\ CreateEpisodeResult(e, row) \in Codes
                   /\ UpdateEpisodeResult(e, row) \in Codes
    /\ \A refs, key : CreateRefResult(refs, key) \in Codes
BY DEF CreateShowResult, UpdateShowResult, CreateEpisodeResult, UpdateEpisodeResult,
       CreateRefResult, Codes

LEMMA PutTypes ==
    ASSUME StoreTypeOK
    PROVE  /\ \A i \in ShowIds, row \in ShowRow : \A result :
                 PutShow(i, row, result) => shows' \in [ShowIds -> ShowRow \cup {None}]
           /\ \A e \in EpisodeIds, row \in EpisodeRow : \A result :
                 PutEpisode(e, row, result)
                    => episodes' \in [EpisodeIds -> EpisodeRow \cup {None}]
BY DEF PutShow, PutEpisode, StoreTypeOK

LEMMA SessionType ==
    ASSUME TypeInv, NEW s \in Sessions, SessionStep(s)
    PROVE  TypeInv'
<1> USE DEF Codes, Ops
<1>1. StoreTypeOK /\ CMSTypeOK /\ RunsTyped
  BY DEF TypeInv, TypeOK
<1>2. imp' = imp
  BY DEF SessionStep
<1>3. RunsTyped'
  BY <1>1, <1>2 DEF RunsTyped
<1>4. StoreTypeOK' /\ CMSTypeOK'
  <2>0. CASE UNCHANGED storeVars /\ CMSTypeOK'
    BY <1>1, <2>0 DEF StoreTypeOK, storeVars
  <2>1. CASE CreateShow(s)
    <3>1. PICK i \in ShowIds, slug \in Slugs, title \in Titles, lang \in Langs :
             LET row == [slug |-> slug, title |-> title, lang |-> lang,
                         status |-> "draft", createdBy |-> s]
                 result == CreateShowResult(i, row)
             IN  /\ PutShow(i, row, result)
                 /\ \E code \in Answers(s, result) : Reply(s, "createShow", i, code)
      BY <2>1 DEF CreateShow
    <3> DEFINE row == [slug |-> slug, title |-> title, lang |-> lang,
                       status |-> "draft", createdBy |-> s]
    <3>2. row \in ShowRow
      BY DEF ShowRow, Status
    <3>3. PICK code \in Codes : Reply(s, "createShow", i, code)
      BY <3>1, AnswerTypes, ResultTypes
    <3>4. CMSTypeOK'
      BY <3>3, <1>1, ReplyType
    <3>5. shows' \in [ShowIds -> ShowRow \cup {None}]
      BY <3>1, <3>2, <1>1, PutTypes
    <3> QED
      BY <3>4, <3>5, <1>1, <2>1 DEF CreateShow, StoreTypeOK
  <2>2. CASE ReadForUpdateShow(s)
    <3>1. PICK i \in ShowIds :
          \/ Reply(s, "updateShow", i, "notfound")
          \/ /\ shows[i] # None
             /\ \E title \in Titles \cup {None}, lang \in Langs \cup {None} :
                   Call(s, "writeShow", "updateShow", i, Patched(shows[i], title, lang))
      BY <2>2 DEF ReadForUpdateShow
    <3>2. CASE Reply(s, "updateShow", i, "notfound")
      BY <3>2, <1>1, <2>2, <2>0, ReplyType DEF ReadForUpdateShow
    <3>3. ASSUME shows[i] # None, NEW title \in Titles \cup {None},
                 NEW lang \in Langs \cup {None},
                 Call(s, "writeShow", "updateShow", i, Patched(shows[i], title, lang))
          PROVE  CMSTypeOK'
      <4>1. Patched(shows[i], title, lang) \in ShowRow
        BY <1>1, <3>3 DEF Patched, ShowRow, StoreTypeOK
      <4> QED
        BY <4>1, <3>3, <1>1 DEF Call, CMSTypeOK, ShowWrite
    <3> QED
      BY <3>1, <3>2, <3>3, <2>0, <2>2 DEF ReadForUpdateShow
  <2>3. CASE ReadForPublishShow(s)
    <3>1. PICK i \in ShowIds :
          \/ Reply(s, "publishShow", i, "notfound")
          \/ /\ shows[i] # None
             /\ Call(s, "writeShow", "publishShow", i,
                     [shows[i] EXCEPT !.status = "published"])
      BY <2>3 DEF ReadForPublishShow
    <3>2. CASE Reply(s, "publishShow", i, "notfound")
      BY <3>2, <1>1, <2>3, <2>0, ReplyType DEF ReadForPublishShow
    <3>3. CASE /\ shows[i] # None
               /\ Call(s, "writeShow", "publishShow", i,
                     [shows[i] EXCEPT !.status = "published"])
      <4>1. [shows[i] EXCEPT !.status = "published"] \in ShowRow
        BY <1>1, <3>3 DEF ShowRow, StoreTypeOK, Status
      <4> QED
        BY <4>1, <3>3, <1>1, <2>0, <2>3 DEF Call, CMSTypeOK, ShowWrite, ReadForPublishShow
    <3> QED
      BY <3>1, <3>2, <3>3
  <2>4. CASE WriteShow(s)
    <3>1. req[s] \in ShowWrite
      BY <2>4, <1>1 DEF WriteShow, CMSTypeOK, IdleReq, ShowWrite, EpisodeInsert, EpisodeWrite
    <3> DEFINE result == UpdateShowResult(req[s].id, req[s].copy)
    <3>2. PICK code \in Codes : Reply(s, req[s].op, req[s].id, code)
      BY <2>4, AnswerTypes, ResultTypes DEF WriteShow
    <3>3. req[s].id \in ShowIds /\ req[s].copy \in ShowRow /\ req[s].op \in Ops
      BY <3>1 DEF ShowWrite
    <3>4. CMSTypeOK'
      BY <3>2, <3>3, <1>1, ReplyType
    <3>5. shows' \in [ShowIds -> ShowRow \cup {None}]
      BY <3>3, <1>1, <2>4, PutTypes DEF WriteShow
    <3> QED
      BY <3>4, <3>5, <1>1, <2>4 DEF WriteShow, StoreTypeOK
  <2>5. CASE CheckShowForEpisode(s)
    <3>1. PICK i \in ShowIds :
          \/ Reply(s, "createEpisode", i, "notfound")
          \/ \E slug \in Slugs, number \in Numbers, title \in Titles :
                   Call(s, "insertEpisode", "createEpisode", None,
                        [show |-> i, slug |-> slug, number |-> number,
                         title |-> title, status |-> "draft",
                         publishedAt |-> "null", createdBy |-> s])
      BY <2>5 DEF CheckShowForEpisode
    <3>2. CASE Reply(s, "createEpisode", i, "notfound")
      BY <3>2, <1>1, <2>5, <2>0, ReplyType DEF CheckShowForEpisode
    <3>3. ASSUME NEW slug \in Slugs, NEW number \in Numbers, NEW title \in Titles,
                 Call(s, "insertEpisode", "createEpisode", None,
                        [show |-> i, slug |-> slug, number |-> number,
                         title |-> title, status |-> "draft",
                         publishedAt |-> "null", createdBy |-> s])
          PROVE  CMSTypeOK'
      BY <3>3, <1>1 DEF Call, CMSTypeOK, EpisodeInsert, EpisodeRow, Status, PublishDates
    <3> QED
      BY <3>1, <3>2, <3>3, <2>0, <2>5 DEF CheckShowForEpisode
  <2>6. CASE InsertEpisode(s)
    <3>1. req[s] \in EpisodeInsert
      BY <2>6, <1>1 DEF InsertEpisode, CMSTypeOK, IdleReq, ShowWrite, EpisodeInsert, EpisodeWrite
    <3>2. PICK e \in EpisodeIds :
             /\ PutEpisode(e, req[s].copy, CreateEpisodeResult(e, req[s].copy))
             /\ \E code \in Answers(s, CreateEpisodeResult(e, req[s].copy)) :
                   Reply(s, "createEpisode", e, code)
      BY <2>6 DEF InsertEpisode
    <3>3. PICK code \in Codes : Reply(s, "createEpisode", e, code)
      BY <3>2, AnswerTypes, ResultTypes
    <3>4. CMSTypeOK'
      BY <3>3, <1>1, ReplyType
    <3>5. episodes' \in [EpisodeIds -> EpisodeRow \cup {None}]
      BY <3>1, <3>2, <1>1, PutTypes DEF EpisodeInsert
    <3> QED
      BY <3>4, <3>5, <1>1, <2>6 DEF InsertEpisode, StoreTypeOK
  <2>7. CASE ReadForPublishEpisode(s)
    <3>1. PICK e \in EpisodeIds :
          \/ Reply(s, "publishEpisode", e, "notfound")
          \/ /\ episodes[e] # None
             /\ Call(s, "writeEpisode", "publishEpisode", e,
                     [episodes[e] EXCEPT !.status = "published",
                                         !.publishedAt = "cms"])
      BY <2>7 DEF ReadForPublishEpisode
    <3>2. CASE Reply(s, "publishEpisode", e, "notfound")
      BY <3>2, <1>1, <2>7, <2>0, ReplyType DEF ReadForPublishEpisode
    <3>3. CASE /\ episodes[e] # None
               /\ Call(s, "writeEpisode", "publishEpisode", e,
                     [episodes[e] EXCEPT !.status = "published",
                                         !.publishedAt = "cms"])
      <4>1. [episodes[e] EXCEPT !.status = "published", !.publishedAt = "cms"] \in EpisodeRow
        BY <1>1, <3>3 DEF EpisodeRow, StoreTypeOK, Status, PublishDates
      <4> QED
        BY <4>1, <3>3, <1>1, <2>0, <2>7
           DEF Call, CMSTypeOK, EpisodeWrite, ReadForPublishEpisode
    <3> QED
      BY <3>1, <3>2, <3>3
  <2>8. CASE WriteEpisode(s)
    <3>1. req[s] \in EpisodeWrite
      BY <2>8, <1>1 DEF WriteEpisode, CMSTypeOK, IdleReq, ShowWrite, EpisodeInsert, EpisodeWrite
    <3>2. PICK code \in Codes : Reply(s, req[s].op, req[s].id, code)
      BY <2>8, AnswerTypes, ResultTypes DEF WriteEpisode
    <3>3. req[s].id \in EpisodeIds /\ req[s].copy \in EpisodeRow /\ req[s].op \in Ops
      BY <3>1 DEF EpisodeWrite
    <3>4. CMSTypeOK'
      BY <3>2, <3>3, <1>1, ReplyType
    <3>5. episodes' \in [EpisodeIds -> EpisodeRow \cup {None}]
      BY <3>3, <1>1, <2>8, PutTypes DEF WriteEpisode
    <3> QED
      BY <3>4, <3>5, <1>1, <2>8 DEF WriteEpisode, StoreTypeOK
  <2>9. CASE RequestFails(s)
    <3>1. PICK op \in (IF Idle(s) THEN Ops ELSE {req[s].op}) : Reply(s, op, None, "error")
      BY <2>9 DEF RequestFails
    <3>2. op \in Ops
      BY <1>1 DEF CMSTypeOK, Idle, IdleReq, ShowWrite, EpisodeInsert, EpisodeWrite
    <3> QED
      BY <3>1, <3>2, <1>1, <2>9, <2>0, ReplyType DEF RequestFails
  <2> QED
    BY <2>1, <2>2, <2>3, <2>4, <2>5, <2>6, <2>7, <2>8, <2>9 DEF SessionStep, CMSStep
<1> QED
  BY <1>3, <1>4 DEF TypeInv, TypeOK, RunsTyped

----------------------------------------------------------------------------
(* Import runs: first what an update of one run's locals keeps.            *)

LEMMA StopShape ==
    ASSUME NEW run \in ImportRun, RunShape(run), NEW code \in Codes \ {"ok"},
           code = "conflict" => run.pc \in ShowPcs \cup EpisodePcs
    PROVE  LET new == [run EXCEPT !.pc = After(code, "done"), !.copy = None]
           IN  new \in ImportRun /\ RunShape(new)
<1>1. \/ After(code, "done") = "failed"
      \/ After(code, "done") = "conflict" /\ code = "conflict"
  BY DEF After
<1>2. After(code, "done") \in RunPcs
  BY <1>1 DEF RunPcs, Stopped
<1> DEFINE pc == After(code, "done")
<1> HIDE DEF pc
<1>3. [run EXCEPT !.pc = pc, !.copy = None] \in ImportRun
  BY <1>2 DEF ImportRun, pc
<1>4. RunShape([run EXCEPT !.pc = pc, !.copy = None])
  BY <1>1 DEF RunShape, ImportRun, ShowPcs, EpisodePcs, pc
<1> QED
  BY <1>3, <1>4 DEF pc

LEMMA FetchShape ==
    ASSUME NEW run \in ImportRun, run.next = 1, NEW src \in Sources, NEW data \in ImportedShow
    PROVE  LET new == [run EXCEPT !.pc = "findShow", !.src = src, !.data = data]
           IN  new \in ImportRun /\ RunShape(new)
BY DEF ImportRun, RunPcs, RunShape, ShowPcs, EpisodePcs

LEMMA OwnerShape ==
    ASSUME NEW run \in ImportRun, RunShape(run),
           NEW pc \in RunPcs, NEW owner \in ShowIds \cup EpisodeIds \cup {None},
           \/ run.pc \in ShowPcs /\ pc \in {"conflict", "failed", "insertShow"}
           \/ run.pc \in ShowPcs /\ pc \in {"getShow", "refShow"} /\ owner \in ShowIds
           \/ run.pc \in EpisodePcs /\ pc \in {"conflict", "failed", "insertEpisode"}
           \/ run.pc \in EpisodePcs /\ pc \in {"getEpisode", "refEpisode"} /\ owner \in EpisodeIds
    PROVE  LET new == [run EXCEPT !.pc = pc, !.owner = owner]
           IN  new \in ImportRun /\ RunShape(new)
BY DEF ImportRun, RunShape, ShowPcs, EpisodePcs

LEMMA CopyShape ==
    ASSUME NEW run \in ImportRun, RunShape(run), NEW copy \in ShowRow \cup EpisodeRow,
           NEW pc \in RunPcs,
           \/ run.pc = "getShow" /\ pc = "updateShow" /\ copy \in ShowRow
           \/ run.pc = "getEpisode" /\ pc = "updateEpisode" /\ copy \in EpisodeRow
    PROVE  LET new == [run EXCEPT !.pc = pc, !.copy = copy]
           IN  new \in ImportRun /\ RunShape(new)
BY DEF ImportRun, RunShape, ShowPcs, EpisodePcs

LEMMA ShowDoneShape ==
    ASSUME NEW run \in ImportRun, RunShape(run), run.pc \in ShowPcs, run.owner \in ShowIds,
           NEW created \in SUBSET ({"show", "episode"} \X ExtIds),
           NEW pc \in {"done", "findEpisode"},
           pc = "findEpisode" => 1 \in 1..Len(run.data.episodes)
    PROVE  LET new == [run EXCEPT !.pc = pc, !.show = run.owner,
                                  !.copy = None, !.created = created]
           IN  new \in ImportRun /\ RunShape(new)
BY DEF ImportRun, RunPcs, Stopped, RunShape, ShowPcs, EpisodePcs

LEMMA ItemDoneShape ==
    ASSUME NEW run \in ImportRun, RunShape(run), run.pc \in EpisodePcs,
           NEW created \in SUBSET ({"show", "episode"} \X ExtIds),
           NEW next \in Nat, NEW pc \in {"done", "findEpisode"},
           pc = "findEpisode" => next \in 1..Len(run.data.episodes)
    PROVE  LET new == [run EXCEPT !.pc = pc, !.next = next,
                                  !.copy = None, !.created = created]
           IN  new \in ImportRun /\ RunShape(new)
BY DEF ImportRun, RunPcs, Stopped, RunShape, ShowPcs, EpisodePcs

LEMMA BecomeType ==
    ASSUME RunsTyped, NEW r \in Runs, NEW new \in ImportRun, RunShape(new), Become(r, new)
    PROVE  RunsTyped'
BY DEF Become, RunsTyped

(* Then the steps that several actions share.                              *)

LEMMA StopType ==
    ASSUME RunsTyped, NEW r \in Runs, NEW code \in Codes \ {"ok"}, Stop(r, code),
           code = "conflict" => imp[r].pc \in ShowPcs \cup EpisodePcs
    PROVE  RunsTyped'
<1>1. imp[r] \in ImportRun /\ RunShape(imp[r])
  BY DEF RunsTyped
<1> QED
  BY <1>1, StopShape, BecomeType DEF Stop

LEMMA DoneType ==
    ASSUME RunsTyped, NEW r \in Runs,
           NEW new \in SUBSET ({"show", "episode"} \X ExtIds),
           \/ imp[r].pc \in {"updateShow", "refShow"} /\ ShowDone(r, new)
           \/ imp[r].pc \in {"updateEpisode", "refEpisode"} /\ ItemDone(r, new)
    PROVE  RunsTyped'
<1>1. imp[r] \in ImportRun /\ RunShape(imp[r])
  BY DEF RunsTyped
<1>2. imp[r].data \in ImportedShow
  BY <1>1 DEF RunShape, ShowPcs, EpisodePcs
<1>3. Len(imp[r].data.episodes) \in Nat
  BY <1>2 DEF ImportedShow
<1>4. \A n \in Nat : n > 0 =>
         /\ LoopPc(r, n) \in {"done", "findEpisode"}
         /\ LoopPc(r, n) = "findEpisode" => n \in 1..Len(imp[r].data.episodes)
  BY <1>3 DEF LoopPc
<1>5. CASE imp[r].pc \in {"updateShow", "refShow"} /\ ShowDone(r, new)
  <2>1. imp[r].owner \in ShowIds /\ imp[r].pc \in ShowPcs
    BY <1>1, <1>5 DEF RunShape, ShowPcs
  <2>2. [imp[r] EXCEPT !.pc = LoopPc(r, 1), !.show = imp[r].owner,
                       !.copy = None, !.created = new] \in ImportRun
        /\ RunShape([imp[r] EXCEPT !.pc = LoopPc(r, 1), !.show = imp[r].owner,
                       !.copy = None, !.created = new])
    <3>1. /\ LoopPc(r, 1) \in {"done", "findEpisode"}
          /\ LoopPc(r, 1) = "findEpisode" => 1 \in 1..Len(imp[r].data.episodes)
      BY <1>4
    <3> QED
      BY <1>1, <2>1, <3>1, ShowDoneShape
  <2> QED
    BY <1>5, <2>2, BecomeType DEF ShowDone
<1>6. CASE imp[r].pc \in {"updateEpisode", "refEpisode"} /\ ItemDone(r, new)
  <2>1. imp[r].next \in Nat /\ imp[r].pc \in EpisodePcs
    BY <1>1, <1>6 DEF EpisodePcs, ImportRun
  <2>2. imp[r].next + 1 \in Nat /\ imp[r].next + 1 > 0
    BY <2>1
  <2> DEFINE next == imp[r].next + 1
             created == imp[r].created \cup new
  <2>3. created \in SUBSET ({"show", "episode"} \X ExtIds)
    BY <1>1 DEF ImportRun
  <2>4. [imp[r] EXCEPT !.pc = LoopPc(r, next), !.next = next,
                       !.copy = None, !.created = created] \in ImportRun
        /\ RunShape([imp[r] EXCEPT !.pc = LoopPc(r, next), !.next = next,
                       !.copy = None, !.created = created])
    <3> HIDE DEF next, created
    <3> QED
      BY <1>1, <1>4, <2>1, <2>2, <2>3, ItemDoneShape DEF next
  <2> QED
    BY <1>6, <2>4, BecomeType DEF ItemDone
<1> QED
  BY <1>5, <1>6

(* The item at hand is an episode of the document.                         *)
LEMMA ItemType ==
    ASSUME NEW r \in Runs, imp[r].data \in ImportedShow,
           imp[r].next \in 1..Len(imp[r].data.episodes)
    PROVE  Item(r) \in ImportedEpisode
<1>1. imp[r].data.episodes \in Seq(ImportedEpisode)
  BY DEF ImportedShow
<1> QED
  BY <1>1 DEF Item

LEMMA NewRowTypes ==
    ASSUME RunsTyped, NEW r \in Runs
    PROVE  /\ imp[r].pc = "insertShow" => NewShowOf(r) \in ShowRow
           /\ imp[r].pc = "insertEpisode" => NewEpisodeOf(r) \in EpisodeRow
<1>1. RunShape(imp[r])
  BY DEF RunsTyped
<1>2. ASSUME imp[r].pc = "insertShow" PROVE NewShowOf(r) \in ShowRow
  BY <1>1, <1>2, NamesAssumption
     DEF RunShape, NewShowOf, ShowRow, ImportedShow, Status, ShowPcs
<1>3. ASSUME imp[r].pc = "insertEpisode" PROVE NewEpisodeOf(r) \in EpisodeRow
  <2>1. Item(r) \in ImportedEpisode /\ imp[r].show \in ShowIds
    BY <1>1, <1>3, ItemType DEF EpisodePcs, RunShape
  <2> QED
    BY <2>1 DEF NewEpisodeOf, EpisodeRow, ImportedEpisode, Status, PublishDates
<1> QED
  BY <1>2, <1>3

LEMMA RunType ==
    ASSUME TypeInv, NEW r \in Runs, RunStep(r)
    PROVE  TypeInv'
<1>1. StoreTypeOK /\ CMSTypeOK /\ RunsTyped
  BY DEF TypeInv, TypeOK
<1>2. imp[r] \in ImportRun /\ RunShape(imp[r])
  BY <1>1 DEF RunsTyped
<1>3. CMSTypeOK'
  BY <1>1 DEF RunStep, CMSTypeOK
<1>4. SUFFICES StoreTypeOK' /\ RunsTyped'
  BY <1>3 DEF TypeInv, TypeOK, RunsTyped
<1>5. ASSUME UNCHANGED storeVars PROVE StoreTypeOK'
  BY <1>1, <1>5 DEF StoreTypeOK, storeVars
<1>6. CASE Fetch(r)
  <2>1. CASE Stop(r, "error")
    BY <1>1, <1>5, <1>6, <2>1, StopType DEF Fetch, ImportFails, Codes
  <2>2. ASSUME NEW d \in Documents,
               Become(r, [imp[r] EXCEPT !.pc = "findShow", !.src = d.source,
                                        !.data = ImportOf(d)])
        PROVE  RunsTyped'
    <3>1. d.source \in Sources /\ ImportOf(d) \in ImportedShow
      BY DocumentAssumption
    <3>2. imp[r].next = 1
      BY <1>2, <1>6 DEF Fetch, ImportFails, RunShape
    <3> QED
      BY <1>1, <1>2, <2>2, <3>1, <3>2, FetchShape, BecomeType
  <2> QED
    BY <1>5, <1>6, <2>1, <2>2 DEF Fetch, ImportFails
<1>7. CASE FindShowOwner(r)
  <2>1. imp[r].data \in ImportedShow /\ imp[r].src \in Sources
    BY <1>2, <1>7 DEF FindShowOwner, RunShape, ShowPcs
  <2>2. ShowKey(r) \in Sources \X ExtIds
    BY <2>1 DEF ShowKey, ImportedShow
  <2> DEFINE found == showRefs[ShowKey(r)]
             pc == IF found = None THEN "insertShow" ELSE "getShow"
  <2>3. found \in ShowIds \cup {None}
    BY <1>1, <2>2 DEF StoreTypeOK
  <2>4. pc \in RunPcs /\ (pc = "insertShow" \/ (pc = "getShow" /\ found \in ShowIds))
    BY <2>3 DEF RunPcs
  <2>5. Become(r, [imp[r] EXCEPT !.pc = pc, !.owner = found])
    BY <1>7 DEF FindShowOwner
  <2>6. imp[r].pc \in ShowPcs
    BY <1>7 DEF FindShowOwner, ShowPcs
  <2>7. RunsTyped'
    <3> HIDE DEF found, pc
    <3> QED
      BY <1>1, <1>2, <2>3, <2>4, <2>5, <2>6, OwnerShape, BecomeType
  <2> QED
    BY <1>5, <1>7, <2>7 DEF FindShowOwner
<1>8. CASE GetShow(r)
  <2>1. CASE shows[imp[r].owner] = None
    BY <1>1, <1>5, <1>8, <2>1, StopType DEF GetShow, Codes
  <2>2. CASE shows[imp[r].owner] # None
    <3>1. imp[r].data \in ImportedShow /\ imp[r].owner \in ShowIds
      BY <1>2, <1>8 DEF GetShow, RunShape, ShowPcs
    <3> DEFINE copy == RefreshedShow(r, shows[imp[r].owner])
    <3>2. copy \in ShowRow
      BY <1>1, <2>2, <3>1 DEF RefreshedShow, ShowRow, StoreTypeOK, ImportedShow
    <3>3. Become(r, [imp[r] EXCEPT !.pc = "updateShow", !.copy = copy])
      BY <1>8, <2>2 DEF GetShow
    <3>4. RunsTyped'
      <4> HIDE DEF copy
      <4>1. "updateShow" \in RunPcs /\ imp[r].pc = "getShow"
        BY <1>8 DEF RunPcs, GetShow
      <4> QED
        BY <1>1, <1>2, <3>2, <3>3, <4>1, CopyShape, BecomeType
    <3> QED
      BY <1>5, <1>8, <3>4 DEF GetShow
  <2> QED
    BY <2>1, <2>2
<1>9. CASE UpdateShow(r)
  <2>1. imp[r].owner \in ShowIds /\ imp[r].copy \in ShowRow
    BY <1>2, <1>9 DEF UpdateShow, RunShape
  <2>2. StoreTypeOK'
    BY <1>1, <1>9, <2>1, PutTypes DEF UpdateShow, StoreTypeOK
  <2>3. PICK code \in Codes : IF code = "ok" THEN ShowDone(r, {}) ELSE Stop(r, code)
    BY <1>9, AnswerTypes, ResultTypes DEF UpdateShow
  <2> QED
    BY <1>1, <1>9, <2>2, <2>3, StopType, DoneType DEF UpdateShow, ShowPcs
<1>10. CASE AddShow(r)
  <2>1. PICK i \in ShowIds, code \in Codes :
           /\ PutShow(i, NewShowOf(r), CreateShowResult(i, NewShowOf(r)))
           /\ Become(r, [imp[r] EXCEPT !.pc = After(code, "refShow"), !.owner = i])
    BY <1>10, AnswerTypes, ResultTypes DEF AddShow
  <2>2. StoreTypeOK'
    BY <1>1, <1>10, <2>1, NewRowTypes, PutTypes DEF AddShow, StoreTypeOK
  <2>3. After(code, "refShow") \in RunPcs \cap {"conflict", "failed", "refShow"}
    BY DEF After, RunPcs, Stopped
  <2>4. imp[r].pc \in ShowPcs
    BY <1>10 DEF AddShow, ShowPcs
  <2>5. RunsTyped'
    BY <1>1, <1>2, <2>1, <2>3, <2>4, OwnerShape, BecomeType
  <2> QED
    BY <2>2, <2>5
<1>11. CASE RefShow(r)
  <2>1. imp[r].owner \in ShowIds /\ imp[r].data \in ImportedShow /\ imp[r].src \in Sources
    BY <1>2, <1>11 DEF RefShow, RunShape, ShowPcs
  <2>2. StoreTypeOK'
    BY <1>1, <1>11, <2>1 DEF RefShow, StoreTypeOK, WithRef, ShowKey, ImportedShow
  <2>3. PICK code \in Codes : IF code = "ok" THEN ShowDone(r, {<<"show", imp[r].data.ext>>})
                                             ELSE Stop(r, code)
    BY <1>11, AnswerTypes, ResultTypes DEF RefShow
  <2>4. {<<"show", imp[r].data.ext>>} \in SUBSET ({"show", "episode"} \X ExtIds)
    BY <2>1 DEF ImportedShow
  <2> QED
    BY <1>1, <1>11, <2>2, <2>3, <2>4, StopType, DoneType DEF RefShow, ShowPcs
<1>12. CASE FindEpisodeOwner(r)
  <2>1. Item(r) \in ImportedEpisode /\ imp[r].src \in Sources /\ imp[r].pc \in EpisodePcs
    BY <1>2, <1>12, ItemType DEF FindEpisodeOwner, RunShape, EpisodePcs
  <2> DEFINE found == FoundEpisode(r)
             pc == IF found = None THEN "insertEpisode" ELSE "getEpisode"
  <2>2. found \in EpisodeIds \cup {None}
    BY <1>1, <2>1 DEF FoundEpisode, ItemKey, StoreTypeOK, ImportedEpisode
  <2>3. pc \in RunPcs /\ (pc = "insertEpisode" \/ (pc = "getEpisode" /\ found \in EpisodeIds))
    BY <2>2 DEF RunPcs
  <2>4. Become(r, [imp[r] EXCEPT !.pc = pc, !.owner = found])
    BY <1>12 DEF FindEpisodeOwner
  <2>5. RunsTyped'
    <3> HIDE DEF found, pc
    <3> QED
      BY <1>1, <1>2, <2>1, <2>2, <2>3, <2>4, OwnerShape, BecomeType
  <2> QED
    BY <1>5, <1>12, <2>5 DEF FindEpisodeOwner
<1>13. CASE GetEpisode(r)
  <2>1. CASE episodes[imp[r].owner] = None
    BY <1>1, <1>5, <1>13, <2>1, StopType DEF GetEpisode, Codes
  <2>2. CASE episodes[imp[r].owner] # None
    <3>1. Item(r) \in ImportedEpisode /\ imp[r].owner \in EpisodeIds
      BY <1>2, <1>13, ItemType DEF GetEpisode, RunShape, EpisodePcs
    <3> DEFINE copy == RefreshedEpisode(r, episodes[imp[r].owner])
    <3>2. copy \in EpisodeRow
      BY <1>1, <2>2, <3>1 DEF RefreshedEpisode, EpisodeRow, StoreTypeOK, ImportedEpisode
    <3>3. Become(r, [imp[r] EXCEPT !.pc = "updateEpisode", !.copy = copy])
      BY <1>13, <2>2 DEF GetEpisode
    <3>4. RunsTyped'
      <4> HIDE DEF copy
      <4>1. "updateEpisode" \in RunPcs /\ imp[r].pc = "getEpisode"
        BY <1>13 DEF RunPcs, GetEpisode
      <4> QED
        BY <1>1, <1>2, <3>2, <3>3, <4>1, CopyShape, BecomeType
    <3> QED
      BY <1>5, <1>13, <3>4 DEF GetEpisode
  <2> QED
    BY <2>1, <2>2
<1>14. CASE UpdateEpisode(r)
  <2>1. imp[r].owner \in EpisodeIds /\ imp[r].copy \in EpisodeRow
    BY <1>2, <1>14 DEF UpdateEpisode, RunShape
  <2>2. StoreTypeOK'
    BY <1>1, <1>14, <2>1, PutTypes DEF UpdateEpisode, StoreTypeOK
  <2>3. PICK code \in Codes : IF code = "ok" THEN ItemDone(r, {}) ELSE Stop(r, code)
    BY <1>14, AnswerTypes, ResultTypes DEF UpdateEpisode
  <2> QED
    BY <1>1, <1>14, <2>2, <2>3, StopType, DoneType DEF UpdateEpisode, EpisodePcs
<1>15. CASE AddEpisode(r)
  <2>1. PICK e \in EpisodeIds, code \in Codes :
           /\ PutEpisode(e, NewEpisodeOf(r), CreateEpisodeResult(e, NewEpisodeOf(r)))
           /\ Become(r, [imp[r] EXCEPT !.pc = After(code, "refEpisode"), !.owner = e])
    BY <1>15, AnswerTypes, ResultTypes DEF AddEpisode
  <2>2. StoreTypeOK'
    BY <1>1, <1>15, <2>1, NewRowTypes, PutTypes DEF AddEpisode, StoreTypeOK
  <2>3. After(code, "refEpisode") \in RunPcs \cap {"conflict", "failed", "refEpisode"}
    BY DEF After, RunPcs, Stopped
  <2>4. imp[r].pc \in EpisodePcs
    BY <1>15 DEF AddEpisode, EpisodePcs
  <2>5. RunsTyped'
    BY <1>1, <1>2, <2>1, <2>3, <2>4, OwnerShape, BecomeType
  <2> QED
    BY <2>2, <2>5
<1>16. CASE RefEpisode(r)
  <2>1. /\ imp[r].owner \in EpisodeIds /\ imp[r].src \in Sources
        /\ Item(r) \in ImportedEpisode
    BY <1>2, <1>16, ItemType DEF RefEpisode, RunShape, EpisodePcs
  <2>2. StoreTypeOK'
    BY <1>1, <1>16, <2>1 DEF RefEpisode, StoreTypeOK, WithRef, ItemKey, ImportedEpisode
  <2>3. PICK code \in Codes : IF code = "ok" THEN ItemDone(r, {<<"episode", Item(r).ext>>})
                                             ELSE Stop(r, code)
    BY <1>16, AnswerTypes, ResultTypes DEF RefEpisode
  <2>4. {<<"episode", Item(r).ext>>} \in SUBSET ({"show", "episode"} \X ExtIds)
    BY <2>1 DEF ImportedEpisode
  <2> QED
    BY <1>1, <1>16, <2>2, <2>3, <2>4, StopType, DoneType DEF RefEpisode, EpisodePcs
<1>17. CASE CallFails(r)
  BY <1>1, <1>5, <1>17, StopType DEF CallFails, Codes
<1> QED
  BY <1>6, <1>7, <1>8, <1>9, <1>10, <1>11, <1>12, <1>13, <1>14, <1>15, <1>16, <1>17
     DEF RunStep, ImportStep, UpsertShow, UpsertEpisode

----------------------------------------------------------------------------
LEMMA NextType == TypeInv /\ [Next]_vars => TypeInv'
<1> SUFFICES ASSUME TypeInv, [Next]_vars PROVE TypeInv'
  OBVIOUS
<1>1. CASE UNCHANGED vars
  BY <1>1 DEF TypeInv, TypeOK, StoreTypeOK, CMSTypeOK, RunsTyped, vars
<1>2. CASE Next
  BY <1>2, SessionType, RunType DEF Next
<1> QED
  BY <1>1, <1>2

(* Type correctness: at every point of every request and run the tables    *)
(* and the locals hold values of their types, for any constants.           *)
THEOREM TypeCorrect == Spec => []TypeOK
<1>1. TypeInv => TypeOK
  BY DEF TypeInv
<1> QED
  BY InitType, NextType, <1>1, PTL DEF Spec

----------------------------------------------------------------------------
(* The keys of rows, and the copies of rows.                               *)

KeysTyped == TypeInv /\ KeysInv

\* What a step does to the rows there are: it leaves them their keys.
RowsKept ==
    /\ \A i \in ShowIds : shows[i] # None =>
          shows'[i] # None /\ SameShow(shows'[i], shows[i])
    /\ \A e \in EpisodeIds : episodes[e] # None =>
          episodes'[e] # None /\ SameEpisode(episodes'[e], episodes[e])

KeysKept == RowsKept /\ CatalogConstraints'

LEMMA TablesKept ==
    ASSUME StoreTypeOK, CatalogConstraints, shows' = shows, episodes' = episodes
    PROVE  KeysKept
BY DEF KeysKept, RowsKept, CatalogConstraints, ShowsUnique, EpisodesUnique,
       EpisodesHaveShows, SameShow, SameEpisode, ShowClash, EpisodeClash

(* The four statements that write rows.                                    *)
LEMMA ShowInserted ==
    ASSUME StoreTypeOK, CatalogConstraints, NEW i \in ShowIds, NEW row \in ShowRow,
           shows[i] = None, PutShow(i, row, CreateShowResult(i, row)), episodes' = episodes
    PROVE  KeysKept
<1>0. row # None
  BY RowAssumption
<1>1. CASE ShowClash(i, row)
  BY <1>1, TablesKept DEF PutShow, CreateShowResult
<1>2. CASE ~ShowClash(i, row)
  <2>1. shows' = [shows EXCEPT ![i] = row]
    BY <1>2 DEF PutShow, CreateShowResult
  <2>2. /\ shows'[i] = row
        /\ \A j \in ShowIds \ {i} : shows'[j] = shows[j]
    BY <2>1 DEF StoreTypeOK
  <2>3. RowsKept
    BY <2>2 DEF RowsKept, SameShow, SameEpisode
  <2>4. ShowsUnique'
    BY <1>2, <2>2 DEF ShowClash, CatalogConstraints, ShowsUnique
  <2>5. EpisodesUnique' /\ EpisodesHaveShows'
    <3>1. \A e \in EpisodeIds : episodes[e] # None => episodes[e].show \in ShowIds
      BY DEF StoreTypeOK, EpisodeRow
    <3> QED
      BY <1>0, <2>2, <3>1
         DEF EpisodeClash, CatalogConstraints, EpisodesUnique, EpisodesHaveShows
  <2> QED
    BY <2>3, <2>4, <2>5 DEF KeysKept, CatalogConstraints
<1> QED
  BY <1>1, <1>2

LEMMA ShowOverwritten ==
    ASSUME StoreTypeOK, CatalogConstraints, NEW i \in ShowIds, NEW row \in ShowRow,
           shows[i] # None, SameShow(row, shows[i]),
           PutShow(i, row, UpdateShowResult(i, row)), episodes' = episodes
    PROVE  KeysKept
<1>0. row # None
  BY RowAssumption
<1>1. CASE UpdateShowResult(i, row) # "ok"
  BY <1>1, TablesKept DEF PutShow
<1>2. CASE UpdateShowResult(i, row) = "ok"
  <2>1. shows' = [shows EXCEPT ![i] = row]
    BY <1>2 DEF PutShow
  <2>2. /\ shows'[i] = row
        /\ \A j \in ShowIds \ {i} : shows'[j] = shows[j]
    BY <2>1 DEF StoreTypeOK
  <2>3. RowsKept
    BY <1>0, <2>2 DEF RowsKept, SameShow, SameEpisode
  <2>4. ShowsUnique'
    BY <2>2 DEF ShowClash, CatalogConstraints, ShowsUnique, SameShow
  <2>5. EpisodesUnique' /\ EpisodesHaveShows'
    <3>1. \A e \in EpisodeIds : episodes[e] # None => episodes[e].show \in ShowIds
      BY DEF StoreTypeOK, EpisodeRow
    <3> QED
      BY <1>0, <2>2, <3>1
         DEF EpisodeClash, CatalogConstraints, EpisodesUnique, EpisodesHaveShows
  <2> QED
    BY <2>3, <2>4, <2>5 DEF KeysKept, CatalogConstraints
<1> QED
  BY <1>1, <1>2

LEMMA EpisodeInserted ==
    ASSUME StoreTypeOK, CatalogConstraints, NEW e \in EpisodeIds, NEW row \in EpisodeRow,
           episodes[e] = None, PutEpisode(e, row, CreateEpisodeResult(e, row)),
           shows' = shows
    PROVE  KeysKept
<1>0. row # None
  BY RowAssumption
<1>1. CASE CreateEpisodeResult(e, row) # "ok"
  BY <1>1, TablesKept DEF PutEpisode
<1>2. CASE CreateEpisodeResult(e, row) = "ok"
  <2>1. episodes' = [episodes EXCEPT ![e] = row]
    BY <1>2 DEF PutEpisode
  <2>2. /\ episodes'[e] = row
        /\ \A f \in EpisodeIds \ {e} : episodes'[f] = episodes[f]
    BY <2>1 DEF StoreTypeOK
  <2>3. ~EpisodeClash(e, row) /\ shows[row.show] # None
    BY <1>2 DEF CreateEpisodeResult
  <2>4. RowsKept
    BY <2>2 DEF RowsKept, SameShow, SameEpisode
  <2>5. ShowsUnique'
    BY DEF ShowClash, CatalogConstraints, ShowsUnique
  <2>6. EpisodesUnique' /\ EpisodesHaveShows'
    BY <2>2, <2>3
       DEF EpisodeClash, CatalogConstraints, EpisodesUnique, EpisodesHaveShows
  <2> QED
    BY <2>4, <2>5, <2>6 DEF KeysKept, CatalogConstraints
<1> QED
  BY <1>1, <1>2

LEMMA EpisodeOverwritten ==
    ASSUME StoreTypeOK, CatalogConstraints, NEW e \in EpisodeIds, NEW row \in EpisodeRow,
           episodes[e] # None, SameEpisode(row, episodes[e]),
           PutEpisode(e, row, UpdateEpisodeResult(e, row)), shows' = shows
    PROVE  KeysKept
<1>0. row # None
  BY RowAssumption
<1>1. CASE UpdateEpisodeResult(e, row) # "ok"
  BY <1>1, TablesKept DEF PutEpisode
<1>2. CASE UpdateEpisodeResult(e, row) = "ok"
  <2>1. episodes' = [episodes EXCEPT ![e] = row]
    BY <1>2 DEF PutEpisode
  <2>2. /\ episodes'[e] = row
        /\ \A f \in EpisodeIds \ {e} : episodes'[f] = episodes[f]
    BY <2>1 DEF StoreTypeOK
  <2>3. ~EpisodeClash(e, row) /\ shows[row.show] # None
    BY <1>2 DEF UpdateEpisodeResult, CreateEpisodeResult
  <2>4. RowsKept
    BY <1>0, <2>2 DEF RowsKept, SameShow, SameEpisode
  <2>5. ShowsUnique'
    BY DEF ShowClash, CatalogConstraints, ShowsUnique
  <2>6. EpisodesUnique' /\ EpisodesHaveShows'
    BY <2>2, <2>3
       DEF EpisodeClash, CatalogConstraints, EpisodesUnique, EpisodesHaveShows
  <2> QED
    BY <2>4, <2>5, <2>6 DEF KeysKept, CatalogConstraints
<1> QED
  BY <1>1, <1>2
----------------------------------------------------------------------------
(* The copies that requests and runs hold.  A step changes the one of its  *)
(* own request or run; the others still match rows that keep their keys.   *)

LEMMA RequestCopyType ==
    ASSUME CMSTypeOK, NEW s \in Sessions
    PROVE  /\ req[s].pc = "writeShow" => req[s].id \in ShowIds /\ req[s].copy \in ShowRow
           /\ req[s].pc = "writeEpisode" =>
                 req[s].id \in EpisodeIds /\ req[s].copy \in EpisodeRow
BY DEF CMSTypeOK, IdleReq, ShowWrite, EpisodeInsert, EpisodeWrite

LEMMA RunCopyType ==
    ASSUME RunsTyped, NEW r \in Runs
    PROVE  /\ imp[r].pc = "updateShow" => imp[r].owner \in ShowIds /\ imp[r].copy \in ShowRow
           /\ imp[r].pc = "updateEpisode" =>
                 imp[r].owner \in EpisodeIds /\ imp[r].copy \in EpisodeRow
BY DEF RunsTyped, RunShape

LEMMA OtherCopies ==
    ASSUME KeysTyped, RowsKept
    PROVE  /\ \A s \in Sessions : req'[s] = req[s] => RequestCopyKept(req[s])'
           /\ \A r \in Runs : imp'[r] = imp[r] => RunCopyKept(imp[r])'
<1>1. ASSUME NEW s \in Sessions, req'[s] = req[s] PROVE RequestCopyKept(req[s])'
  BY <1>1, RequestCopyType
     DEF KeysTyped, KeysInv, CopiesKeepKeys, RequestCopyKept, RowsKept, SameShow,
         SameEpisode, TypeInv, TypeOK
<1>2. ASSUME NEW r \in Runs, imp'[r] = imp[r] PROVE RunCopyKept(imp[r])'
  BY <1>2, RunCopyType
     DEF KeysTyped, KeysInv, CopiesKeepKeys, RunCopyKept, RowsKept, SameShow,
         SameEpisode, TypeInv, TypeOK
<1> QED
  BY <1>1, <1>2

LEMMA ReplyKeeps ==
    ASSUME KeysTyped, RowsKept, imp' = imp, NEW s \in Sessions,
           NEW op, NEW id, NEW code, Reply(s, op, id, code)
    PROVE  CopiesKeepKeys'
<1>1. req'[s].pc = "idle" /\ \A t \in Sessions \ {s} : req'[t] = req[t]
  BY DEF Reply, KeysTyped, TypeInv, TypeOK, CMSTypeOK
<1>2. RequestCopyKept(req[s])'
  BY <1>1 DEF RequestCopyKept
<1> QED
  BY <1>1, <1>2, OtherCopies DEF CopiesKeepKeys

LEMMA CallKeeps ==
    ASSUME KeysTyped, RowsKept, shows' = shows, episodes' = episodes, imp' = imp,
           NEW s \in Sessions, NEW pc, NEW op, NEW id, NEW copy, Call(s, pc, op, id, copy),
           pc = "writeShow" => shows[id] # None /\ SameShow(copy, shows[id]),
           pc = "writeEpisode" => episodes[id] # None /\ SameEpisode(copy, episodes[id])
    PROVE  CopiesKeepKeys'
<1>1. /\ req'[s] = [pc |-> pc, op |-> op, id |-> id, copy |-> copy]
      /\ \A t \in Sessions \ {s} : req'[t] = req[t]
  BY DEF Call, KeysTyped, TypeInv, TypeOK, CMSTypeOK
<1>2. RequestCopyKept(req[s])'
  BY <1>1 DEF RequestCopyKept
<1> QED
  BY <1>1, <1>2, OtherCopies DEF CopiesKeepKeys

LEMMA BecomeKeeps ==
    ASSUME KeysTyped, RowsKept, req' = req, NEW r \in Runs, NEW new, Become(r, new),
           new.pc \notin {"updateShow", "updateEpisode"}
    PROVE  CopiesKeepKeys'
<1>1. imp'[r] = new /\ \A q \in Runs \ {r} : imp'[q] = imp[q]
  BY DEF Become, KeysTyped, TypeInv, TypeOK
<1>2. RunCopyKept(imp[r])'
  BY <1>1 DEF RunCopyKept
<1> QED
  BY <1>1, <1>2, OtherCopies DEF CopiesKeepKeys

LEMMA SessionKeys ==
    ASSUME KeysTyped, NEW s \in Sessions, SessionStep(s)
    PROVE  KeysKept /\ CopiesKeepKeys'
<1>1. StoreTypeOK /\ CMSTypeOK /\ CatalogConstraints /\ imp' = imp
  BY DEF KeysTyped, KeysInv, TypeInv, TypeOK, SessionStep
<1>2. KeysKept => RowsKept
  BY DEF KeysKept
<1>3. ASSUME UNCHANGED storeVars PROVE KeysKept
  BY <1>1, <1>3, TablesKept DEF storeVars
<1>4. CASE CreateShow(s)
  <2>1. PICK i \in ShowIds, slug \in Slugs, title \in Titles, lang \in Langs :
           LET row == [slug |-> slug, title |-> title, lang |-> lang,
                       status |-> "draft", createdBy |-> s]
               result == CreateShowResult(i, row)
           IN  /\ shows[i] = None
               /\ PutShow(i, row, result)
               /\ \E code \in Answers(s, result) : Reply(s, "createShow", i, code)
    BY <1>4 DEF CreateShow
  <2> DEFINE row == [slug |-> slug, title |-> title, lang |-> lang,
                     status |-> "draft", createdBy |-> s]
  <2>2. row \in ShowRow
    BY DEF ShowRow, Status
  <2>3. KeysKept
    <3>1. shows[i] = None /\ PutShow(i, row, CreateShowResult(i, row)) /\ episodes' = episodes
      BY <1>4, <2>1 DEF CreateShow
    <3> HIDE DEF row
    <3> QED
      BY <1>1, <2>2, <3>1, ShowInserted
  <2> QED
    BY <1>1, <1>2, <2>1, <2>3, ReplyKeeps
<1>5. CASE ReadForUpdateShow(s)
  <2>1. KeysKept /\ shows' = shows /\ episodes' = episodes
    BY <1>3, <1>5 DEF ReadForUpdateShow, storeVars
  <2>2. ASSUME NEW i \in ShowIds, shows[i] # None, NEW title \in Titles \cup {None},
               NEW lang \in Langs \cup {None},
               Call(s, "writeShow", "updateShow", i, Patched(shows[i], title, lang))
        PROVE  CopiesKeepKeys'
    <3>1. SameShow(Patched(shows[i], title, lang), shows[i])
      <4>1. shows[i] \in ShowRow
        BY <1>1, <2>2 DEF StoreTypeOK
      <4> QED
        BY <4>1 DEF Patched, SameShow, ShowRow
    <3> QED
      BY <1>1, <1>2, <2>1, <2>2, <3>1, CallKeeps
  <2> QED
    BY <1>1, <1>2, <1>5, <2>1, <2>2, ReplyKeeps DEF ReadForUpdateShow
<1>6. CASE ReadForPublishShow(s)
  <2>1. KeysKept /\ shows' = shows /\ episodes' = episodes
    BY <1>3, <1>6 DEF ReadForPublishShow, storeVars
  <2>2. ASSUME NEW i \in ShowIds, shows[i] # None,
               Call(s, "writeShow", "publishShow", i,
                    [shows[i] EXCEPT !.status = "published"])
        PROVE  CopiesKeepKeys'
    <3>1. SameShow([shows[i] EXCEPT !.status = "published"], shows[i])
      BY <1>1, <2>2 DEF SameShow, ShowRow, StoreTypeOK
    <3> QED
      BY <1>1, <1>2, <2>1, <2>2, <3>1, CallKeeps
  <2> QED
    BY <1>1, <1>2, <1>6, <2>1, <2>2, ReplyKeeps DEF ReadForPublishShow
<1>7. CASE WriteShow(s)
  <2>1. /\ req[s].id \in ShowIds /\ req[s].copy \in ShowRow
        /\ shows[req[s].id] # None /\ SameShow(req[s].copy, shows[req[s].id])
    BY <1>1, <1>7, RequestCopyType
       DEF WriteShow, KeysTyped, KeysInv, CopiesKeepKeys, RequestCopyKept
  <2>2. KeysKept
    BY <1>1, <1>7, <2>1, ShowOverwritten DEF WriteShow
  <2> QED
    BY <1>1, <1>2, <1>7, <2>2, ReplyKeeps DEF WriteShow
<1>8. CASE CheckShowForEpisode(s)
  <2>1. KeysKept /\ shows' = shows /\ episodes' = episodes
    BY <1>3, <1>8 DEF CheckShowForEpisode, storeVars
  <2>2. ASSUME NEW row, Call(s, "insertEpisode", "createEpisode", None, row)
        PROVE  CopiesKeepKeys'
    BY <1>1, <1>2, <2>1, <2>2, CallKeeps
  <2> QED
    BY <1>1, <1>2, <1>8, <2>1, <2>2, ReplyKeeps DEF CheckShowForEpisode
<1>9. CASE InsertEpisode(s)
  <2>1. req[s].copy \in EpisodeRow
    BY <1>1, <1>9
       DEF InsertEpisode, CMSTypeOK, IdleReq, ShowWrite, EpisodeInsert, EpisodeWrite
  <2>2. PICK e \in EpisodeIds :
           /\ episodes[e] = None
           /\ PutEpisode(e, req[s].copy, CreateEpisodeResult(e, req[s].copy))
           /\ \E code \in Answers(s, CreateEpisodeResult(e, req[s].copy)) :
                 Reply(s, "createEpisode", e, code)
    BY <1>9 DEF InsertEpisode
  <2>3. KeysKept
    BY <1>1, <1>9, <2>1, <2>2, EpisodeInserted DEF InsertEpisode
  <2> QED
    BY <1>1, <1>2, <2>2, <2>3, ReplyKeeps
<1>10. CASE ReadForPublishEpisode(s)
  <2>1. KeysKept /\ shows' = shows /\ episodes' = episodes
    BY <1>3, <1>10 DEF ReadForPublishEpisode, storeVars
  <2>2. ASSUME NEW e \in EpisodeIds, episodes[e] # None,
               Call(s, "writeEpisode", "publishEpisode", e,
                    [episodes[e] EXCEPT !.status = "published", !.publishedAt = "cms"])
        PROVE  CopiesKeepKeys'
    <3>1. SameEpisode([episodes[e] EXCEPT !.status = "published", !.publishedAt = "cms"],
                      episodes[e])
      BY <1>1, <2>2 DEF SameEpisode, EpisodeRow, StoreTypeOK
    <3> QED
      BY <1>1, <1>2, <2>1, <2>2, <3>1, CallKeeps
  <2> QED
    BY <1>1, <1>2, <1>10, <2>1, <2>2, ReplyKeeps DEF ReadForPublishEpisode
<1>11. CASE WriteEpisode(s)
  <2>1. /\ req[s].id \in EpisodeIds /\ req[s].copy \in EpisodeRow
        /\ episodes[req[s].id] # None /\ SameEpisode(req[s].copy, episodes[req[s].id])
    BY <1>1, <1>11, RequestCopyType
       DEF WriteEpisode, KeysTyped, KeysInv, CopiesKeepKeys, RequestCopyKept
  <2>2. KeysKept
    BY <1>1, <1>11, <2>1, EpisodeOverwritten DEF WriteEpisode
  <2> QED
    BY <1>1, <1>2, <1>11, <2>2, ReplyKeeps DEF WriteEpisode
<1>12. CASE RequestFails(s)
  BY <1>1, <1>2, <1>3, <1>12, ReplyKeeps DEF RequestFails
<1> QED
  BY <1>4, <1>5, <1>6, <1>7, <1>8, <1>9, <1>10, <1>11, <1>12 DEF SessionStep, CMSStep
LEMMA GoesOn ==
    /\ \A code : After(code, "done") \notin {"updateShow", "updateEpisode"}
    /\ \A code : After(code, "refShow") \notin {"updateShow", "updateEpisode"}
    /\ \A code : After(code, "refEpisode") \notin {"updateShow", "updateEpisode"}
    /\ \A r, n : LoopPc(r, n) \notin {"updateShow", "updateEpisode"}
BY DEF After, LoopPc

LEMMA StepBack ==
    ASSUME KeysTyped, RowsKept, req' = req, NEW r \in Runs, NEW code, NEW new,
           Stop(r, code) \/ ShowDone(r, new) \/ ItemDone(r, new)
    PROVE  CopiesKeepKeys'
<1>1. imp[r] \in ImportRun
  BY DEF KeysTyped, TypeInv, RunsTyped
<1>2. CASE Stop(r, code)
  <2>1. [imp[r] EXCEPT !.pc = After(code, "done"), !.copy = None].pc = After(code, "done")
    BY <1>1 DEF ImportRun
  <2> QED
    BY <1>2, <2>1, GoesOn, BecomeKeeps DEF Stop
<1>3. CASE ShowDone(r, new)
  <2>1. [imp[r] EXCEPT !.pc = LoopPc(r, 1), !.show = imp[r].owner,
                       !.copy = None, !.created = new].pc = LoopPc(r, 1)
    BY <1>1 DEF ImportRun
  <2> QED
    BY <1>3, <2>1, GoesOn, BecomeKeeps DEF ShowDone
<1>4. CASE ItemDone(r, new)
  <2>1. [imp[r] EXCEPT !.pc = LoopPc(r, imp[r].next + 1), !.next = imp[r].next + 1,
                       !.copy = None, !.created = imp[r].created \cup new].pc
          = LoopPc(r, imp[r].next + 1)
    BY <1>1 DEF ImportRun
  <2> QED
    BY <1>4, <2>1, GoesOn, BecomeKeeps DEF ItemDone
<1> QED
  BY <1>2, <1>3, <1>4

LEMMA RunKeys ==
    ASSUME KeysTyped, NEW r \in Runs, RunStep(r)
    PROVE  KeysKept /\ CopiesKeepKeys'
<1>1. StoreTypeOK /\ RunsTyped /\ CatalogConstraints /\ req' = req
  BY DEF KeysTyped, KeysInv, TypeInv, TypeOK, RunStep
<1>2. imp[r] \in ImportRun /\ RunShape(imp[r])
  BY <1>1 DEF RunsTyped
<1>3. KeysKept => RowsKept
  BY DEF KeysKept
<1>4. ASSUME UNCHANGED storeVars PROVE KeysKept
  BY <1>1, <1>4, TablesKept DEF storeVars
<1>5. CASE Fetch(r)
  <2>1. ASSUME NEW d \in Documents,
               Become(r, [imp[r] EXCEPT !.pc = "findShow", !.src = d.source,
                                        !.data = ImportOf(d)])
        PROVE  CopiesKeepKeys'
    <3>1. [imp[r] EXCEPT !.pc = "findShow", !.src = d.source, !.data = ImportOf(d)].pc
            = "findShow"
      BY <1>2 DEF ImportRun
    <3> QED
      BY <1>1, <1>3, <1>4, <1>5, <2>1, <3>1, BecomeKeeps DEF Fetch, ImportFails
  <2> QED
    BY <1>1, <1>3, <1>4, <1>5, <2>1, StepBack DEF Fetch, ImportFails
<1>6. CASE FindShowOwner(r)
  <2> DEFINE found == showRefs[ShowKey(r)]
             pc == IF found = None THEN "insertShow" ELSE "getShow"
  <2>1. [imp[r] EXCEPT !.pc = pc, !.owner = found].pc = pc
    BY <1>2 DEF ImportRun
  <2>2. pc \notin {"updateShow", "updateEpisode"}
    OBVIOUS
  <2>3. Become(r, [imp[r] EXCEPT !.pc = pc, !.owner = found])
    BY <1>6 DEF FindShowOwner
  <2>4. KeysKept
    BY <1>4, <1>6 DEF FindShowOwner
  <2> HIDE DEF pc, found
  <2> QED
    BY <1>1, <1>3, <2>1, <2>2, <2>3, <2>4, BecomeKeeps
<1>7. CASE GetShow(r)
  <2>1. KeysKept /\ shows' = shows /\ episodes' = episodes
    BY <1>4, <1>7 DEF GetShow, storeVars
  <2>2. CASE shows[imp[r].owner] # None
    <3> DEFINE copy == RefreshedShow(r, shows[imp[r].owner])
               new == [imp[r] EXCEPT !.pc = "updateShow", !.copy = copy]
    <3>1. shows[imp[r].owner] \in ShowRow
      BY <1>1, <1>2, <1>7, <2>2 DEF GetShow, RunShape, StoreTypeOK
    <3>2. SameShow(copy, shows[imp[r].owner])
      BY <3>1 DEF RefreshedShow, SameShow, ShowRow
    <3>3. new.pc = "updateShow" /\ new.copy = copy /\ new.owner = imp[r].owner
      BY <1>2 DEF ImportRun
    <3>4. imp'[r] = new /\ \A q \in Runs \ {r} : imp'[q] = imp[q]
      BY <1>1, <1>7, <2>2 DEF GetShow, Become, RunsTyped
    <3>5. RunCopyKept(imp[r])'
      <4> HIDE DEF new, copy
      <4> QED
        BY <2>1, <2>2, <3>2, <3>3, <3>4 DEF RunCopyKept
    <3> QED
      BY <1>1, <1>3, <2>1, <3>4, <3>5, OtherCopies DEF CopiesKeepKeys
  <2> QED
    BY <1>1, <1>3, <1>7, <2>1, <2>2, StepBack DEF GetShow
<1>8. CASE UpdateShow(r)
  <2>1. /\ imp[r].owner \in ShowIds /\ imp[r].copy \in ShowRow
        /\ shows[imp[r].owner] # None /\ SameShow(imp[r].copy, shows[imp[r].owner])
    BY <1>1, <1>8, RunCopyType DEF UpdateShow, KeysTyped, KeysInv, CopiesKeepKeys, RunCopyKept
  <2>2. KeysKept
    BY <1>1, <1>8, <2>1, ShowOverwritten DEF UpdateShow
  <2> QED
    BY <1>1, <1>3, <1>8, <2>2, StepBack DEF UpdateShow
<1>9. CASE AddShow(r)
  <2>1. PICK i \in ShowIds : \E code :
           /\ shows[i] = None
           /\ PutShow(i, NewShowOf(r), CreateShowResult(i, NewShowOf(r)))
           /\ Become(r, [imp[r] EXCEPT !.pc = After(code, "refShow"), !.owner = i])
    BY <1>9 DEF AddShow
  <2>2. PICK code : Become(r, [imp[r] EXCEPT !.pc = After(code, "refShow"), !.owner = i])
    BY <2>1
  <2>3. KeysKept
    BY <1>1, <1>9, <2>1, NewRowTypes, ShowInserted DEF AddShow
  <2>4. [imp[r] EXCEPT !.pc = After(code, "refShow"), !.owner = i].pc = After(code, "refShow")
    BY <1>2 DEF ImportRun
  <2> QED
    BY <1>1, <1>3, <2>2, <2>3, <2>4, GoesOn, BecomeKeeps
<1>10. CASE RefShow(r)
  BY <1>1, <1>3, <1>10, TablesKept, StepBack DEF RefShow
<1>11. CASE FindEpisodeOwner(r)
  <2> DEFINE found == FoundEpisode(r)
             pc == IF found = None THEN "insertEpisode" ELSE "getEpisode"
  <2>1. [imp[r] EXCEPT !.pc = pc, !.owner = found].pc = pc
    BY <1>2 DEF ImportRun
  <2>2. pc \notin {"updateShow", "updateEpisode"}
    OBVIOUS
  <2>3. Become(r, [imp[r] EXCEPT !.pc = pc, !.owner = found])
    BY <1>11 DEF FindEpisodeOwner
  <2>4. KeysKept
    BY <1>4, <1>11 DEF FindEpisodeOwner
  <2> HIDE DEF pc, found
  <2> QED
    BY <1>1, <1>3, <2>1, <2>2, <2>3, <2>4, BecomeKeeps
<1>12. CASE GetEpisode(r)
  <2>1. KeysKept /\ shows' = shows /\ episodes' = episodes
    BY <1>4, <1>12 DEF GetEpisode, storeVars
  <2>2. CASE episodes[imp[r].owner] # None
    <3> DEFINE copy == RefreshedEpisode(r, episodes[imp[r].owner])
               new == [imp[r] EXCEPT !.pc = "updateEpisode", !.copy = copy]
    <3>1. episodes[imp[r].owner] \in EpisodeRow
      BY <1>1, <1>2, <1>12, <2>2 DEF GetEpisode, RunShape, StoreTypeOK
    <3>2. SameEpisode(copy, episodes[imp[r].owner])
      BY <3>1 DEF RefreshedEpisode, SameEpisode, EpisodeRow
    <3>3. new.pc = "updateEpisode" /\ new.copy = copy /\ new.owner = imp[r].owner
      BY <1>2 DEF ImportRun
    <3>4. imp'[r] = new /\ \A q \in Runs \ {r} : imp'[q] = imp[q]
      BY <1>1, <1>12, <2>2 DEF GetEpisode, Become, RunsTyped
    <3>5. RunCopyKept(imp[r])'
      <4> HIDE DEF new, copy
      <4> QED
        BY <2>1, <2>2, <3>2, <3>3, <3>4 DEF RunCopyKept
    <3> QED
      BY <1>1, <1>3, <2>1, <3>4, <3>5, OtherCopies DEF CopiesKeepKeys
  <2> QED
    BY <1>1, <1>3, <1>12, <2>1, <2>2, StepBack DEF GetEpisode
<1>13. CASE UpdateEpisode(r)
  <2>1. /\ imp[r].owner \in EpisodeIds /\ imp[r].copy \in EpisodeRow
        /\ episodes[imp[r].owner] # None
        /\ SameEpisode(imp[r].copy, episodes[imp[r].owner])
    BY <1>1, <1>13, RunCopyType
       DEF UpdateEpisode, KeysTyped, KeysInv, CopiesKeepKeys, RunCopyKept
  <2>2. KeysKept
    BY <1>1, <1>13, <2>1, EpisodeOverwritten DEF UpdateEpisode
  <2> QED
    BY <1>1, <1>3, <1>13, <2>2, StepBack DEF UpdateEpisode
<1>14. CASE AddEpisode(r)
  <2>1. PICK e \in EpisodeIds : \E code :
           /\ episodes[e] = None
           /\ PutEpisode(e, NewEpisodeOf(r), CreateEpisodeResult(e, NewEpisodeOf(r)))
           /\ Become(r, [imp[r] EXCEPT !.pc = After(code, "refEpisode"), !.owner = e])
    BY <1>14 DEF AddEpisode
  <2>2. PICK code : Become(r, [imp[r] EXCEPT !.pc = After(code, "refEpisode"), !.owner = e])
    BY <2>1
  <2>3. KeysKept
    BY <1>1, <1>14, <2>1, NewRowTypes, EpisodeInserted DEF AddEpisode
  <2>4. [imp[r] EXCEPT !.pc = After(code, "refEpisode"), !.owner = e].pc
          = After(code, "refEpisode")
    BY <1>2 DEF ImportRun
  <2> QED
    BY <1>1, <1>3, <2>2, <2>3, <2>4, GoesOn, BecomeKeeps
<1>15. CASE RefEpisode(r)
  BY <1>1, <1>3, <1>15, TablesKept, StepBack DEF RefEpisode
<1>16. CASE CallFails(r)
  BY <1>1, <1>3, <1>4, <1>16, StepBack DEF CallFails
<1> QED
  BY <1>5, <1>6, <1>7, <1>8, <1>9, <1>10, <1>11, <1>12, <1>13, <1>14, <1>15, <1>16
     DEF RunStep, ImportStep, UpsertShow, UpsertEpisode

----------------------------------------------------------------------------
LEMMA InitKeys == Init => KeysInv
BY DEF Init, StoreInit, CMSInit, IngestionInit, KeysInv, CatalogConstraints, ShowsUnique,
       EpisodesUnique, EpisodesHaveShows, CopiesKeepKeys, RequestCopyKept, RunCopyKept

LEMMA NextKeys == KeysTyped /\ [Next]_vars => KeysInv' /\ RowsKept
<1> SUFFICES ASSUME KeysTyped, [Next]_vars PROVE KeysKept /\ CopiesKeepKeys'
  BY DEF KeysInv, KeysKept
<1>1. CASE UNCHANGED vars
  <2>1. KeysKept
    BY <1>1, TablesKept DEF vars, KeysTyped, KeysInv, TypeInv, TypeOK
  <2> QED
    BY <1>1, <2>1, OtherCopies DEF vars, KeysKept, CopiesKeepKeys
<1>2. CASE Next
  BY <1>2, SessionKeys, RunKeys DEF Next
<1> QED
  BY <1>1, <1>2

LEMMA KeysInductive == Spec => []KeysTyped
<1>1. Init => KeysTyped
  BY InitType, InitKeys DEF KeysTyped
<1>2. KeysTyped /\ [Next]_vars => KeysTyped'
  BY NextType, NextKeys DEF KeysTyped
<1> QED
  BY <1>1, <1>2, PTL DEF Spec

\* The copies that are about to be written are written.
LEMMA UpdatesGoWell ==
    ASSUME KeysTyped
    PROVE  /\ \A i \in ShowIds, row \in ShowRow :
                 shows[i] # None /\ SameShow(row, shows[i]) =>
                     UpdateShowResult(i, row) = "ok"
           /\ \A e \in EpisodeIds, row \in EpisodeRow :
                 episodes[e] # None /\ SameEpisode(row, episodes[e]) =>
                     UpdateEpisodeResult(e, row) = "ok"
<1>1. StoreTypeOK /\ CatalogConstraints
  BY DEF KeysTyped, KeysInv, TypeInv, TypeOK
<1>2. \A i \in ShowIds, row \in ShowRow :
          shows[i] # None /\ SameShow(row, shows[i]) => UpdateShowResult(i, row) = "ok"
  BY <1>1 DEF UpdateShowResult, CreateShowResult, SameShow, ShowClash,
              CatalogConstraints, ShowsUnique
<1>3. \A e \in EpisodeIds, row \in EpisodeRow :
          episodes[e] # None /\ SameEpisode(row, episodes[e])
             => UpdateEpisodeResult(e, row) = "ok"
  BY <1>1 DEF UpdateEpisodeResult, CreateEpisodeResult, SameEpisode, EpisodeClash,
              CatalogConstraints, EpisodesUnique, EpisodesHaveShows
<1> QED
  BY <1>2, <1>3
(* No update is refused, however old the copy it writes.                   *)
THEOREM UpdatesAlwaysApply == Spec => []UpdatesApply
<1>1. KeysTyped => UpdatesApply
  <2> SUFFICES ASSUME KeysTyped PROVE UpdatesApply
    OBVIOUS
  <2>1. StoreTypeOK /\ CMSTypeOK /\ RunsTyped /\ CatalogConstraints /\ CopiesKeepKeys
    BY DEF KeysTyped, KeysInv, TypeInv, TypeOK
  <2>2. ASSUME NEW s \in Sessions
        PROVE  /\ req[s].pc = "writeShow" =>
                     UpdateShowResult(req[s].id, req[s].copy) = "ok"
               /\ req[s].pc = "writeEpisode" =>
                     UpdateEpisodeResult(req[s].id, req[s].copy) = "ok"
    BY <2>1, UpdatesGoWell, RequestCopyType DEF CopiesKeepKeys, RequestCopyKept
  <2>3. ASSUME NEW r \in Runs
        PROVE  /\ imp[r].pc = "updateShow" =>
                     UpdateShowResult(imp[r].owner, imp[r].copy) = "ok"
               /\ imp[r].pc = "updateEpisode" =>
                     UpdateEpisodeResult(imp[r].owner, imp[r].copy) = "ok"
    BY <2>1, UpdatesGoWell, RunCopyType DEF CopiesKeepKeys, RunCopyKept
  <2> QED
    BY <2>2, <2>3 DEF UpdatesApply
<1> QED
  BY <1>1, KeysInductive, PTL

(* No step takes a row away, or its slug, number, parent or author.        *)
THEOREM IdentityStable == Spec => RowIdentityStable
<1> DEFINE Stable ==
      /\ \A i \in ShowIds : shows[i] # None =>
             /\ shows'[i] # None
             /\ shows'[i].slug = shows[i].slug
             /\ shows'[i].createdBy = shows[i].createdBy
      /\ \A e \in EpisodeIds : episodes[e] # None =>
             /\ episodes'[e] # None
             /\ episodes'[e].show = episodes[e].show
             /\ episodes'[e].slug = episodes[e].slug
             /\ episodes'[e].number = episodes[e].number
             /\ episodes'[e].createdBy = episodes[e].createdBy
<1>1. KeysTyped /\ [Next]_vars => [Stable]_vars
  BY NextKeys DEF RowsKept, SameShow, SameEpisode
<1>2. RowIdentityStable <=> [][Stable]_vars
  BY DEF RowIdentityStable
<1> QED
  BY <1>1, <1>2, KeysInductive, PTL DEF Spec
===============================================================================
