-------------------------------- MODULE CMS --------------------------------
(***************************************************************************)
(* The CMS write side (internal/cms/service.go).  A request is served by a *)
(* goroutine of its own.  updateShow, publishShow and publishEpisode read  *)
(* a whole row, change the copy and write the whole row back as a second   *)
(* statement; createEpisode looks its show up and then inserts.  Between   *)
(* the two statements other requests and imports run.                      *)
(***************************************************************************)
EXTENDS CatalogStore

VARIABLE req    \* req[s]: the request session s is serving or last served

Ops == {"createShow", "updateShow", "publishShow",
        "createEpisode", "publishEpisode"}

Codes == {"ok", "conflict", "notfound", "error"}

(* An idle session remembers the reply it got; a busy one is about to      *)
(* write its copy of the row.                                              *)
IdleReq == [pc : {"idle"}, op : Ops \cup {"none"},
            id : ShowIds \cup EpisodeIds \cup {None}, code : Codes]
ShowWrite == [pc : {"writeShow"}, op : {"updateShow", "publishShow"},
              id : ShowIds, copy : ShowRow]
EpisodeInsert == [pc : {"insertEpisode"}, op : {"createEpisode"},
                  id : {None}, copy : EpisodeRow]
EpisodeWrite == [pc : {"writeEpisode"}, op : {"publishEpisode"},
                 id : EpisodeIds, copy : EpisodeRow]

CMSTypeOK ==
    req \in [Sessions -> IdleReq \cup ShowWrite \cup EpisodeInsert \cup EpisodeWrite]

CMSInit ==
    req = [s \in Sessions |->
              [pc |-> "idle", op |-> "none", id |-> None, code |-> "ok"]]

Idle(s) == req[s].pc = "idle"

\* The row is in the reply only when the request went well.
Reply(s, op, id, code) ==
    req' = [req EXCEPT ![s] =
               [pc |-> "idle", op |-> op,
                id |-> IF code = "ok" THEN id ELSE None, code |-> code]]

Call(s, pc, op, id, copy) ==
    req' = [req EXCEPT ![s] = [pc |-> pc, op |-> op, id |-> id, copy |-> copy]]

----------------------------------------------------------------------------
(* createShow: NewShow makes a draft with a fresh id; one insert.          *)
CreateShow(s) ==
    /\ Idle(s)
    /\ \E i \in ShowIds, slug \in Slugs, title \in Titles, lang \in Langs :
          LET row == [slug |-> slug, title |-> title, lang |-> lang,
                      status |-> "draft", createdBy |-> s]
              result == CreateShowResult(i, row)
          IN  /\ shows[i] = None
              /\ PutShow(i, row, result)
              /\ \E code \in Answers(s, result) : Reply(s, "createShow", i, code)
    /\ UNCHANGED <<episodes, showRefs, episodeRefs>>

\* Mutants: the slug follows the title; an edited show goes back to draft.
PatchedSlug(row, title, lang) ==
    IF title = None THEN row ELSE [row EXCEPT !.title = title, !.slug = title]
PatchedDraft(row, title, lang) == [row EXCEPT !.status = "draft"]

\* A PATCH carries some of the fields; a nil one keeps the value read.
Patched(row, title, lang) ==
    [row EXCEPT !.title = IF title = None THEN @ ELSE title,
                !.lang  = IF lang = None THEN @ ELSE lang]

\* updateShow and publishShow: GetByID, then change the copy.
ReadForUpdateShow(s) ==
    /\ Idle(s)
    /\ \E i \in ShowIds :
          \/ /\ shows[i] = None
             /\ Reply(s, "updateShow", i, "notfound")
          \/ /\ shows[i] # None
             /\ \E title \in Titles \cup {None}, lang \in Langs \cup {None} :
                   Call(s, "writeShow", "updateShow", i, Patched(shows[i], title, lang))
    /\ UNCHANGED storeVars

ReadForPublishShow(s) ==
    /\ Idle(s)
    /\ \E i \in ShowIds :
          \/ /\ shows[i] = None
             /\ Reply(s, "publishShow", i, "notfound")
          \/ /\ shows[i] # None
             /\ Call(s, "writeShow", "publishShow", i,
                     [shows[i] EXCEPT !.status = "published"])
    /\ UNCHANGED storeVars

\* Their second statement: Update writes every column of the copy.
WriteShow(s) ==
    /\ req[s].pc = "writeShow"
    /\ LET result == UpdateShowResult(req[s].id, req[s].copy)
       IN  /\ PutShow(req[s].id, req[s].copy, result)
           /\ \E code \in Answers(s, result) :
                 Reply(s, req[s].op, req[s].id, code)
    /\ UNCHANGED <<episodes, showRefs, episodeRefs>>

----------------------------------------------------------------------------
(* createEpisode: the show must exist when it is looked up.                *)
CheckShowForEpisode(s) ==
    /\ Idle(s)
    /\ \E i \in ShowIds :
          \/ /\ shows[i] = None
             /\ Reply(s, "createEpisode", i, "notfound")
          \/ /\ shows[i] # None
             /\ \E slug \in Slugs, number \in Numbers, title \in Titles :
                   Call(s, "insertEpisode", "createEpisode", None,
                        [show |-> i, slug |-> slug, number |-> number,
                         title |-> title, status |-> "draft",
                         publishedAt |-> "null", createdBy |-> s])
    /\ UNCHANGED storeVars

InsertEpisode(s) ==
    /\ req[s].pc = "insertEpisode"
    /\ \E e \in EpisodeIds :
          LET result == CreateEpisodeResult(e, req[s].copy)
          IN  /\ episodes[e] = None
              /\ PutEpisode(e, req[s].copy, result)
              /\ \E code \in Answers(s, result) : Reply(s, "createEpisode", e, code)
    /\ UNCHANGED <<shows, showRefs, episodeRefs>>

\* publishEpisode: sets the status and stamps published_at, again or anew.
ReadForPublishEpisode(s) ==
    /\ Idle(s)
    /\ \E e \in EpisodeIds :
          \/ /\ episodes[e] = None
             /\ Reply(s, "publishEpisode", e, "notfound")
          \/ /\ episodes[e] # None
             /\ Call(s, "writeEpisode", "publishEpisode", e,
                     [episodes[e] EXCEPT !.status = "published",
                                         !.publishedAt = "cms"])
    /\ UNCHANGED storeVars

WriteEpisode(s) ==
    /\ req[s].pc = "writeEpisode"
    /\ LET result == UpdateEpisodeResult(req[s].id, req[s].copy)
       IN  /\ PutEpisode(req[s].id, req[s].copy, result)
           /\ \E code \in Answers(s, result) :
                 Reply(s, req[s].op, req[s].id, code)
    /\ UNCHANGED <<shows, showRefs, episodeRefs>>

\* A statement of s fails without effect: the request ends with the error.
RequestFails(s) ==
    /\ s \in Unreliable
    /\ \E op \in (IF Idle(s) THEN Ops ELSE {req[s].op}) : Reply(s, op, None, "error")
    /\ UNCHANGED storeVars

CMSStep(s) ==
    \/ CreateShow(s)
    \/ ReadForUpdateShow(s) \/ ReadForPublishShow(s) \/ WriteShow(s)
    \/ CheckShowForEpisode(s) \/ InsertEpisode(s)
    \/ ReadForPublishEpisode(s) \/ WriteEpisode(s)
    \/ RequestFails(s)
=============================================================================
