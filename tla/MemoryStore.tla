----------------------------- MODULE MemoryStore -----------------------------
(***************************************************************************)
(* A repository of the memory backend (internal/store/memory.go): rows in  *)
(* maps that belong to actors, goroutines that run closures one at a time. *)
(* A call submits a closure, waits for its reply, and where an operation   *)
(* fans out submits the next one to the next shard.  A cancelled context   *)
(* ends the call with an error, but a closure the actor has accepted runs. *)
(*                                                                         *)
(* Shows and episodes are sharded by id over several actors.  They have    *)
(* the same repository but for the rows that clash (Clash relates shows of *)
(* one slug; episodes of one show with one slug or one number) and for the *)
(* copies that the handlers write: only a show is ever patched.  Count and *)
(* SearchEpisodes walk the shards as List does.  Users and external refs   *)
(* are with one actor: Clash relates users of one e-mail, refs of one key, *)
(* and there are Create and the look-up (GetByEmail, FindOwner) only.      *)
(***************************************************************************)
EXTENDS Naturals, FiniteSets

CONSTANTS
    Callers,        \* handlers
    Importers,      \* those that create what they import
    Unreliable,     \* those whose context may be cancelled
    Asks,           \* Asks[kind][c]: what c asks for, to bound the instance
    NumShards,      \* store.memory.actors
    Ids, ShardOf,   \* uuids, and shardIndex
    Keys, Clash,    \* the columns under a uniqueness rule, and the rule
    Kinds,          \* the repositories to look at, of those below
    None

AllKinds == {"shows", "episodes", "single"}

Shards == 1..NumShards

ASSUME MemoryAssumption ==
    /\ NumShards \in Nat \ {0}
    /\ ShardOf \in [Ids -> Shards] /\ Kinds \subseteq AllKinds
    /\ Unreliable \subseteq Callers
    /\ Clash \subseteq Keys \X Keys
    /\ \A k \in Keys : <<k, k>> \in Clash
    /\ \A p \in Clash : <<p[2], p[1]>> \in Clash

VARIABLES
    kind,       \* which repository it is; it does not change
    items,      \* items[i]: the row in the map of its actor, or None
    actor,      \* actor[s]: the closure shard s has accepted, or None
    call,       \* call[c]: the operation caller c is in, or was in last
    closed,     \* Close was called
    gone        \* the actors that have left their loop

vars == <<kind, items, actor, call, closed, gone>>

Single == kind = "single"

Home(i) == IF Single THEN 1 ELSE ShardOf[i]

Row == [key : Keys, published : BOOLEAN, createdBy : Callers]

Ops == {"create", "update", "list", "find"}
Codes == {"ok", "conflict", "notfound"}

(* A closure answers with a code and, when it looks, the rows it found.    *)
Answer == [code : Codes, rows : SUBSET Ids]

(* A call walks the shards, or runs one closure on the shard of its id     *)
(* (stage).  sent: its closure is with the actor; reply: the closure ran;  *)
(* seen: the rows it has found; before: the rows there were when a read    *)
(* began, which the code does not keep.                                    *)
CallState ==
    [stage : {"idle", "walk", "direct"}, op : Ops, id : Ids \cup {None},
     row : Row \cup {None}, shard : Shards, sent : BOOLEAN,
     reply : Answer \cup {None}, seen : SUBSET Ids, before : SUBSET Ids,
     code : Codes \cup {"error"}]

Closure == [by : Callers \cup {None}, stage : {"walk", "direct"}, op : Ops,
            id : Ids \cup {None}, row : Row \cup {None}]

\* No row, handler or answer is taken for the lack of one.
ASSUME NoneAssumption == None \notin Callers \cup Ids \cup Row \cup Answer

TypeOK ==
    /\ kind \in Kinds
    /\ items \in [Ids -> Row \cup {None}]
    /\ actor \in [Shards -> Closure \cup {None}]
    /\ call \in [Callers -> CallState]
    /\ closed \in BOOLEAN
    /\ gone \subseteq Shards

Init ==
    /\ kind \in Kinds
    /\ items = [i \in Ids |-> None]
    /\ actor = [s \in Shards |-> None]
    /\ call = [c \in Callers |->
                  [stage |-> "idle", op |-> "list", id |-> None, row |-> None,
                   shard |-> 1, sent |-> FALSE, reply |-> None, seen |-> {},
                   before |-> {}, code |-> "error"]]
    /\ closed = FALSE
    /\ gone = {}

Present == {i \in Ids : items[i] # None}

Idle(c) == call[c].stage = "idle"

----------------------------------------------------------------------------
(* Operations begin.                                                       *)
Begin(c, op, stage, id, row, shard) ==
    /\ Idle(c) /\ op \in Asks[kind][c]
    /\ call' = [call EXCEPT ![c] =
          [@ EXCEPT !.stage = stage, !.op = op, !.id = id, !.row = row,
                    !.shard = shard, !.seen = {}, !.code = "ok",
                    !.before = IF op \in {"list", "find"} THEN Present ELSE {}]]
    /\ UNCHANGED <<kind, items, actor, closed, gone>>

\* A generated id is in no map and in no other call.
Fresh(i) ==
    /\ items[i] = None
    /\ \A c \in Callers : call[c].id # i
    /\ \A s \in Shards : actor[s] # None => actor[s].id # i

\* The rows of an import are published when they are inserted.
RowOf(c, key) == [key |-> key, published |-> c \in Importers, createdBy |-> c]

\* Where a call looks for a key: in each shard, or in the one map.
LookUp == IF Single THEN "direct" ELSE "walk"

Create(c) ==
    \E i \in Ids, key \in Keys :
        Fresh(i) /\ Begin(c, "create", LookUp, i, RowOf(c, key), 1)

\* GetBySlug of shows, GetByEmail, FindOwner.
Find(c) == \E key \in Keys : Begin(c, "find", LookUp, None, RowOf(c, key), 1)

(* The copy that goes back is of the row as it was read: published, or as  *)
(* it was by a PATCH of a show, of a draft too.  The refresh by an import  *)
(* is of a row that an import made and so of one that is published.        *)
Update(c) ==
    \E i \in Present :
        \E published \in {TRUE} \cup (IF kind = "shows" THEN {items[i].published} ELSE {}) :
            /\ ~Single
            /\ Begin(c, "update", "direct", i,
                     [items[i] EXCEPT !.published = published], ShardOf[i])

List(c) == ~Single /\ Begin(c, "list", "walk", None, None, 1)

----------------------------------------------------------------------------
(* submit: the actor takes the closure when it is in its loop.             *)
Send(c) ==
    LET m == call[c]
    IN  /\ ~Idle(c) /\ ~m.sent
        /\ actor[m.shard] = None /\ m.shard \notin gone
        /\ actor' = [actor EXCEPT ![m.shard] =
              [by |-> c, stage |-> m.stage, op |-> m.op, id |-> m.id, row |-> m.row]]
        /\ call' = [call EXCEPT ![c].sent = TRUE]
        /\ UNCHANGED <<kind, items, closed, gone>>

\* Mutant: the look-up of Create takes any row for a clash.
FoundAny(s, f) == {i \in Present : Home(i) = s}

\* The rows of actor s that a closure looks for.
Found(s, f) ==
    {i \in Present : /\ Home(i) = s
                     /\ f.op # "list" => <<items[i].key, f.row.key>> \in Clash}

\* Mutant: Create of users and refs inserts without a look.
RefusedNot(s, f) == f.op = "create" /\ items[f.id] # None

\* Create refuses an id and, where the one map has all rows, a key that is there.
Refused(s, f) ==
    f.op = "create" /\ (items[f.id] # None \/ (Single /\ Found(s, f) # {}))

AnswerTo(s, f) ==
    IF f.stage = "walk" THEN [code |-> "ok", rows |-> Found(s, f)]
    ELSE [code |-> CASE Refused(s, f) -> "conflict"
                     [] f.op = "update" /\ items[f.id] = None -> "notfound"
                     [] f.op = "find" /\ Found(s, f) = {} -> "notfound"
                     [] OTHER -> "ok",
          rows |-> IF f.op = "find" THEN Found(s, f) ELSE {}]

Run(s, f, answer) ==
    /\ items' = IF f.stage = "direct" /\ f.op # "find" /\ answer.code = "ok"
                THEN [items EXCEPT ![f.id] = f.row] ELSE items
    /\ call' = IF f.by = None THEN call ELSE [call EXCEPT ![f.by].reply = answer]
    /\ actor' = [actor EXCEPT ![s] = None]
    /\ UNCHANGED <<kind, closed, gone>>

\* Mutant: the channel of the reply has no buffer.
ExecUnbuffered(s) ==
    /\ actor[s] # None /\ actor[s].by # None
    /\ Run(s, actor[s], AnswerTo(s, actor[s]))

(* The closure runs, whether or not its caller still waits: the channel of *)
(* the reply has room for it.                                              *)
Exec(s) == actor[s] # None /\ Run(s, actor[s], AnswerTo(s, actor[s]))

----------------------------------------------------------------------------
\* The next closure of c goes to this shard.
Go(c, stage, shard, seen) ==
    call' = [call EXCEPT ![c] =
        [@ EXCEPT !.stage = stage, !.shard = shard, !.seen = seen,
                  !.sent = FALSE, !.reply = None]]

\* The call returns; after an error the caller knows of no row.
Return(c, seen, code) ==
    call' = [call EXCEPT ![c] =
        [@ EXCEPT !.stage = "idle", !.shard = 1, !.sent = FALSE, !.reply = None,
                  !.seen = seen, !.code = code,
                  !.id = IF code = "error" THEN None ELSE call[c].id,
                  !.row = IF code = "error" THEN None ELSE call[c].row,
                  !.before = IF code = "error" THEN {} ELSE call[c].before]]

\* Mutant: the walk leaves the last shard out.
LastShardEarly(c) == call[c].shard + 1 >= NumShards

LastShard(c) == call[c].shard = NumShards

(* The caller takes the reply.  A look-up stops at the first row found and *)
(* else goes on to the next shard; Create goes at last to that of its row. *)
Receive(c) ==
    LET m == call[c]
        seen == m.seen \cup m.reply.rows
        stop == m.op # "list" /\ seen # {}
    IN  /\ m.reply # None
        /\ \/ /\ m.stage = "direct"
              /\ Return(c, m.reply.rows, m.reply.code)
           \/ /\ m.stage = "walk" /\ stop
              /\ IF m.op = "create" THEN Return(c, {}, "conflict") ELSE Return(c, seen, "ok")
           \/ /\ m.stage = "walk" /\ ~stop /\ ~LastShard(c)
              /\ Go(c, "walk", m.shard + 1, seen)
           \/ /\ m.stage = "walk" /\ ~stop /\ LastShard(c)
              /\ CASE m.op = "create" -> Go(c, "direct", ShardOf[m.id], {})
                   [] m.op = "find" -> Return(c, {}, "notfound")
                   [] m.op = "list" -> Return(c, seen, "ok")
        /\ UNCHANGED <<kind, items, actor, closed, gone>>

\* ctx.Done: the call ends; nobody will read what its closure answers.
Cancel(c) ==
    /\ c \in Unreliable /\ ~Idle(c)
    /\ Return(c, {}, "error")
    /\ actor' = [s \in Shards |->
          IF actor[s] # None /\ actor[s].by = c THEN [actor[s] EXCEPT !.by = None]
                                                ELSE actor[s]]
    /\ UNCHANGED <<kind, items, closed, gone>>

\* Close: each actor leaves its loop when it is next there.
Close ==
    /\ ~closed /\ closed' = TRUE
    /\ UNCHANGED <<kind, items, actor, call, gone>>

Leave(s) ==
    /\ closed /\ s \notin gone /\ actor[s] = None
    /\ gone' = gone \cup {s}
    /\ UNCHANGED <<kind, items, actor, call, closed>>

----------------------------------------------------------------------------
OpenNext ==
    \/ \E c \in Callers :
          Create(c) \/ Find(c) \/ Update(c) \/ List(c) \/ Send(c) \/ Receive(c) \/ Cancel(c)
    \/ \E s \in Shards : Exec(s)

Next == OpenNext \/ Close \/ \E s \in Shards : Leave(s)

Spec == Init /\ [][Next]_vars

\* Before the process shuts down.
OpenSpec == Init /\ [][OpenNext]_vars

(* Goroutines run.  Those that wait to send to one actor are served in the *)
(* order they came, so none waits while the others are served for ever.    *)
FairSpec ==
    /\ Spec
    /\ \A s \in Shards : WF_vars(Exec(s))
    /\ \A c \in Callers : WF_vars(Receive(c)) /\ SF_vars(Send(c))

----------------------------------------------------------------------------
Clashing(i, j) ==
    i # j /\ {i, j} \subseteq Present /\ <<items[i].key, items[j].key>> \in Clash

(* A handler that was cut and tries again never makes a second row, though *)
(* its first closure may run after it was told of the error: the new       *)
(* look-up waits for that closure at its shard.                            *)
RetriesNeverClash ==
    \A i, j \in Ids : Clashing(i, j) => items[i].createdBy # items[j].createdBy

(* What a caller was told is so: after 409 there is a row it clashes with, *)
(* the rows of acknowledged creates and updates are there under the key    *)
(* and the author they were read with (and an episode stays published,     *)
(* though a PATCH may take a show down again), and a look-up in one shard  *)
(* after the other misses no row that was there before it.                 *)
AnswersTruthful ==
    \A c \in Callers :
        LET m == call[c]
        IN  Idle(c) =>
              /\ m.op = "create" /\ m.code = "conflict" =>
                    \E i \in Present : <<items[i].key, m.row.key>> \in Clash
              /\ m.op = "create" /\ m.code = "ok" =>
                    m.id \in Present /\ items[m.id].key = m.row.key
              /\ m.op = "update" /\ m.code = "ok" =>
                    /\ m.id \in Present /\ items[m.id].key = m.row.key
                    /\ items[m.id].createdBy = m.row.createdBy
                    /\ kind = "episodes" => items[m.id].published
              /\ m.op = "update" => m.code \in {"ok", "error"}
              /\ m.op = "find" /\ m.code = "notfound" =>
                    \A i \in m.before : <<items[i].key, m.row.key>> \notin Clash
              /\ m.op = "find" /\ m.code = "ok" =>
                    \E i \in m.seen \cap Present : <<items[i].key, m.row.key>> \in Clash

(* List visits the shards one after the other while others write; it still *)
(* has every row that was there when it began, and no row that is not.     *)
ListsAreComplete ==
    \A c \in Callers :
        (Idle(c) /\ call[c].op = "list" /\ call[c].code = "ok") =>
            /\ call[c].before \subseteq call[c].seen
            /\ call[c].seen \subseteq Present

(* Every call returns as long as the repository is open, also when others  *)
(* are cut while an actor runs their closures.                             *)
CallsReturn == \A c \in Callers : ~Idle(c) ~> Idle(c) \/ closed

(* Users and refs are unique whatever overlaps and is cut, for the look-up *)
(* and the insert are one closure: imports rely on it for their refs.      *)
OneActorUnique == Single => \A i, j \in Ids : ~Clashing(i, j)

(* The contract the repositories are tested for: no two rows clash.  The   *)
(* look-up and the insert are closures of their own.                       *)
NoClash == \A i, j \in Ids : ~Clashing(i, j)
=============================================================================
