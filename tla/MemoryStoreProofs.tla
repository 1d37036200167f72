--------------------------- MODULE MemoryStoreProofs ---------------------------
(***************************************************************************)
(* Why the answers of the memory backend are true, why its lists are       *)
(* complete, and why a retry never makes a second row, for any number of   *)
(* shards, callers and rows.                                               *)
(***************************************************************************)
EXTENDS MemoryStore, TLAPS

\* What a caller may have given an actor to do, and which actor.
TaskOK(stage, op, id, row, shard) ==
    /\ shard \in Shards /\ stage \in {"walk", "direct"}
    /\ stage = "walk" => ~Single /\ op \in {"create", "find", "list"}
    /\ stage = "direct" =>
          /\ op \in {"create", "find", "update"}
          /\ Single => shard = 1 /\ op # "update"
          /\ ~Single => op # "find" /\ shard = ShardOf[id]
    /\ op \in {"create", "update"} => id \in Ids
    /\ op # "list" => row \in Row

CallOK(c) ==
    /\ ~call[c].sent => call[c].reply = None
    /\ Idle(c) => ~call[c].sent
    /\ ~Idle(c) =>
          /\ TaskOK(call[c].stage, call[c].op, call[c].id, call[c].row, call[c].shard)
          /\ call[c].op = "create" => call[c].row.createdBy = c
    /\ call[c].stage = "walk" /\ call[c].op # "list" => call[c].seen = {}

ClosureOK(s) ==
    actor[s] # None =>
        /\ TaskOK(actor[s].stage, actor[s].op, actor[s].id, actor[s].row, s)
        /\ actor[s].by # None =>
              /\ call[actor[s].by].sent /\ call[actor[s].by].reply = None
              /\ call[actor[s].by].shard = s
              /\ call[actor[s].by].stage = actor[s].stage
              /\ call[actor[s].by].op = actor[s].op
              /\ call[actor[s].by].id = actor[s].id
              /\ call[actor[s].by].row = actor[s].row

\* An update writes a row that is there, with its key and its author; that
\* of an episode is published.
UpdateOf(id, row) ==
    /\ items[id] # None /\ row.key = items[id].key
    /\ row.createdBy = items[id].createdBy
    /\ kind = "episodes" => row.published

\* What an update that was acknowledged leaves behind.
Updated(id, row) ==
    /\ id \in Present /\ items[id].key = row.key
    /\ items[id].createdBy = row.createdBy
    /\ kind = "episodes" => items[id].published

UpdatesFit ==
    /\ \A c \in Callers : ~Idle(c) /\ call[c].op = "update" => UpdateOf(call[c].id, call[c].row)
    /\ \A s \in Shards : actor[s] # None /\ actor[s].op = "update" =>
          UpdateOf(actor[s].id, actor[s].row)

\* A generated id is in no map until the closure that inserts it runs.
CreatesFresh ==
    /\ \A c \in Callers :
          ~Idle(c) /\ call[c].op = "create" /\ (call[c].stage = "walk" \/ call[c].reply = None)
             => items[call[c].id] = None
    /\ \A s \in Shards : actor[s] # None /\ actor[s].op = "create" => items[actor[s].id] = None

\* No other call and no other closure has it.
IdsApart ==
    /\ \A c, d \in Callers :
          c # d /\ call[c].op = "create" /\ call[d].op = "create" /\ call[c].id # None
             => call[c].id # call[d].id
    /\ \A s \in Shards, c \in Callers :
          actor[s] # None /\ actor[s].op = "create" /\ actor[s].by # c /\ call[c].op = "create"
             => actor[s].id # call[c].id
    /\ \A s, t \in Shards :
          /\ s # t /\ actor[s] # None /\ actor[s].op = "create"
          /\ actor[t] # None /\ actor[t].op = "create"
          => actor[s].id # actor[t].id

Matches(i, c) == <<items[i].key, call[c].row.key>> \in Clash

\* What the reply of a closure says is so.
ReplyTrue(c) ==
    call[c].reply # None =>
        /\ call[c].reply.rows \subseteq Present
        /\ call[c].op # "list" => \A i \in call[c].reply.rows : Matches(i, c)
        /\ call[c].stage = "direct" /\ call[c].op = "create" =>
              \/ /\ call[c].reply.code = "ok"
                 /\ call[c].id \in Present /\ items[call[c].id].key = call[c].row.key
              \/ call[c].reply.code = "conflict" /\ \E i \in Present : Matches(i, c)
        /\ call[c].stage = "direct" /\ call[c].op = "update" =>
              call[c].reply.code = "ok" /\ Updated(call[c].id, call[c].row)
        /\ call[c].stage = "direct" /\ call[c].op = "find" =>
              \/ call[c].reply.code = "ok" /\ call[c].reply.rows # {}
              \/ /\ call[c].reply.code = "notfound"
                 /\ \A i \in call[c].before : ~Matches(i, c)
        /\ call[c].stage = "walk" => \A i \in call[c].before :
              ShardOf[i] = call[c].shard /\ (call[c].op # "list" => Matches(i, c))
                 => i \in call[c].reply.rows

\* What a walk knows of the shards it has left.
WalkTrue(c) ==
    ~Idle(c) =>
        /\ call[c].before \subseteq Present /\ call[c].seen \subseteq Present
        /\ call[c].stage = "walk" => \A i \in call[c].before : ShardOf[i] < call[c].shard =>
              IF call[c].op = "list" THEN i \in call[c].seen ELSE ~Matches(i, c)

AnswerTrue(c) ==
    Idle(c) =>
        /\ call[c].op = "create" /\ call[c].code = "conflict" =>
              \E i \in Present : Matches(i, c)
        /\ call[c].op = "create" /\ call[c].code = "ok" =>
              call[c].id \in Present /\ items[call[c].id].key = call[c].row.key
        /\ call[c].op = "update" /\ call[c].code = "ok" => Updated(call[c].id, call[c].row)
        /\ call[c].op = "update" => call[c].code \in {"ok", "error"}
        /\ call[c].op = "find" /\ call[c].code = "notfound" =>
              call[c].before \subseteq Present /\ \A i \in call[c].before : ~Matches(i, c)
        /\ call[c].op = "find" /\ call[c].code = "ok" =>
              \E i \in call[c].seen \cap Present : Matches(i, c)
        /\ call[c].op = "list" /\ call[c].code = "ok" =>
              call[c].before \subseteq call[c].seen /\ call[c].seen \subseteq Present

Knows(c) == CallOK(c) /\ ReplyTrue(c) /\ WalkTrue(c) /\ AnswerTrue(c)

AnswersInv ==
    /\ \A c \in Callers : Knows(c)
    /\ \A s \in Shards : ClosureOK(s)
    /\ UpdatesFit /\ CreatesFresh /\ IdsApart

\* Closures left behind by calls that were cut.
LeftInsert(s, c) ==
    /\ actor[s] # None /\ actor[s].by = None
    /\ actor[s].stage = "direct" /\ actor[s].op = "create" /\ actor[s].row.createdBy = c

RowBy(i, c) == items[i] # None /\ items[i].createdBy = c

\* Nothing that a caller made, or may still make by such a closure, clashes.
OwnRows(c) ==
    \A i, j \in Ids : RowBy(i, c) /\ RowBy(j, c) /\ i # j =>
        <<items[i].key, items[j].key>> \notin Clash

LeftVsRows(c) ==
    \A s \in Shards, i \in Ids : LeftInsert(s, c) /\ RowBy(i, c) =>
        <<items[i].key, actor[s].row.key>> \notin Clash

LeftVsLeft(c) ==
    \A s, t \in Shards : LeftInsert(s, c) /\ LeftInsert(t, c) /\ s # t =>
        <<actor[s].row.key, actor[t].row.key>> \notin Clash

\* A look-up leaves no shard behind that has, or will have, such a row.
WalkVsRows(c) ==
    call[c].stage = "walk" /\ call[c].op = "create" =>
        \A i \in Ids : RowBy(i, c) /\ Matches(i, c) =>
            /\ ShardOf[i] >= call[c].shard
            /\ ShardOf[i] = call[c].shard /\ call[c].reply # None => i \in call[c].reply.rows

WalkVsLeft(c) ==
    call[c].stage = "walk" /\ call[c].op = "create" =>
        \A s \in Shards :
            LeftInsert(s, c) /\ <<actor[s].row.key, call[c].row.key>> \in Clash =>
                s >= call[c].shard /\ (s = call[c].shard => ~call[c].sent)

InsertVsRows(c) ==
    call[c].stage = "direct" /\ call[c].op = "create" /\ call[c].reply = None =>
        \A i \in Ids : RowBy(i, c) => ~Matches(i, c)

InsertVsLeft(c) ==
    call[c].stage = "direct" /\ call[c].op = "create" /\ call[c].reply = None =>
        \A s \in Shards : LeftInsert(s, c) => <<actor[s].row.key, call[c].row.key>> \notin Clash

Apart(c) ==
    /\ OwnRows(c) /\ LeftVsRows(c) /\ LeftVsLeft(c)
    /\ WalkVsRows(c) /\ WalkVsLeft(c) /\ InsertVsRows(c) /\ InsertVsLeft(c)

RetryInv == ~Single => \A c \in Callers : Apart(c)

----------------------------------------------------------------------------
(* Types.                                                                  *)

\* Calls begin with a task that fits the repository.
Begins(c, op, stage, id, row, shard) ==
    /\ Begin(c, op, stage, id, row, shard)
    /\ TaskOK(stage, op, id, row, shard)
    /\ op \in Ops /\ id \in Ids \cup {None} /\ row \in Row \cup {None}
    /\ stage = "walk" => shard = 1
    /\ op = "create" => stage = LookUp /\ Fresh(id) /\ id \in Ids /\ row.createdBy = c
    /\ op = "update" => UpdateOf(id, row)

Beginning(c) == Create(c) \/ Find(c) \/ Update(c) \/ List(c)

LEMMA HomeShard ==
    ASSUME NEW i \in Ids
    PROVE  Home(i) \in Shards /\ 1 \in Shards /\ ShardOf[i] \in Shards
BY MemoryAssumption, SMT DEF Home, Shards

\* The four operations begin so.
LEMMA BeginCases ==
    ASSUME TypeOK, NEW c \in Callers, Beginning(c)
    PROVE  \E op, stage, id, row, shard : Begins(c, op, stage, id, row, shard)
<1>0. 1 \in Shards
  BY MemoryAssumption, SMT DEF Shards
<1>1. CASE Create(c)
  <2>1. PICK i \in Ids, key \in Keys :
           Fresh(i) /\ Begin(c, "create", LookUp, i, RowOf(c, key), 1)
    BY <1>1 DEF Create
  <2>2. RowOf(c, key) \in Row /\ RowOf(c, key).createdBy = c
    BY DEF RowOf, Row
  <2>3. TaskOK(LookUp, "create", i, RowOf(c, key), 1)
    BY <1>0, <2>2 DEF TaskOK, LookUp
  <2>4. Begins(c, "create", LookUp, i, RowOf(c, key), 1)
    BY <2>1, <2>2, <2>3 DEF Begins, Ops
  <2> QED BY <2>4
<1>2. CASE Find(c)
  <2>1. PICK key \in Keys : Begin(c, "find", LookUp, None, RowOf(c, key), 1)
    BY <1>2 DEF Find
  <2>2. RowOf(c, key) \in Row
    BY DEF RowOf, Row
  <2>3. TaskOK(LookUp, "find", None, RowOf(c, key), 1)
    BY <1>0, <2>2 DEF TaskOK, LookUp
  <2>4. Begins(c, "find", LookUp, None, RowOf(c, key), 1)
    BY <2>1, <2>2, <2>3 DEF Begins, Ops
  <2> QED BY <2>4
<1>3. CASE Update(c)
  <2>0. PICK i \in Present :
           \E published \in {TRUE} \cup (IF kind = "shows" THEN {items[i].published} ELSE {}) :
              /\ ~Single
              /\ Begin(c, "update", "direct", i,
                       [items[i] EXCEPT !.published = published], ShardOf[i])
    BY <1>3 DEF Update
  <2> DEFINE drafts == IF kind = "shows" THEN {items[i].published} ELSE {}
  <2>1. PICK published \in {TRUE} \cup drafts :
           /\ ~Single
           /\ Begin(c, "update", "direct", i,
                    [items[i] EXCEPT !.published = published], ShardOf[i])
    BY <2>0
  <2> DEFINE row == [items[i] EXCEPT !.published = published]
  <2>2. i \in Ids /\ items[i] # None /\ items[i] \in Row
    BY DEF Present, TypeOK
  <2>3. row \in Row /\ UpdateOf(i, row)
    <3>1. published \in BOOLEAN /\ (kind = "episodes" => published = TRUE)
      BY <2>1, <2>2 DEF Row
    <3>2. /\ row.key = items[i].key /\ row.createdBy = items[i].createdBy
          /\ row.published = published /\ row \in Row
      BY <2>2, <3>1 DEF Row
    <3> HIDE DEF row, drafts
    <3> QED BY <2>2, <3>1, <3>2 DEF UpdateOf
  <2> HIDE DEF row
  <2>4. TaskOK("direct", "update", i, row, ShardOf[i])
    BY <2>1, <2>2, <2>3, HomeShard DEF TaskOK
  <2>5. Begin(c, "update", "direct", i, row, ShardOf[i])
    BY <2>1 DEF row
  <2>6. Begins(c, "update", "direct", i, row, ShardOf[i])
    BY <2>2, <2>3, <2>4, <2>5 DEF Begins, Ops
  <2> QED BY <2>6
<1>4. CASE List(c)
  <2>1. ~Single /\ Begin(c, "list", "walk", None, None, 1)
    BY <1>4 DEF List
  <2>2. TaskOK("walk", "list", None, None, 1)
    BY <1>0, <2>1 DEF TaskOK
  <2>3. Begins(c, "list", "walk", None, None, 1)
    BY <2>1, <2>2 DEF Begins, Ops
  <2> QED BY <2>3
<1> QED BY <1>1, <1>2, <1>3, <1>4 DEF Beginning

LEMMA FoundRows ==
    ASSUME NEW s, NEW f
    PROVE  Found(s, f) \subseteq Present /\ Present \subseteq Ids
BY DEF Found, Present

\* What a closure answers, by its kind.
LEMMA Answers ==
    ASSUME NEW s, NEW f, f.stage \in {"walk", "direct"}
    PROVE  /\ AnswerTo(s, f) \in Answer
           /\ f.stage = "walk" =>
                 AnswerTo(s, f).code = "ok" /\ AnswerTo(s, f).rows = Found(s, f)
           /\ f.stage = "direct" /\ f.op = "create" =>
                 /\ AnswerTo(s, f).rows = {}
                 /\ \/ Refused(s, f) /\ AnswerTo(s, f).code = "conflict"
                    \/ ~Refused(s, f) /\ AnswerTo(s, f).code = "ok"
           /\ f.stage = "direct" /\ f.op = "update" =>
                 /\ AnswerTo(s, f).rows = {}
                 /\ \/ items[f.id] = None /\ AnswerTo(s, f).code = "notfound"
                    \/ items[f.id] # None /\ AnswerTo(s, f).code = "ok"
           /\ f.stage = "direct" /\ f.op = "find" =>
                 /\ AnswerTo(s, f).rows = Found(s, f)
                 /\ \/ Found(s, f) = {} /\ AnswerTo(s, f).code = "notfound"
                    \/ Found(s, f) # {} /\ AnswerTo(s, f).code = "ok"
<1> DEFINE found == Found(s, f)
           code == CASE Refused(s, f) -> "conflict"
                     [] f.op = "update" /\ items[f.id] = None -> "notfound"
                     [] f.op = "find" /\ found = {} -> "notfound"
                     [] OTHER -> "ok"
           rows == IF f.op = "find" THEN found ELSE {}
<1>1. found \subseteq Ids
  BY FoundRows
<1>2. /\ Refused(s, f) => f.op = "create"
      /\ Refused(s, f) \in BOOLEAN
  BY DEF Refused
<1>3. /\ f.op = "create" => \/ Refused(s, f) /\ code = "conflict"
                            \/ ~Refused(s, f) /\ code = "ok"
      /\ f.op = "update" => \/ items[f.id] = None /\ code = "notfound"
                            \/ items[f.id] # None /\ code = "ok"
      /\ f.op = "find" => \/ found = {} /\ code = "notfound"
                          \/ found # {} /\ code = "ok"
      /\ code \in Codes
  BY <1>2 DEF Codes
<1>4. rows \in SUBSET Ids /\ (f.op = "find" => rows = found) /\ (f.op # "find" => rows = {})
  BY <1>1
<1>5. CASE f.stage = "walk"
  <2>1. AnswerTo(s, f) = [code |-> "ok", rows |-> found]
    BY <1>5 DEF AnswerTo
  <2>2. "ok" \in Codes
    BY DEF Codes
  <2> QED BY <1>1, <1>5, <2>1, <2>2 DEF Answer
<1>6. CASE f.stage = "direct"
  <2>1. AnswerTo(s, f) = [code |-> code, rows |-> rows]
    BY <1>6 DEF AnswerTo
  <2> HIDE DEF code, rows
  <2>2. AnswerTo(s, f).code = code /\ AnswerTo(s, f).rows = rows
    BY <2>1
  <2>3. AnswerTo(s, f) \in Answer
    BY <1>3, <1>4, <2>1 DEF Answer
  <2> QED BY <1>3, <1>4, <1>6, <2>2, <2>3
<1> QED BY <1>5, <1>6

LEMMA BeginsTyped ==
    ASSUME TypeOK, NEW c \in Callers, Beginning(c)
    PROVE  TypeOK'
<1>1. PICK op, stage, id, row, shard : Begins(c, op, stage, id, row, shard)
  BY BeginCases
<1> DEFINE before == IF op \in {"list", "find"} THEN Present ELSE {}
<1>2. before \subseteq Ids
  BY DEF Present
<1>3. /\ call' = [call EXCEPT ![c] =
             [@ EXCEPT !.stage = stage, !.op = op, !.id = id, !.row = row,
                       !.shard = shard, !.seen = {}, !.code = "ok", !.before = before]]
      /\ UNCHANGED <<kind, items, actor, closed, gone>>
  BY <1>1 DEF Begins, Begin
<1>4. /\ stage \in {"idle", "walk", "direct"} /\ op \in Ops /\ id \in Ids \cup {None}
      /\ row \in Row \cup {None} /\ shard \in Shards /\ "ok" \in Codes \cup {"error"}
  BY <1>1 DEF Begins, TaskOK, Codes
<1> HIDE DEF before
<1> DEFINE rec == [call[c] EXCEPT !.stage = stage, !.op = op, !.id = id, !.row = row,
                       !.shard = shard, !.seen = {}, !.code = "ok", !.before = before]
<1>5. rec \in CallState
  <2>1. call[c] \in CallState
    BY DEF TypeOK
  <2>2. before \in SUBSET Ids /\ {} \in SUBSET Ids
    BY <1>2
  <2> QED BY <1>4, <2>1, <2>2 DEF CallState
<1>6. call' = [call EXCEPT ![c] = rec]
  BY <1>3
<1> HIDE DEF rec
<1>7. call' \in [Callers -> CallState]
  BY <1>5, <1>6 DEF TypeOK
<1> QED BY <1>3, <1>7 DEF TypeOK

LEMMA GoTyped ==
    ASSUME TypeOK, NEW c \in Callers, NEW stage \in {"walk", "direct"}, NEW shard \in Shards,
           NEW seen \in SUBSET Ids, Go(c, stage, shard, seen)
    PROVE  call' \in [Callers -> CallState]
<1> DEFINE rec == [call[c] EXCEPT !.stage = stage, !.shard = shard, !.seen = seen,
                                  !.sent = FALSE, !.reply = None]
<1>1. rec \in CallState
  <2>1. call[c] \in CallState
    BY DEF TypeOK
  <2> QED BY <2>1 DEF CallState
<1>2. call' = [call EXCEPT ![c] = rec]
  BY DEF Go
<1> HIDE DEF rec
<1> QED BY <1>1, <1>2 DEF TypeOK

LEMMA ReturnTyped ==
    ASSUME TypeOK, NEW c \in Callers, NEW seen \in SUBSET Ids,
           NEW code \in Codes \cup {"error"}, Return(c, seen, code)
    PROVE  call' \in [Callers -> CallState]
<1> DEFINE id == IF code = "error" THEN None ELSE call[c].id
           row == IF code = "error" THEN None ELSE call[c].row
           before == IF code = "error" THEN {} ELSE call[c].before
<1>1. call[c] \in CallState
  BY DEF TypeOK
<1>2. id \in Ids \cup {None} /\ row \in Row \cup {None} /\ before \subseteq Ids /\ 1 \in Shards
  BY <1>1, MemoryAssumption, SMT DEF CallState, Shards
<1> DEFINE rec == [call[c] EXCEPT !.stage = "idle", !.shard = 1, !.sent = FALSE,
                       !.reply = None, !.seen = seen, !.code = code, !.id = id,
                       !.row = row, !.before = before]
<1>3. call' = [call EXCEPT ![c] = rec]
  BY SMT DEF Return
<1> HIDE DEF id, row, before
<1>4. rec \in CallState
  BY <1>1, <1>2 DEF CallState
<1> HIDE DEF rec
<1> QED BY <1>3, <1>4 DEF TypeOK

LEMMA RunTyped ==
    ASSUME TypeOK, NEW s \in Shards, actor[s] # None, TaskOK(actor[s].stage, actor[s].op,
               actor[s].id, actor[s].row, s), Exec(s)
    PROVE  TypeOK'
<1> DEFINE f == actor[s]
           answer == AnswerTo(s, f)
<1>1. f \in Closure
  BY DEF TypeOK
<1>2. f.stage \in {"walk", "direct"} /\ f.by \in Callers \cup {None}
  BY <1>1 DEF Closure
<1>3. answer \in Answer
  BY <1>2, Answers
<1>4. Run(s, f, answer)
  BY DEF Exec
<1> HIDE DEF answer
<1>5. items' \in [Ids -> Row \cup {None}]
  <2>1. CASE f.stage = "direct" /\ f.op # "find" /\ answer.code = "ok"
    <3>1. f.id \in Ids /\ f.row \in Row
      BY <2>1 DEF TaskOK
    <3>2. items' = [items EXCEPT ![f.id] = f.row]
      BY <1>4, <2>1 DEF Run
    <3> QED BY <3>1, <3>2 DEF TypeOK
  <2>2. CASE ~(f.stage = "direct" /\ f.op # "find" /\ answer.code = "ok")
    BY <1>4, <2>2 DEF Run, TypeOK
  <2> QED BY <2>1, <2>2
<1>6. call' \in [Callers -> CallState]
  <2>1. CASE f.by = None
    BY <1>4, <2>1 DEF Run, TypeOK
  <2>2. CASE f.by # None
    <3>1. f.by \in Callers /\ call' = [call EXCEPT ![f.by].reply = answer]
      BY <1>2, <1>4, <2>2 DEF Run
    <3> DEFINE rec == [call[f.by] EXCEPT !.reply = answer]
    <3>2. call' = [call EXCEPT ![f.by] = rec]
      BY <3>1
    <3>3. rec \in CallState
      BY <1>3, <3>1 DEF TypeOK, CallState
    <3> HIDE DEF f, rec
    <3> QED BY <3>1, <3>2, <3>3 DEF TypeOK
  <2> QED BY <2>1, <2>2
<1>7. actor' \in [Shards -> Closure \cup {None}] /\ UNCHANGED <<kind, closed, gone>>
  BY <1>4 DEF Run, TypeOK
<1> QED BY <1>5, <1>6, <1>7 DEF TypeOK

\* How a call goes on with the reply it has.
LEMMA ReceiveCases ==
    ASSUME NEW c \in Callers, CallOK(c), Receive(c),
           NEW m, m = call[c], NEW seen, seen = m.seen \cup m.reply.rows
    PROVE  /\ UNCHANGED <<kind, items, actor, closed, gone>>
           /\ m.reply # None /\ m.sent /\ ~Idle(c)
           /\ \/ m.stage = "direct" /\ Return(c, m.reply.rows, m.reply.code)
              \/ m.stage = "walk" /\ m.op = "create" /\ seen # {} /\ Return(c, {}, "conflict")
              \/ m.stage = "walk" /\ m.op = "find" /\ seen # {} /\ Return(c, seen, "ok")
              \/ /\ m.stage = "walk" /\ (m.op # "list" => seen = {})
                 /\ ~LastShard(c) /\ Go(c, "walk", m.shard + 1, seen)
              \/ /\ m.stage = "walk" /\ m.op = "create" /\ seen = {}
                 /\ LastShard(c) /\ Go(c, "direct", ShardOf[m.id], {})
              \/ /\ m.stage = "walk" /\ m.op = "find" /\ seen = {}
                 /\ LastShard(c) /\ Return(c, {}, "notfound")
              \/ /\ m.stage = "walk" /\ m.op = "list"
                 /\ LastShard(c) /\ Return(c, seen, "ok")
<1>1. m.reply # None /\ m.sent /\ ~Idle(c)
  BY DEF CallOK, Receive
<1>2. m.stage = "walk" => m.op \in {"create", "find", "list"}
  BY <1>1 DEF CallOK, TaskOK
<1>3. UNCHANGED <<kind, items, actor, closed, gone>>
  BY DEF Receive
<1> DEFINE stop == m.op # "list" /\ seen # {}
<1>4. \/ m.stage = "direct" /\ Return(c, m.reply.rows, m.reply.code)
      \/ /\ m.stage = "walk" /\ stop
         /\ IF m.op = "create" THEN Return(c, {}, "conflict") ELSE Return(c, seen, "ok")
      \/ m.stage = "walk" /\ ~stop /\ ~LastShard(c) /\ Go(c, "walk", m.shard + 1, seen)
      \/ /\ m.stage = "walk" /\ ~stop /\ LastShard(c)
         /\ CASE m.op = "create" -> Go(c, "direct", ShardOf[m.id], {})
              [] m.op = "find" -> Return(c, {}, "notfound")
              [] m.op = "list" -> Return(c, seen, "ok")
  BY DEF Receive
<1> QED BY <1>1, <1>2, <1>3, <1>4

LEMMA ReceiveTyped ==
    ASSUME TypeOK, NEW c \in Callers, CallOK(c), Receive(c)
    PROVE  TypeOK'
<1> DEFINE m == call[c]
           seen == m.seen \cup m.reply.rows
<1>1. m \in CallState /\ m.reply # None
  BY DEF TypeOK, Receive
<1>2. m.reply \in Answer
  BY <1>1 DEF CallState
<1>3. m.reply.rows \subseteq Ids /\ m.reply.code \in Codes /\ m.seen \subseteq Ids
  BY <1>1, <1>2 DEF CallState, Answer
<1>4. {"ok", "conflict", "notfound"} \subseteq Codes
  BY DEF Codes
<1>5. seen \subseteq Ids /\ {} \subseteq Ids
  BY <1>3
<1>6. m.shard \in Shards /\ (m.shard # NumShards => m.shard + 1 \in Shards)
  BY <1>1, MemoryAssumption, SMT DEF CallState, Shards
<1>7. /\ \/ Return(c, m.reply.rows, m.reply.code)
         \/ Return(c, {}, "conflict")
         \/ Return(c, seen, "ok")
         \/ ~LastShard(c) /\ Go(c, "walk", m.shard + 1, seen)
         \/ m.op = "create" /\ m.stage = "walk" /\ Go(c, "direct", ShardOf[m.id], {})
         \/ Return(c, {}, "notfound")
      /\ UNCHANGED <<kind, items, actor, closed, gone>>
  BY ReceiveCases
<1>8. m.op = "create" /\ m.stage = "walk" => ShardOf[m.id] \in Shards
  BY HomeShard DEF CallOK, TaskOK, Idle
<1> HIDE DEF seen, m
<1>9. call' \in [Callers -> CallState]
  <2>1. CASE Return(c, m.reply.rows, m.reply.code)
    BY <1>3, <2>1, ReturnTyped
  <2>2. CASE Return(c, {}, "conflict")
    BY <1>4, <1>5, <2>2, ReturnTyped
  <2>3. CASE Return(c, seen, "ok")
    BY <1>4, <1>5, <2>3, ReturnTyped
  <2>4. CASE ~LastShard(c) /\ Go(c, "walk", m.shard + 1, seen)
    BY <1>5, <1>6, <2>4, GoTyped DEF LastShard, m
  <2>5. CASE m.op = "create" /\ m.stage = "walk" /\ Go(c, "direct", ShardOf[m.id], {})
    BY <1>5, <1>8, <2>5, GoTyped
  <2>6. CASE Return(c, {}, "notfound")
    BY <1>4, <1>5, <2>6, ReturnTyped
  <2> QED BY <1>7, <2>1, <2>2, <2>3, <2>4, <2>5, <2>6
<1> QED BY <1>7, <1>9 DEF TypeOK

LEMMA SendTyped ==
    ASSUME TypeOK, NEW c \in Callers, Send(c)
    PROVE  TypeOK'
<1>1. call[c] \in CallState /\ call[c].stage # "idle"
  BY DEF TypeOK, Send, Idle
<1>2. [by |-> c, stage |-> call[c].stage, op |-> call[c].op, id |-> call[c].id,
       row |-> call[c].row] \in Closure
  BY <1>1 DEF CallState, Closure
<1>3. actor' \in [Shards -> Closure \cup {None}]
  BY <1>2 DEF Send, TypeOK
<1> DEFINE rec == [call[c] EXCEPT !.sent = TRUE]
<1>4. rec \in CallState
  BY <1>1 DEF CallState
<1>5. call' = [call EXCEPT ![c] = rec]
  BY DEF Send
<1> HIDE DEF rec
<1>6. call' \in [Callers -> CallState]
  BY <1>4, <1>5 DEF TypeOK
<1> QED BY <1>3, <1>6 DEF Send, TypeOK

LEMMA CancelTyped ==
    ASSUME TypeOK, NEW c \in Callers, Cancel(c)
    PROVE  TypeOK'
<1>1. call' \in [Callers -> CallState]
  BY ReturnTyped DEF Cancel
<1>2. ASSUME NEW s \in Shards, actor[s] # None
      PROVE  [actor[s] EXCEPT !.by = None] \in Closure
  BY <1>2 DEF TypeOK, Closure
<1>3. actor' \in [Shards -> Closure \cup {None}]
  BY <1>2 DEF Cancel, TypeOK
<1> QED BY <1>1, <1>3 DEF Cancel, TypeOK

----------------------------------------------------------------------------
(* What the steps change.                                                  *)

OthersKept(c) == \A d \in Callers : d # c => call'[d] = call[d]

ShardsKept(s) == \A t \in Shards : t # s => actor'[t] = actor[t]

TaskKept(c) ==
    /\ call'[c].stage = call[c].stage /\ call'[c].op = call[c].op
    /\ call'[c].id = call[c].id /\ call'[c].row = call[c].row
    /\ call'[c].shard = call[c].shard /\ call'[c].seen = call[c].seen
    /\ call'[c].before = call[c].before /\ call'[c].code = call[c].code

RowsGrow ==
    \A i \in Ids : items[i] # None =>
        /\ items'[i] # None /\ items'[i].key = items[i].key
        /\ items'[i].createdBy = items[i].createdBy
        /\ kind = "episodes" /\ items[i].published => items'[i].published

\* The closure of shard s writes its row.
Writes(s) ==
    /\ actor[s].stage = "direct" /\ actor[s].op \in {"create", "update"}
    /\ actor[s].id \in Ids /\ actor[s].row \in Row
    /\ items' = [items EXCEPT ![actor[s].id] = actor[s].row]
    /\ actor[s].op = "create" => items[actor[s].id] = None /\ ~Refused(s, actor[s])
    /\ actor[s].op = "update" => UpdateOf(actor[s].id, actor[s].row)

LEMMA BeginEffect ==
    ASSUME TypeOK, NEW c \in Callers, NEW op, NEW stage, NEW id, NEW row, NEW shard,
           Begins(c, op, stage, id, row, shard)
    PROVE  /\ Idle(c) /\ items' = items /\ actor' = actor /\ kind' = kind /\ OthersKept(c)
           /\ call'[c].stage = stage /\ call'[c].op = op /\ call'[c].id = id
           /\ call'[c].row = row /\ call'[c].shard = shard /\ call'[c].seen = {}
           /\ call'[c].before = (IF op \in {"list", "find"} THEN Present ELSE {})
           /\ call'[c].sent = call[c].sent /\ call'[c].reply = call[c].reply
<1> DEFINE before == IF op \in {"list", "find"} THEN Present ELSE {}
           rec == [call[c] EXCEPT !.stage = stage, !.op = op, !.id = id, !.row = row,
                       !.shard = shard, !.seen = {}, !.code = "ok", !.before = before]
<1>1. call' = [call EXCEPT ![c] = rec] /\ Idle(c) /\ items' = items /\ actor' = actor
      /\ kind' = kind
  BY DEF Begins, Begin
<1>2. call[c] \in CallState
  BY DEF TypeOK
<1>3. /\ rec.stage = stage /\ rec.op = op /\ rec.id = id /\ rec.row = row
      /\ rec.shard = shard /\ rec.seen = {} /\ rec.before = before
      /\ rec.sent = call[c].sent /\ rec.reply = call[c].reply
  <2> HIDE DEF before
  <2> QED BY <1>2 DEF CallState
<1> HIDE DEF rec
<1>4. call'[c] = rec /\ OthersKept(c)
  BY <1>1 DEF TypeOK, OthersKept
<1> QED BY <1>1, <1>3, <1>4

Went(c, stage, shard, seen) ==
    /\ OthersKept(c)
    /\ call'[c].stage = stage /\ call'[c].shard = shard /\ call'[c].seen = seen
    /\ call'[c].sent = FALSE /\ call'[c].reply = None
    /\ call'[c].op = call[c].op /\ call'[c].id = call[c].id
    /\ call'[c].row = call[c].row /\ call'[c].before = call[c].before

Returned(c, seen, code) ==
    /\ OthersKept(c)
    /\ call'[c].stage = "idle" /\ call'[c].sent = FALSE /\ call'[c].reply = None
    /\ call'[c].seen = seen /\ call'[c].code = code /\ call'[c].op = call[c].op
    /\ code = "error" => call'[c].id = None
    /\ code # "error" =>
          /\ call'[c].id = call[c].id /\ call'[c].row = call[c].row
          /\ call'[c].before = call[c].before

LEMMA GoEffect ==
    ASSUME TypeOK, NEW c \in Callers, NEW stage, NEW shard, NEW seen,
           Go(c, stage, shard, seen)
    PROVE  Went(c, stage, shard, seen)
<1> DEFINE rec == [call[c] EXCEPT !.stage = stage, !.shard = shard, !.seen = seen,
                                  !.sent = FALSE, !.reply = None]
<1>1. call' = [call EXCEPT ![c] = rec]
  BY DEF Go
<1>2. call[c] \in CallState
  BY DEF TypeOK
<1>3. /\ rec.stage = stage /\ rec.shard = shard /\ rec.seen = seen
      /\ rec.sent = FALSE /\ rec.reply = None
      /\ rec.op = call[c].op /\ rec.id = call[c].id
      /\ rec.row = call[c].row /\ rec.before = call[c].before
  BY <1>2 DEF CallState
<1> HIDE DEF rec
<1>4. call'[c] = rec /\ OthersKept(c)
  BY <1>1 DEF TypeOK, OthersKept
<1> QED BY <1>3, <1>4 DEF Went

LEMMA ReturnEffect ==
    ASSUME TypeOK, NEW c \in Callers, NEW seen, NEW code, Return(c, seen, code)
    PROVE  Returned(c, seen, code)
<1> DEFINE id == IF code = "error" THEN None ELSE call[c].id
           row == IF code = "error" THEN None ELSE call[c].row
           before == IF code = "error" THEN {} ELSE call[c].before
           rec == [call[c] EXCEPT !.stage = "idle", !.shard = 1, !.sent = FALSE,
                       !.reply = None, !.seen = seen, !.code = code, !.id = id,
                       !.row = row, !.before = before]
<1>1. call' = [call EXCEPT ![c] = rec]
  BY DEF Return
<1>2. call[c] \in CallState
  BY DEF TypeOK
<1>3. /\ rec.stage = "idle" /\ rec.sent = FALSE /\ rec.reply = None
      /\ rec.seen = seen /\ rec.code = code /\ rec.op = call[c].op
      /\ rec.id = id /\ rec.row = row /\ rec.before = before
  <2> HIDE DEF id, row, before
  <2> QED BY <1>2 DEF CallState
<1> HIDE DEF rec
<1>4. call'[c] = rec /\ OthersKept(c)
  BY <1>1 DEF TypeOK, OthersKept
<1> HIDE DEF id, row, before
<1>5. /\ code = "error" => id = None
      /\ code # "error" => id = call[c].id /\ row = call[c].row /\ before = call[c].before
  BY DEF id, row, before
<1> QED BY <1>3, <1>4, <1>5 DEF Returned

LEMMA SendEffect ==
    ASSUME TypeOK, NEW c \in Callers, Send(c)
    PROVE  /\ ~Idle(c) /\ ~call[c].sent /\ call[c].shard \in Shards
           /\ actor[call[c].shard] = None
           /\ items' = items /\ kind' = kind /\ OthersKept(c) /\ TaskKept(c)
           /\ call'[c].sent = TRUE /\ call'[c].reply = call[c].reply
           /\ ShardsKept(call[c].shard)
           /\ actor'[call[c].shard].by = c
           /\ actor'[call[c].shard].stage = call[c].stage
           /\ actor'[call[c].shard].op = call[c].op
           /\ actor'[call[c].shard].id = call[c].id
           /\ actor'[call[c].shard].row = call[c].row
<1> DEFINE f == [by |-> c, stage |-> call[c].stage, op |-> call[c].op, id |-> call[c].id,
                 row |-> call[c].row]
           rec == [call[c] EXCEPT !.sent = TRUE]
<1>1. /\ ~Idle(c) /\ ~call[c].sent /\ actor[call[c].shard] = None
      /\ items' = items /\ kind' = kind
      /\ actor' = [actor EXCEPT ![call[c].shard] = f]
      /\ call' = [call EXCEPT ![c] = rec]
  BY DEF Send
<1>2. call[c] \in CallState /\ call[c].shard \in Shards
  BY DEF TypeOK, CallState
<1>3. /\ rec.stage = call[c].stage /\ rec.op = call[c].op /\ rec.id = call[c].id
      /\ rec.row = call[c].row /\ rec.shard = call[c].shard /\ rec.seen = call[c].seen
      /\ rec.before = call[c].before /\ rec.code = call[c].code
      /\ rec.sent = TRUE /\ rec.reply = call[c].reply
  BY <1>2 DEF CallState
<1>4. /\ f.by = c /\ f.stage = call[c].stage /\ f.op = call[c].op /\ f.id = call[c].id
      /\ f.row = call[c].row
  OBVIOUS
<1> HIDE DEF rec, f
<1>5. call'[c] = rec /\ OthersKept(c)
  BY <1>1 DEF TypeOK, OthersKept
<1>6. actor'[call[c].shard] = f /\ ShardsKept(call[c].shard)
  BY <1>1, <1>2 DEF TypeOK, ShardsKept
<1> QED BY <1>1, <1>2, <1>3, <1>4, <1>5, <1>6 DEF TaskKept

\* A closure of c that runs on is nobody's.
LEMMA CancelEffect ==
    ASSUME TypeOK, NEW c \in Callers, Cancel(c)
    PROVE  /\ ~Idle(c) /\ items' = items /\ kind' = kind /\ OthersKept(c)
           /\ call'[c].stage = "idle" /\ call'[c].sent = FALSE /\ call'[c].reply = None
           /\ call'[c].seen = {} /\ call'[c].code = "error" /\ call'[c].op = call[c].op
           /\ call'[c].id = None
           /\ \A s \in Shards :
                 IF actor[s] # None /\ actor[s].by = c
                 THEN /\ actor'[s].by = None /\ actor'[s].stage = actor[s].stage
                      /\ actor'[s].op = actor[s].op /\ actor'[s].id = actor[s].id
                      /\ actor'[s].row = actor[s].row
                 ELSE actor'[s] = actor[s]
<1>1. Return(c, {}, "error") /\ ~Idle(c) /\ items' = items /\ kind' = kind
  BY DEF Cancel
<1>2. ASSUME NEW s \in Shards, actor[s] # None, actor[s].by = c
      PROVE  /\ actor'[s].by = None /\ actor'[s].stage = actor[s].stage
             /\ actor'[s].op = actor[s].op /\ actor'[s].id = actor[s].id
             /\ actor'[s].row = actor[s].row
  <2>1. actor'[s] = [actor[s] EXCEPT !.by = None] /\ actor[s] \in Closure
    BY <1>2 DEF Cancel, TypeOK
  <2> QED BY <2>1 DEF Closure
<1>3. ASSUME NEW s \in Shards, ~(actor[s] # None /\ actor[s].by = c)
      PROVE  actor'[s] = actor[s]
  BY <1>3 DEF Cancel
<1>4. Returned(c, {}, "error")
  BY <1>1, ReturnEffect
<1> QED BY <1>1, <1>2, <1>3, <1>4 DEF Returned

LEMMA ExecEffect ==
    ASSUME TypeOK, NEW s \in Shards, ClosureOK(s), UpdatesFit, CreatesFresh, Exec(s)
    PROVE  /\ actor[s] # None /\ actor'[s] = None /\ ShardsKept(s) /\ kind' = kind
           /\ actor[s].by \in Callers \cup {None} /\ OthersKept(actor[s].by)
           /\ actor[s].by # None =>
                 /\ TaskKept(actor[s].by) /\ call'[actor[s].by].sent = call[actor[s].by].sent
                 /\ call'[actor[s].by].reply = AnswerTo(s, actor[s])
           /\ AnswerTo(s, actor[s]) # None
           /\ items' = items \/ Writes(s)
           /\ actor[s].stage = "direct" /\ actor[s].op = "create" /\ ~Refused(s, actor[s])
                 => Writes(s)
           /\ actor[s].stage = "direct" /\ actor[s].op = "update" => Writes(s)
           /\ RowsGrow
<1> DEFINE f == actor[s]
           answer == AnswerTo(s, f)
<1>1. f \in Closure /\ f # None /\ Run(s, f, answer)
  BY DEF TypeOK, Exec
<1>2. f.stage \in {"walk", "direct"} /\ f.by \in Callers \cup {None}
  BY <1>1 DEF Closure
<1>3. TaskOK(f.stage, f.op, f.id, f.row, s)
  BY <1>1 DEF ClosureOK
<1>4. /\ answer \in Answer /\ answer # None
      /\ f.stage = "direct" /\ f.op = "create" => (answer.code = "ok" <=> ~Refused(s, f))
      /\ f.stage = "direct" /\ f.op = "update" => (answer.code = "ok" <=> items[f.id] # None)
  BY <1>2, Answers, NoneAssumption
<1>5. actor' = [actor EXCEPT ![s] = None] /\ kind' = kind
  BY <1>1 DEF Run
<1>6. actor'[s] = None /\ ShardsKept(s)
  BY <1>5 DEF TypeOK, ShardsKept
<1>7. /\ f.stage = "direct" /\ f.op \in {"create", "update"} => f.id \in Ids /\ f.row \in Row
      /\ f.op = "update" => UpdateOf(f.id, f.row)
      /\ f.op = "create" => items[f.id] = None
  BY <1>1, <1>3 DEF TaskOK, UpdatesFit, CreatesFresh
<1>8. /\ f.stage = "direct" /\ f.op = "create" /\ ~Refused(s, f) => Writes(s)
      /\ f.stage = "direct" /\ f.op = "update" => Writes(s)
  <2>1. f.op = "update" => items[f.id] # None
    BY <1>7 DEF UpdateOf
  <2> HIDE DEF answer
  <2> QED BY <1>1, <1>4, <1>7, <2>1 DEF Run, Writes
<1>9. items' = items \/ Writes(s)
  <2>1. f.stage = "direct" => f.op \in {"create", "find", "update"}
    BY <1>3 DEF TaskOK
  <2>2. CASE f.stage = "direct" /\ f.op = "create" /\ Refused(s, f)
    BY <1>1, <1>4, <2>2 DEF Run
  <2>3. CASE f.stage # "direct" \/ f.op = "find"
    BY <1>1, <2>3 DEF Run
  <2> QED BY <1>8, <2>1, <2>2, <2>3, <1>2
<1>10. OthersKept(f.by)
  <2>1. CASE f.by = None
    BY <1>1, <2>1 DEF Run, OthersKept
  <2>2. CASE f.by # None
    BY <1>1, <1>2, <2>2 DEF Run, OthersKept, TypeOK
  <2> QED BY <2>1, <2>2
<1>11. ASSUME f.by # None
       PROVE  TaskKept(f.by) /\ call'[f.by].sent = call[f.by].sent /\ call'[f.by].reply = answer
  <2> DEFINE rec == [call[f.by] EXCEPT !.reply = answer]
  <2>1. call' = [call EXCEPT ![f.by] = rec] /\ f.by \in Callers
    BY <1>1, <1>2, <1>11 DEF Run
  <2>2. call[f.by] \in CallState
    BY <2>1 DEF TypeOK
  <2>3. /\ rec.stage = call[f.by].stage /\ rec.op = call[f.by].op /\ rec.id = call[f.by].id
        /\ rec.row = call[f.by].row /\ rec.shard = call[f.by].shard
        /\ rec.seen = call[f.by].seen /\ rec.before = call[f.by].before
        /\ rec.code = call[f.by].code /\ rec.sent = call[f.by].sent /\ rec.reply = answer
    BY <2>2 DEF CallState
  <2> HIDE DEF rec, f
  <2>4. call'[f.by] = rec
    BY <2>1 DEF TypeOK
  <2> QED BY <2>3, <2>4 DEF TaskKept
<1>12. RowsGrow
  <2>1. CASE items' = items
    BY <2>1 DEF RowsGrow
  <2>2. CASE Writes(s)
    <3>1. /\ items' = [items EXCEPT ![f.id] = f.row] /\ f.id \in Ids /\ f.row \in Row
          /\ f.op = "create" \/ f.op = "update"
      BY <2>2 DEF Writes
    <3>2. ASSUME NEW i \in Ids, items[i] # None, i = f.id
          PROVE  /\ items'[i] # None /\ items'[i].key = items[i].key
                 /\ items'[i].createdBy = items[i].createdBy
                 /\ kind = "episodes" /\ items[i].published => items'[i].published
      <4>1. UpdateOf(f.id, f.row)
        BY <1>7, <3>1, <3>2
      <4>2. items'[i] = f.row /\ f.row # None
        BY <3>1, <3>2, NoneAssumption DEF TypeOK
      <4> HIDE DEF f
      <4> QED BY <3>2, <4>1, <4>2 DEF UpdateOf
    <3>3. ASSUME NEW i \in Ids, i # f.id
          PROVE  items'[i] = items[i]
      BY <3>1, <3>3 DEF TypeOK
    <3> HIDE DEF f
    <3> QED BY <3>2, <3>3 DEF RowsGrow
  <2> QED BY <1>9, <2>1, <2>2
<1> HIDE DEF answer
<1>13. f.by # None => TaskKept(f.by) /\ call'[f.by].sent = call[f.by].sent
                      /\ call'[f.by].reply = answer
  BY <1>11
<1> QED BY <1>1, <1>2, <1>4, <1>5, <1>6, <1>8, <1>9, <1>10, <1>12, <1>13 DEF answer

LEMMA NothingWritten ==
    ASSUME items' = items
    PROVE  RowsGrow
BY DEF RowsGrow

LEMMA PresentGrows ==
    ASSUME RowsGrow
    PROVE  Present \subseteq Present'
BY DEF RowsGrow, Present

LEMMA MatchesKept ==
    ASSUME RowsGrow, NEW c \in Callers, call'[c].row = call[c].row, NEW i \in Present
    PROVE  Matches(i, c)' <=> Matches(i, c)
<1>1. i \in Ids /\ items[i] # None
  BY DEF Present
<1>2. items'[i].key = items[i].key
  BY <1>1 DEF RowsGrow
<1> QED BY <1>2 DEF Matches

LEMMA UpdatedKept ==
    ASSUME RowsGrow, kind' = kind, NEW id, NEW row, Updated(id, row)
    PROVE  /\ id \in Present' /\ items'[id].key = row.key
           /\ items'[id].createdBy = row.createdBy
           /\ kind' = "episodes" => items'[id].published
BY DEF RowsGrow, Updated, Present

LEMMA SameIsKept ==
    ASSUME NEW c \in Callers, call'[c] = call[c]
    PROVE  TaskKept(c) /\ call'[c].reply = call[c].reply /\ call'[c].sent = call[c].sent
BY DEF TaskKept

\* What a call knows stays so when others write.
LEMMA ReplyKept ==
    ASSUME RowsGrow, kind' = kind, NEW c \in Callers, TaskKept(c),
           call'[c].reply = call[c].reply, CallOK(c), ReplyTrue(c), WalkTrue(c)
    PROVE  ReplyTrue(c)'
<1> SUFFICES ASSUME call[c].reply # None
             PROVE  ReplyTrue(c)'
  BY DEF ReplyTrue
<1>1. ~Idle(c) /\ call[c].before \subseteq Present
  BY DEF CallOK, WalkTrue
<1>2. Present \subseteq Present'
  BY PresentGrows
<1>3. call'[c].row = call[c].row
  BY DEF TaskKept
<1>4. \A i \in Present : Matches(i, c)' <=> Matches(i, c)
  BY <1>3, MatchesKept
<1> DEFINE m == call[c]
           n == call'[c]
<1>5. /\ n.stage = m.stage /\ n.op = m.op /\ n.id = m.id /\ n.row = m.row
      /\ n.shard = m.shard /\ n.before = m.before /\ n.reply = m.reply
  BY DEF TaskKept
<1>6. n.reply.rows \subseteq Present'
  BY <1>2, <1>5 DEF ReplyTrue
<1>7. n.op # "list" => \A i \in n.reply.rows : Matches(i, c)'
  BY <1>4, <1>5 DEF ReplyTrue
<1>8. n.stage = "direct" /\ n.op = "create" =>
         \/ /\ n.reply.code = "ok"
            /\ n.id \in Present' /\ items'[n.id].key = n.row.key
         \/ n.reply.code = "conflict" /\ \E i \in Present' : Matches(i, c)'
  <2> SUFFICES ASSUME n.stage = "direct" /\ n.op = "create"
               PROVE  \/ /\ n.reply.code = "ok"
                         /\ n.id \in Present' /\ items'[n.id].key = n.row.key
                      \/ n.reply.code = "conflict" /\ \E i \in Present' : Matches(i, c)'
    OBVIOUS
  <2>1. CASE m.reply.code = "ok" /\ m.id \in Present /\ items[m.id].key = m.row.key
    BY <1>2, <1>5, <2>1 DEF RowsGrow, Present
  <2>2. CASE m.reply.code = "conflict" /\ \E i \in Present : Matches(i, c)
    BY <1>2, <1>4, <1>5, <2>2
  <2> QED BY <1>5, <2>1, <2>2 DEF ReplyTrue
<1>9. n.stage = "direct" /\ n.op = "update" =>
         n.reply.code = "ok" /\ Updated(call[c].id, call[c].row)'
  <2> SUFFICES ASSUME n.stage = "direct", n.op = "update"
               PROVE  n.reply.code = "ok" /\ Updated(call[c].id, call[c].row)'
    OBVIOUS
  <2>1. m.reply.code = "ok" /\ Updated(m.id, m.row)
    BY <1>5 DEF ReplyTrue
  <2> QED BY <1>5, <2>1, UpdatedKept DEF Updated
<1>10. n.stage = "direct" /\ n.op = "find" =>
          \/ n.reply.code = "ok" /\ n.reply.rows # {}
          \/ n.reply.code = "notfound" /\ \A i \in n.before : ~Matches(i, c)'
  BY <1>1, <1>4, <1>5 DEF ReplyTrue
<1>11. n.stage = "walk" => \A i \in n.before :
          ShardOf[i] = n.shard /\ (n.op # "list" => Matches(i, c)') => i \in n.reply.rows
  BY <1>1, <1>4, <1>5 DEF ReplyTrue
<1> HIDE DEF m
<1> QED BY <1>6, <1>7, <1>8, <1>9, <1>10, <1>11 DEF ReplyTrue

LEMMA WalkKept ==
    ASSUME RowsGrow, NEW c \in Callers, TaskKept(c), WalkTrue(c)
    PROVE  WalkTrue(c)'
<1> SUFFICES ASSUME ~Idle(c)
             PROVE  WalkTrue(c)'
  BY DEF WalkTrue, TaskKept, Idle
<1>1. Present \subseteq Present' /\ call'[c].row = call[c].row
  BY PresentGrows DEF TaskKept
<1>2. \A i \in Present : Matches(i, c)' <=> Matches(i, c)
  BY <1>1, MatchesKept
<1>3. call[c].before \subseteq Present /\ call[c].seen \subseteq Present
  BY DEF WalkTrue
<1> QED BY <1>1, <1>2, <1>3 DEF WalkTrue, TaskKept

LEMMA AnswerKept ==
    ASSUME RowsGrow, kind' = kind, NEW c \in Callers, TaskKept(c), AnswerTrue(c)
    PROVE  AnswerTrue(c)'
<1> SUFFICES ASSUME Idle(c)
             PROVE  AnswerTrue(c)'
  BY DEF AnswerTrue, TaskKept, Idle
<1>1. Present \subseteq Present' /\ call'[c].row = call[c].row
  BY PresentGrows DEF TaskKept
<1>2. \A i \in Present : Matches(i, c)' <=> Matches(i, c)
  BY <1>1, MatchesKept
<1> DEFINE m == call[c]
           n == call'[c]
<1>3. /\ n.op = m.op /\ n.code = m.code /\ n.id = m.id /\ n.row = m.row
      /\ n.seen = m.seen /\ n.before = m.before
  BY DEF TaskKept
<1>4. n.op = "create" /\ n.code = "conflict" => \E i \in Present' : Matches(i, c)'
  BY <1>1, <1>2, <1>3 DEF AnswerTrue
<1>5. n.op = "create" /\ n.code = "ok" => n.id \in Present' /\ items'[n.id].key = n.row.key
  BY <1>1, <1>3 DEF AnswerTrue, RowsGrow, Present
<1>6. /\ n.op = "update" /\ n.code = "ok" => Updated(call[c].id, call[c].row)'
      /\ n.op = "update" => n.code \in {"ok", "error"}
  <2>1. ASSUME n.op = "update", n.code = "ok"
        PROVE  Updated(call[c].id, call[c].row)'
    <3>1. Updated(m.id, m.row)
      BY <1>3, <2>1 DEF AnswerTrue
    <3> QED BY <1>3, <3>1, UpdatedKept DEF Updated
  <2> QED BY <1>3, <2>1 DEF AnswerTrue
<1>7. n.op = "find" /\ n.code = "notfound" =>
         n.before \subseteq Present' /\ \A i \in n.before : ~Matches(i, c)'
  BY <1>1, <1>2, <1>3 DEF AnswerTrue
<1>8. n.op = "find" /\ n.code = "ok" => \E i \in n.seen \cap Present' : Matches(i, c)'
  BY <1>1, <1>2, <1>3 DEF AnswerTrue
<1>9. n.op = "list" /\ n.code = "ok" => n.before \subseteq n.seen /\ n.seen \subseteq Present'
  BY <1>1, <1>3 DEF AnswerTrue
<1> HIDE DEF m
<1> QED BY <1>4, <1>5, <1>6, <1>7, <1>8, <1>9 DEF AnswerTrue

LEMMA KnowsKept ==
    ASSUME RowsGrow, kind' = kind, NEW c \in Callers, call'[c] = call[c], Knows(c)
    PROVE  Knows(c)'
<1>1. TaskKept(c) /\ call'[c].reply = call[c].reply /\ call'[c].sent = call[c].sent
  BY SameIsKept
<1>2. CallOK(c)'
  BY DEF Knows, CallOK, Idle, TaskOK, Single
<1>3. ReplyTrue(c)' /\ WalkTrue(c)' /\ AnswerTrue(c)'
  BY <1>1, ReplyKept, WalkKept, AnswerKept DEF Knows
<1> QED BY <1>2, <1>3 DEF Knows

----------------------------------------------------------------------------
(* The answers stay true, action by action.                                *)

LEMMA BeginAnswers ==
    ASSUME TypeOK, AnswersInv, NEW c \in Callers, Beginning(c)
    PROVE  AnswersInv'
<1>1. PICK op, stage, id, row, shard : Begins(c, op, stage, id, row, shard)
  BY BeginCases
<1>2. /\ Idle(c) /\ items' = items /\ actor' = actor /\ kind' = kind /\ OthersKept(c)
      /\ call'[c].stage = stage /\ call'[c].op = op /\ call'[c].id = id
      /\ call'[c].row = row /\ call'[c].shard = shard /\ call'[c].seen = {}
      /\ call'[c].before = (IF op \in {"list", "find"} THEN Present ELSE {})
      /\ call'[c].sent = call[c].sent /\ call'[c].reply = call[c].reply
  BY <1>1, BeginEffect
<1>3. ~call[c].sent /\ call[c].reply = None
  BY <1>2 DEF AnswersInv, Knows, CallOK
<1>4. TaskOK(stage, op, id, row, shard) /\ (stage = "walk" => shard = 1)
  BY <1>1 DEF Begins
<1>5. /\ op = "create" => Fresh(id) /\ id \in Ids /\ row.createdBy = c
      /\ op = "update" => UpdateOf(id, row)
  BY <1>1 DEF Begins
<1>6. Knows(c)'
  <2>1. stage \in {"walk", "direct"} /\ ~Idle(c)'
    BY <1>2, <1>4 DEF TaskOK, Idle
  <2>2. TaskOK(stage, op, id, row, shard)'
    BY <1>2, <1>4 DEF TaskOK, Single
  <2>3. CallOK(c)'
    BY <1>2, <1>3, <1>5, <2>1, <2>2 DEF CallOK
  <2>4. \A i \in Ids : ~(ShardOf[i] < 1)
    BY HomeShard, MemoryAssumption, SMT DEF Shards
  <2>5. Present' = Present /\ call'[c].before \subseteq Present /\ Present \subseteq Ids
    BY <1>2 DEF Present
  <2>6. WalkTrue(c)'
    BY <1>2, <1>4, <2>4, <2>5 DEF WalkTrue
  <2> QED BY <1>2, <1>3, <2>1, <2>3, <2>6 DEF Knows, ReplyTrue, AnswerTrue
<1>7. ASSUME NEW d \in Callers
      PROVE  Knows(d)'
  BY <1>2, <1>6, KnowsKept, NothingWritten DEF AnswersInv, OthersKept
<1>8. ASSUME NEW s \in Shards
      PROVE  ClosureOK(s)'
  <2>1. ClosureOK(s)
    BY DEF AnswersInv
  <2>2. actor[s] # None /\ actor[s].by # None => actor[s].by # c /\ actor[s].by \in Callers
    BY <1>3, <2>1 DEF ClosureOK, TypeOK, Closure
  <2> QED BY <1>2, <2>1, <2>2 DEF ClosureOK, OthersKept, TaskOK, Single
<1>9. UpdatesFit'
  BY <1>2, <1>5 DEF AnswersInv, UpdatesFit, UpdateOf, OthersKept, Idle
<1>10. CreatesFresh'
  <2>1. op = "create" => items[id] = None
    BY <1>5 DEF Fresh
  <2> QED BY <1>2, <2>1 DEF AnswersInv, CreatesFresh, OthersKept, Idle
<1>11. IdsApart'
  <2>1. op = "create" => /\ \A d \in Callers : call[d].id # id
                         /\ \A s \in Shards : actor[s] # None => actor[s].id # id
    BY <1>5 DEF Fresh
  <2> QED BY <1>2, <2>1 DEF AnswersInv, IdsApart, OthersKept
<1> QED BY <1>7, <1>8, <1>9, <1>10, <1>11 DEF AnswersInv

LEMMA SendAnswers ==
    ASSUME TypeOK, AnswersInv, NEW c \in Callers, Send(c)
    PROVE  AnswersInv'
<1> DEFINE z == call[c].shard
<1>1. /\ ~Idle(c) /\ ~call[c].sent /\ z \in Shards /\ actor[z] = None
      /\ items' = items /\ kind' = kind /\ OthersKept(c) /\ TaskKept(c)
      /\ call'[c].sent = TRUE /\ call'[c].reply = call[c].reply /\ ShardsKept(z)
      /\ actor'[z].by = c /\ actor'[z].stage = call[c].stage
      /\ actor'[z].op = call[c].op /\ actor'[z].id = call[c].id
      /\ actor'[z].row = call[c].row
  BY SendEffect
<1> HIDE DEF z
<1>2. CallOK(c) /\ ReplyTrue(c) /\ WalkTrue(c) /\ AnswerTrue(c)
  BY DEF AnswersInv, Knows
<1>3. /\ call[c].reply = None
      /\ TaskOK(call[c].stage, call[c].op, call[c].id, call[c].row, z)
  BY <1>1, <1>2 DEF CallOK, z
<1>4. Knows(c)'
  <2>1. CallOK(c)'
    BY <1>1, <1>2 DEF CallOK, TaskKept, Idle, TaskOK, Single
  <2>2. ReplyTrue(c)' /\ WalkTrue(c)' /\ AnswerTrue(c)'
    BY <1>1, <1>2, NothingWritten, ReplyKept, WalkKept, AnswerKept
  <2> QED BY <2>1, <2>2 DEF Knows
<1>5. ASSUME NEW d \in Callers
      PROVE  Knows(d)'
  BY <1>1, <1>4, KnowsKept, NothingWritten DEF AnswersInv, OthersKept
<1>6. \A s \in Shards : actor[s] # None => actor[s].by # c
  BY <1>1, NoneAssumption DEF AnswersInv, ClosureOK
<1>7. ASSUME NEW s \in Shards
      PROVE  ClosureOK(s)'
  <2>1. CASE s = z
    <3>1. call'[c].shard = s
      BY <1>1, <2>1 DEF TaskKept, z
    <3>2. TaskOK(call[c].stage, call[c].op, call[c].id, call[c].row, s)
      BY <1>3, <2>1
    <3> QED BY <1>1, <1>3, <2>1, <3>1, <3>2 DEF ClosureOK, TaskKept, TaskOK, Single
  <2>2. CASE s # z
    <3>1. ClosureOK(s) /\ actor'[s] = actor[s]
      BY <1>1, <2>2 DEF AnswersInv, ShardsKept
    <3>2. actor[s] # None /\ actor[s].by # None => actor[s].by # c /\ actor[s].by \in Callers
      BY <1>6 DEF TypeOK, Closure
    <3> QED BY <1>1, <3>1, <3>2 DEF ClosureOK, OthersKept, TaskOK, Single
  <2> QED BY <2>1, <2>2
<1>8. UpdatesFit'
  BY <1>1 DEF AnswersInv, UpdatesFit, UpdateOf, OthersKept, ShardsKept, TaskKept, Idle
<1>9. CreatesFresh'
  <2>1. call[c].op = "create" => items[call[c].id] = None
    BY <1>1, <1>3 DEF AnswersInv, CreatesFresh
  <2> QED BY <1>1, <1>3, <2>1 DEF AnswersInv, CreatesFresh, OthersKept, ShardsKept, TaskKept, Idle
<1>10. IdsApart'
  <2>1. \A d \in Callers : call'[d].op = call[d].op /\ call'[d].id = call[d].id
    BY <1>1 DEF OthersKept, TaskKept
  <2>2. call[c].op = "create" => call[c].id # None
    BY <1>3, NoneAssumption DEF TaskOK
  <2>3. ASSUME NEW s \in Shards, NEW d \in Callers, actor'[s] # None, actor'[s].op = "create",
               actor'[s].by # d, call'[d].op = "create"
        PROVE  actor'[s].id # call'[d].id
    <3>1. CASE s = z
      <4>1. /\ actor'[s].id = call[c].id /\ call[c].op = "create"
            /\ d # c /\ call[d].op = "create" /\ call'[d].id = call[d].id
        BY <1>1, <2>1, <2>3, <3>1
      <4> QED BY <2>2, <4>1 DEF AnswersInv, IdsApart
    <3>2. CASE s # z
      <4>1. actor'[s] = actor[s] /\ call[d].op = "create" /\ call'[d].id = call[d].id
        BY <1>1, <2>1, <2>3, <3>2 DEF ShardsKept
      <4> QED BY <2>3, <4>1 DEF AnswersInv, IdsApart
    <3> QED BY <3>1, <3>2
  <2>4. ASSUME NEW s \in Shards, s # z, actor'[s] # None, actor'[s].op = "create",
               actor'[z].op = "create"
        PROVE  actor'[s].id # actor'[z].id
    <3>1. actor'[s] = actor[s]
      BY <1>1, <2>4 DEF ShardsKept
    <3>2. /\ actor[s] # None /\ actor[s].op = "create" /\ actor[s].by # c
          /\ call[c].op = "create" /\ actor'[z].id = call[c].id
      BY <1>1, <1>6, <2>4, <3>1
    <3> QED BY <3>1, <3>2 DEF AnswersInv, IdsApart
  <2>5. ASSUME NEW s \in Shards, NEW t \in Shards, s # t,
               actor'[s] # None, actor'[s].op = "create",
               actor'[t] # None, actor'[t].op = "create"
        PROVE  actor'[s].id # actor'[t].id
    BY <1>1, <2>4, <2>5 DEF AnswersInv, IdsApart, ShardsKept
  <2>6. ASSUME NEW d \in Callers, NEW e \in Callers, d # e, call'[d].op = "create",
               call'[e].op = "create", call'[d].id # None
        PROVE  call'[d].id # call'[e].id
    BY <2>1, <2>6 DEF AnswersInv, IdsApart
  <2> QED BY <2>3, <2>5, <2>6 DEF IdsApart
<1> QED BY <1>5, <1>7, <1>8, <1>9, <1>10 DEF AnswersInv

LEMMA CancelAnswers ==
    ASSUME TypeOK, AnswersInv, NEW c \in Callers, Cancel(c)
    PROVE  AnswersInv'
<1>1. /\ ~Idle(c) /\ items' = items /\ kind' = kind /\ OthersKept(c)
      /\ call'[c].stage = "idle" /\ call'[c].sent = FALSE /\ call'[c].reply = None
      /\ call'[c].seen = {} /\ call'[c].code = "error" /\ call'[c].op = call[c].op
      /\ call'[c].id = None
  BY CancelEffect
<1>2. ASSUME NEW s \in Shards
      PROVE  /\ actor[s] = None => actor'[s] = None
             /\ actor'[s] # None =>
                   /\ actor'[s].stage = actor[s].stage /\ actor'[s].op = actor[s].op
                   /\ actor'[s].id = actor[s].id /\ actor'[s].row = actor[s].row
                   /\ actor'[s].by # c
                   /\ actor'[s].by # None => actor'[s].by = actor[s].by
                   /\ actor'[s].by # actor[s].by => actor[s].by = c
  <2>1. CASE actor[s] # None /\ actor[s].by = c
    BY <2>1, CancelEffect, NoneAssumption
  <2>2. CASE ~(actor[s] # None /\ actor[s].by = c)
    BY <2>2, CancelEffect
  <2> QED BY <2>1, <2>2
<1>3. Knows(c)'
  <2>1. TypeOK => call[c].op \in Ops
    BY DEF TypeOK, CallState
  <2>2. CallOK(c)' /\ ReplyTrue(c)' /\ WalkTrue(c)'
    BY <1>1 DEF CallOK, ReplyTrue, WalkTrue, Idle
  <2>3. AnswerTrue(c)'
    BY <1>1 DEF AnswerTrue
  <2> QED BY <2>2, <2>3 DEF Knows
<1>4. ASSUME NEW d \in Callers
      PROVE  Knows(d)'
  BY <1>1, <1>3, KnowsKept, NothingWritten DEF AnswersInv, OthersKept
<1>5. ASSUME NEW s \in Shards
      PROVE  ClosureOK(s)'
  <2>1. ClosureOK(s) /\ (actor[s] # None => actor[s].by \in Callers \cup {None})
    BY DEF AnswersInv, TypeOK, Closure
  <2> QED BY <1>1, <1>2, <2>1 DEF ClosureOK, OthersKept, TaskOK, Single
<1>6. UpdatesFit'
  BY <1>1, <1>2 DEF AnswersInv, UpdatesFit, UpdateOf, OthersKept, Idle
<1>7. CreatesFresh'
  BY <1>1, <1>2 DEF AnswersInv, CreatesFresh, OthersKept, Idle
<1>8. IdsApart'
  <2>1. ASSUME NEW d \in Callers, NEW e \in Callers, d # e, call'[d].op = "create",
               call'[e].op = "create", call'[d].id # None
        PROVE  call'[d].id # call'[e].id
    BY <1>1, <2>1 DEF AnswersInv, IdsApart, OthersKept
  <2>2. ASSUME NEW s \in Shards, NEW d \in Callers, actor'[s] # None, actor'[s].op = "create",
               actor'[s].by # d, call'[d].op = "create"
        PROVE  actor'[s].id # call'[d].id
    <3>1. actor[s] # None /\ actor[s].op = "create" /\ actor'[s].id = actor[s].id
      BY <1>2, <2>2
    <3>2. CASE d = c
      BY <1>1, <3>1, <3>2, NoneAssumption DEF AnswersInv, ClosureOK, TaskOK
    <3>3. CASE d # c
      BY <1>1, <1>2, <2>2, <3>1, <3>3 DEF AnswersInv, IdsApart, OthersKept
    <3> QED BY <3>2, <3>3
  <2>3. ASSUME NEW s \in Shards, NEW t \in Shards, s # t,
               actor'[s] # None, actor'[s].op = "create",
               actor'[t] # None, actor'[t].op = "create"
        PROVE  actor'[s].id # actor'[t].id
    BY <1>2, <2>3 DEF AnswersInv, IdsApart
  <2> QED BY <2>1, <2>2, <2>3 DEF IdsApart
<1> QED BY <1>4, <1>5, <1>6, <1>7, <1>8 DEF AnswersInv

\* What a call may end with.
LEMMA ReturnKnows ==
    ASSUME TypeOK, NEW c \in Callers, Knows(c), ~Idle(c), items' = items, kind' = kind,
           NEW seen, NEW code \in {"ok", "conflict", "notfound"}, Return(c, seen, code),
           call[c].op = "create" /\ code = "conflict" => \E i \in Present : Matches(i, c),
           call[c].op = "create" /\ code = "ok" =>
               call[c].id \in Present /\ items[call[c].id].key = call[c].row.key,
           call[c].op = "update" => code = "ok" /\ Updated(call[c].id, call[c].row),
           call[c].op = "find" /\ code = "notfound" => \A i \in call[c].before : ~Matches(i, c),
           call[c].op = "find" /\ code = "ok" => \E i \in seen \cap Present : Matches(i, c),
           call[c].op = "list" /\ code = "ok" => call[c].before \subseteq seen /\ seen \subseteq Present
    PROVE  Knows(c)'
<1>1. /\ call'[c].stage = "idle" /\ call'[c].sent = FALSE /\ call'[c].reply = None
      /\ call'[c].seen = seen /\ call'[c].code = code /\ call'[c].op = call[c].op
      /\ call'[c].id = call[c].id /\ call'[c].row = call[c].row
      /\ call'[c].before = call[c].before
  <2>1. Returned(c, seen, code)
    BY ReturnEffect
  <2> QED BY <2>1 DEF Returned
<1>2. Present' = Present /\ \A i \in Ids : Matches(i, c)' <=> Matches(i, c)
  BY <1>1 DEF Present, Matches
<1>3. Present \subseteq Ids /\ call[c].before \subseteq Present
  BY DEF Present, Knows, WalkTrue
<1>4. CallOK(c)' /\ ReplyTrue(c)' /\ WalkTrue(c)'
  BY <1>1 DEF CallOK, ReplyTrue, WalkTrue, Idle
<1>5. AnswerTrue(c)'
  BY <1>1, <1>2, <1>3 DEF AnswerTrue, Updated
<1> QED BY <1>4, <1>5 DEF Knows

LEMMA ReceiveKnows ==
    ASSUME TypeOK, NEW c \in Callers, Knows(c), Receive(c)
    PROVE  Knows(c)'
<1> DEFINE m == call[c]
           seen == m.seen \cup m.reply.rows
<1>1. CallOK(c) /\ ReplyTrue(c) /\ WalkTrue(c)
  BY DEF Knows
<1>2. /\ items' = items /\ kind' = kind
      /\ m.reply # None /\ m.sent /\ ~Idle(c)
      /\ \/ m.stage = "direct" /\ Return(c, m.reply.rows, m.reply.code)
         \/ m.stage = "walk" /\ m.op = "create" /\ seen # {} /\ Return(c, {}, "conflict")
         \/ m.stage = "walk" /\ m.op = "find" /\ seen # {} /\ Return(c, seen, "ok")
         \/ /\ m.stage = "walk" /\ (m.op # "list" => seen = {})
            /\ ~LastShard(c) /\ Go(c, "walk", m.shard + 1, seen)
         \/ /\ m.stage = "walk" /\ m.op = "create" /\ seen = {}
            /\ LastShard(c) /\ Go(c, "direct", ShardOf[m.id], {})
         \/ /\ m.stage = "walk" /\ m.op = "find" /\ seen = {}
            /\ LastShard(c) /\ Return(c, {}, "notfound")
         \/ /\ m.stage = "walk" /\ m.op = "list"
            /\ LastShard(c) /\ Return(c, seen, "ok")
  BY <1>1, ReceiveCases
<1>3. /\ m \in CallState /\ m.reply \in Answer /\ m.shard \in Shards
      /\ TaskOK(m.stage, m.op, m.id, m.row, m.shard)
  BY <1>1, <1>2 DEF TypeOK, CallState, CallOK
<1>4. /\ m.before \subseteq Present /\ m.seen \subseteq Present /\ m.reply.rows \subseteq Present
      /\ Present \subseteq Ids
  BY <1>1, <1>2 DEF WalkTrue, ReplyTrue, Present
<1>5. m.stage = "walk" => m.op \in {"create", "find", "list"} /\ (m.op # "list" => m.seen = {})
  BY <1>1, <1>3 DEF CallOK, TaskOK
<1>6. seen \subseteq Present /\ (m.stage = "walk" /\ m.op # "list" => \A i \in seen : Matches(i, c))
  BY <1>1, <1>2, <1>4, <1>5 DEF ReplyTrue
\* No row of the shards up to this one was missed.
<1>7. ASSUME m.stage = "walk", NEW i \in m.before, ShardOf[i] <= m.shard
      PROVE  (m.op # "list" => Matches(i, c)) => i \in seen
  <2>1. ShardOf[i] \in Nat /\ m.shard \in Nat
    BY <1>3, <1>4, HomeShard, MemoryAssumption, SMT DEF Shards
  <2>2. CASE ShardOf[i] < m.shard
    BY <1>1, <1>2, <1>7, <2>2 DEF WalkTrue
  <2>3. CASE ShardOf[i] = m.shard
    BY <1>1, <1>2, <1>7, <2>3 DEF ReplyTrue
  <2> QED BY <1>7, <2>1, <2>2, <2>3
<1>8. m.shard = NumShards => \A i \in m.before : ShardOf[i] <= m.shard
  BY <1>4, HomeShard, MemoryAssumption, SMT DEF Shards
<1>9. CASE m.stage = "direct" /\ Return(c, m.reply.rows, m.reply.code)
  <2>1. m.op \in {"create", "find", "update"}
    BY <1>3, <1>9 DEF TaskOK
  <2>2. m.reply.code \in {"ok", "conflict", "notfound"}
    BY <1>3 DEF Answer, Codes
  <2>3. /\ m.op = "create" /\ m.reply.code = "conflict" => \E i \in Present : Matches(i, c)
        /\ m.op = "create" /\ m.reply.code = "ok" =>
              m.id \in Present /\ items[m.id].key = m.row.key
        /\ m.op = "update" => m.reply.code = "ok" /\ Updated(m.id, m.row)
        /\ m.op = "find" /\ m.reply.code = "notfound" => \A i \in m.before : ~Matches(i, c)
        /\ m.op = "find" /\ m.reply.code = "ok" =>
              \E i \in m.reply.rows \cap Present : Matches(i, c)
    BY <1>1, <1>2, <1>4, <1>9 DEF ReplyTrue
  <2> QED BY <1>2, <1>9, <2>1, <2>2, <2>3, ReturnKnows
<1>10. CASE m.stage = "walk" /\ m.op = "create" /\ seen # {} /\ Return(c, {}, "conflict")
  <2>1. \E i \in Present : Matches(i, c)
    BY <1>6, <1>10
  <2> QED BY <1>2, <1>10, <2>1, ReturnKnows
<1>11. CASE m.stage = "walk" /\ m.op = "find" /\ seen # {} /\ Return(c, seen, "ok")
  <2>1. \E i \in seen \cap Present : Matches(i, c)
    BY <1>6, <1>11
  <2> QED BY <1>2, <1>11, <2>1, ReturnKnows
<1>12. CASE /\ m.stage = "walk" /\ m.op = "find" /\ seen = {}
            /\ LastShard(c) /\ Return(c, {}, "notfound")
  <2>1. \A i \in m.before : ~Matches(i, c)
    BY <1>7, <1>8, <1>12 DEF LastShard
  <2> QED BY <1>2, <1>12, <2>1, ReturnKnows
<1>13. CASE m.stage = "walk" /\ m.op = "list" /\ LastShard(c) /\ Return(c, seen, "ok")
  <2>1. m.before \subseteq seen
    BY <1>7, <1>8, <1>13 DEF LastShard
  <2> QED BY <1>2, <1>6, <1>13, <2>1, ReturnKnows
<1>14. ASSUME NEW stage \in {"walk", "direct"}, NEW shard, NEW found, Go(c, stage, shard, found),
              m.stage = "walk", m.op # "list" => seen = {},
              \/ /\ stage = "walk" /\ ~LastShard(c) /\ shard = m.shard + 1 /\ found = seen
              \/ /\ stage = "direct" /\ m.op = "create" /\ shard = ShardOf[m.id] /\ found = {}
       PROVE  Knows(c)'
  <2>1. /\ call'[c].stage = stage /\ call'[c].shard = shard /\ call'[c].seen = found
        /\ call'[c].sent = FALSE /\ call'[c].reply = None
        /\ call'[c].op = m.op /\ call'[c].id = m.id
        /\ call'[c].row = m.row /\ call'[c].before = m.before
    <3>1. Went(c, stage, shard, found)
      BY <1>14, GoEffect
    <3> QED BY <3>1 DEF Went
  <2>2. ~Single /\ shard \in Shards
    <3>1. ~Single /\ (m.op = "create" => ShardOf[m.id] \in Shards)
      BY <1>3, <1>14, HomeShard DEF TaskOK
    <3>2. ~LastShard(c) => m.shard + 1 \in Shards
      BY <1>3, MemoryAssumption, SMT DEF Shards, LastShard
    <3> QED BY <1>14, <3>1, <3>2
  <2>3. TaskOK(stage, m.op, m.id, m.row, shard)
    BY <1>3, <1>5, <1>14, <2>2 DEF TaskOK
  <2>4. CallOK(c)'
    <3>1. m.op = "create" => m.row.createdBy = c
      BY <1>1, <1>2 DEF CallOK
    <3>2. stage = "walk" /\ m.op # "list" => found = {}
      BY <1>14
    <3> HIDE DEF m, seen
    <3> QED BY <1>2, <2>1, <2>3, <3>1, <3>2 DEF CallOK, Idle, TaskOK, Single
  <2>5. ~Idle(c)' /\ ReplyTrue(c)' /\ AnswerTrue(c)'
    BY <2>1 DEF ReplyTrue, AnswerTrue, Idle
  <2>6. WalkTrue(c)'
    <3>1. Present' = Present /\ found \subseteq Present
      BY <1>2, <1>6, <1>14 DEF Present
    <3>2. stage = "walk" => \A i \in m.before : ShardOf[i] < shard =>
              IF m.op = "list" THEN i \in found ELSE ~Matches(i, c)
      <4>1. \A i \in m.before : ShardOf[i] \in Nat /\ m.shard \in Nat
        BY <1>3, <1>4, HomeShard, MemoryAssumption, SMT DEF Shards
      <4>2. stage = "walk" => \A i \in m.before : ShardOf[i] < shard => ShardOf[i] <= m.shard
        BY <1>14, <4>1
      <4> QED BY <1>7, <1>14, <4>2
    <3>3. \A i \in Ids : Matches(i, c)' <=> Matches(i, c)
      BY <1>2, <2>1 DEF Matches
    <3> HIDE DEF m, seen
    <3> QED BY <1>4, <2>1, <3>1, <3>2, <3>3 DEF WalkTrue
  <2> QED BY <2>4, <2>5, <2>6 DEF Knows
<1> QED BY <1>2, <1>9, <1>10, <1>11, <1>12, <1>13, <1>14

LEMMA ReceiveAnswers ==
    ASSUME TypeOK, AnswersInv, NEW c \in Callers, Receive(c)
    PROVE  AnswersInv'
<1>1. Knows(c) /\ CallOK(c)
  BY DEF AnswersInv, Knows
<1>2. /\ items' = items /\ actor' = actor /\ kind' = kind
      /\ call[c].reply # None /\ call[c].sent /\ ~Idle(c)
  BY <1>1, ReceiveCases
<1>3. /\ OthersKept(c)
      /\ call'[c].op = call[c].op /\ call'[c].id = call[c].id /\ call'[c].row = call[c].row
      /\ call'[c].stage \in {"walk", "direct"} => call[c].stage = "walk"
  <2>1. call[c].reply.code # "error"
    BY <1>2 DEF TypeOK, CallState, Answer, Codes
  <2>2. ASSUME NEW seen, NEW code, code # "error", Return(c, seen, code)
        PROVE  <1>3!:
    <3>1. Returned(c, seen, code)
      BY <2>2, ReturnEffect
    <3> QED BY <2>2, <3>1 DEF Returned
  <2>3. ASSUME NEW stage, NEW shard, NEW seen, call[c].stage = "walk", Go(c, stage, shard, seen)
        PROVE  <1>3!:
    <3>1. Went(c, stage, shard, seen)
      BY <2>3, GoEffect
    <3> QED BY <2>3, <3>1 DEF Went
  <2>4. \/ \E seen, code : code # "error" /\ Return(c, seen, code)
        \/ call[c].stage = "walk" /\ \E stage, shard, seen : Go(c, stage, shard, seen)
    BY <1>1, <2>1, ReceiveCases
  <2> QED BY <2>2, <2>3, <2>4
<1>4. ASSUME NEW d \in Callers
      PROVE  Knows(d)'
  BY <1>1, <1>2, <1>3, ReceiveKnows, KnowsKept, NothingWritten DEF AnswersInv, OthersKept
<1>5. ASSUME NEW s \in Shards
      PROVE  ClosureOK(s)'
  <2>1. ClosureOK(s)
    BY DEF AnswersInv
  <2>2. actor[s] # None /\ actor[s].by # None => actor[s].by # c /\ actor[s].by \in Callers
    BY <1>2, <2>1 DEF ClosureOK, TypeOK, Closure
  <2> QED BY <1>2, <1>3, <2>1, <2>2 DEF ClosureOK, OthersKept, TaskOK, Single
<1>6. UpdatesFit'
  BY <1>2, <1>3 DEF AnswersInv, UpdatesFit, UpdateOf, OthersKept, Idle
<1>7. CreatesFresh'
  <2>1. call[c].op = "create" /\ ~Idle(c)' => items[call[c].id] = None
    <3>1. call'[c] \in CallState
      BY <1>1, ReceiveTyped DEF TypeOK
    <3>2. ~Idle(c)' => call'[c].stage \in {"walk", "direct"}
      BY <3>1 DEF CallState, Idle
    <3> QED BY <1>2, <1>3, <3>2 DEF AnswersInv, CreatesFresh
  <2> QED BY <1>2, <1>3, <2>1 DEF AnswersInv, CreatesFresh, OthersKept, Idle
<1>8. IdsApart'
  <2>1. \A d \in Callers : call'[d].op = call[d].op /\ call'[d].id = call[d].id
    BY <1>3 DEF OthersKept
  <2> QED BY <1>2, <2>1 DEF AnswersInv, IdsApart
<1> QED BY <1>4, <1>5, <1>6, <1>7, <1>8 DEF AnswersInv

\* The reply of the closure of c is true when it is given.
LEMMA ExecReply ==
    ASSUME TypeOK, AnswersInv, NEW s \in Shards, Exec(s), NEW c \in Callers,
           actor[s].by = c
    PROVE  ReplyTrue(c)'
<1> DEFINE f == actor[s]
           m == call[c]
           answer == AnswerTo(s, f)
           found == Found(s, f)
<1>1. ClosureOK(s) /\ Knows(c) /\ UpdatesFit /\ CreatesFresh
  BY DEF AnswersInv
<1>2. /\ f # None /\ kind' = kind
      /\ TaskKept(c) /\ call'[c].sent = m.sent /\ call'[c].reply = answer
      /\ f.stage = "direct" /\ f.op = "create" /\ ~Refused(s, f) => Writes(s)
      /\ f.stage = "direct" /\ f.op = "update" => Writes(s)
      /\ RowsGrow
  BY <1>1, ExecEffect, NoneAssumption
<1>3. /\ m.sent /\ m.reply = None /\ m.shard = s /\ m.stage = f.stage /\ m.op = f.op
      /\ m.id = f.id /\ m.row = f.row /\ TaskOK(f.stage, f.op, f.id, f.row, s)
  BY <1>1, <1>2, NoneAssumption DEF ClosureOK
<1>4. ~Idle(c) /\ m.before \subseteq Present
  BY <1>1, <1>3 DEF Knows, CallOK, WalkTrue
<1>5. Present \subseteq Present' /\ Present \subseteq Ids /\ found \subseteq Present
  BY <1>2, PresentGrows, FoundRows DEF Present
<1>6. \A i \in Present : Matches(i, c)' <=> Matches(i, c)
  BY <1>2, MatchesKept DEF TaskKept
<1>7. f.op # "list" => \A i \in found : Matches(i, c)
  BY <1>3 DEF Found, Matches
<1>8. \A i \in Present : Home(i) = s /\ (f.op # "list" => Matches(i, c)) => i \in found
  BY <1>3 DEF Found, Matches
<1> HIDE DEF found
<1>9. f.stage \in {"walk", "direct"}
  BY <1>3 DEF TaskOK
<1>10. /\ f.stage = "walk" => answer.code = "ok" /\ answer.rows = found
       /\ f.stage = "direct" /\ f.op = "create" =>
             /\ answer.rows = {}
             /\ \/ Refused(s, f) /\ answer.code = "conflict"
                \/ ~Refused(s, f) /\ answer.code = "ok"
       /\ f.stage = "direct" /\ f.op = "update" =>
             /\ answer.rows = {}
             /\ \/ items[f.id] = None /\ answer.code = "notfound"
                \/ items[f.id] # None /\ answer.code = "ok"
       /\ f.stage = "direct" /\ f.op = "find" =>
             /\ answer.rows = found
             /\ \/ found = {} /\ answer.code = "notfound"
                \/ found # {} /\ answer.code = "ok"
  BY <1>9, Answers DEF found
<1> HIDE DEF answer
<1>11. f.stage = "direct" => f.op \in {"create", "find", "update"}
  BY <1>3 DEF TaskOK
<1>12. /\ answer.rows \subseteq Present'
       /\ f.op # "list" => \A i \in answer.rows : Matches(i, c)'
  BY <1>5, <1>6, <1>7, <1>9, <1>10, <1>11
<1>13. ASSUME f.stage = "direct", f.op = "create"
       PROVE  \/ /\ answer.code = "ok"
                 /\ f.id \in Present' /\ items'[f.id].key = f.row.key
              \/ answer.code = "conflict" /\ \E i \in Present' : Matches(i, c)'
  <2>1. CASE Refused(s, f)
    <3>1. items[f.id] = None
      BY <1>1, <1>2, <1>13 DEF CreatesFresh
    <3>2. found # {}
      BY <2>1, <3>1 DEF Refused, found
    <3> QED BY <1>5, <1>6, <1>7, <1>10, <1>13, <2>1, <3>2
  <2>2. CASE ~Refused(s, f)
    <3>1. Writes(s)
      BY <1>2, <1>13, <2>2
    <3>2. items'[f.id] = f.row /\ f.id \in Ids /\ f.row # None
      BY <3>1, NoneAssumption DEF Writes, TypeOK
    <3> QED BY <1>10, <1>13, <2>2, <3>2 DEF Present
  <2> QED BY <2>1, <2>2
<1>14. ASSUME f.stage = "direct", f.op = "update"
       PROVE  /\ answer.code = "ok" /\ f.id \in Present'
              /\ items'[f.id].key = f.row.key /\ items'[f.id].createdBy = f.row.createdBy
              /\ kind' = "episodes" => items'[f.id].published
  <2>1. UpdateOf(f.id, f.row) /\ Writes(s)
    BY <1>1, <1>2, <1>14 DEF UpdatesFit
  <2>2. items'[f.id] = f.row /\ f.id \in Ids /\ f.row # None
    BY <2>1, NoneAssumption DEF Writes, TypeOK
  <2> QED BY <1>2, <1>10, <1>14, <2>1, <2>2 DEF UpdateOf, Present
<1>15. ASSUME f.stage = "direct", f.op = "find"
       PROVE  \/ answer.code = "ok" /\ answer.rows # {}
              \/ answer.code = "notfound" /\ \A i \in m.before : ~Matches(i, c)'
  <2>1. \A i \in Present : Home(i) = s
    BY <1>3, <1>15 DEF TaskOK, Home
  <2> QED BY <1>4, <1>6, <1>8, <1>10, <1>15, <2>1
<1>16. ASSUME f.stage = "walk", NEW i \in m.before, ShardOf[i] = s,
              f.op # "list" => Matches(i, c)'
       PROVE  i \in answer.rows
  <2>1. Home(i) = s
    BY <1>3, <1>16 DEF TaskOK, Home
  <2> QED BY <1>4, <1>6, <1>8, <1>10, <1>16, <2>1
<1>17. /\ call'[c].stage = f.stage /\ call'[c].op = f.op /\ call'[c].id = f.id
       /\ call'[c].row = f.row /\ call'[c].shard = s /\ call'[c].before = m.before
       /\ call'[c].reply = answer
  BY <1>2, <1>3 DEF TaskKept
<1> HIDE DEF f, m
<1> QED BY <1>12, <1>13, <1>14, <1>15, <1>16, <1>17 DEF ReplyTrue, Updated

LEMMA ExecAnswers ==
    ASSUME TypeOK, AnswersInv, NEW s \in Shards, Exec(s)
    PROVE  AnswersInv'
<1> DEFINE f == actor[s]
<1>1. ClosureOK(s) /\ UpdatesFit /\ CreatesFresh /\ IdsApart
  BY DEF AnswersInv
<1>2. /\ f # None /\ actor'[s] = None /\ ShardsKept(s) /\ kind' = kind
      /\ f.by \in Callers \cup {None} /\ OthersKept(f.by)
      /\ f.by # None => /\ TaskKept(f.by) /\ call'[f.by].sent = call[f.by].sent
                        /\ call'[f.by].reply = AnswerTo(s, f)
      /\ AnswerTo(s, f) # None
      /\ items' = items \/ Writes(s)
      /\ RowsGrow
  BY <1>1, ExecEffect
<1>3. ASSUME NEW c \in Callers
      PROVE  Knows(c)'
  <2>1. Knows(c)
    BY DEF AnswersInv
  <2>2. CASE c # f.by
    BY <1>2, <2>1, <2>2, KnowsKept DEF OthersKept
  <2>3. CASE c = f.by
    <3>1. c # None /\ TaskKept(c) /\ call'[c].sent = call[c].sent
      BY <1>2, <2>3, NoneAssumption
    <3>2. call[c].sent
      BY <1>1, <1>2, <2>3, <3>1 DEF ClosureOK
    <3>3. CallOK(c)'
      BY <1>2, <2>1, <3>1, <3>2 DEF Knows, CallOK, TaskKept, Idle, TaskOK, Single
    <3>4. ReplyTrue(c)'
      BY <2>3, ExecReply
    <3>5. WalkTrue(c)' /\ AnswerTrue(c)'
      BY <1>2, <2>1, <3>1, WalkKept, AnswerKept DEF Knows
    <3> QED BY <3>3, <3>4, <3>5 DEF Knows
  <2> QED BY <2>2, <2>3
<1>4. ASSUME NEW t \in Shards, actor'[t] # None
      PROVE  t # s /\ actor'[t] = actor[t]
  BY <1>2, <1>4 DEF ShardsKept
<1>5. ASSUME NEW t \in Shards
      PROVE  ClosureOK(t)'
  <2> SUFFICES ASSUME actor'[t] # None
               PROVE  ClosureOK(t)'
    BY DEF ClosureOK
  <2>1. t # s /\ actor'[t] = actor[t] /\ ClosureOK(t)
    BY <1>4 DEF AnswersInv
  <2>2. actor[t].by # None => actor[t].by # f.by /\ actor[t].by \in Callers
    BY <1>1, <1>2, <2>1 DEF ClosureOK, TypeOK, Closure
  <2> HIDE DEF f
  <2> QED BY <1>2, <2>1, <2>2 DEF ClosureOK, OthersKept, TaskOK, Single
<1>6. ASSUME NEW c \in Callers
      PROVE  /\ call'[c].op = call[c].op /\ call'[c].id = call[c].id
             /\ call'[c].row = call[c].row /\ call'[c].stage = call[c].stage
  <2>1. CASE c # f.by
    BY <1>2, <2>1 DEF OthersKept
  <2>2. CASE c = f.by
    <3>1. TaskKept(c)
      BY <1>2, <2>2, NoneAssumption
    <3> QED BY <3>1 DEF TaskKept
  <2> QED BY <2>1, <2>2
<1>7. UpdatesFit'
  <2>1. ASSUME NEW i \in Ids, NEW row, UpdateOf(i, row)
        PROVE  /\ items'[i] # None /\ row.key = items'[i].key
               /\ row.createdBy = items'[i].createdBy
               /\ kind' = "episodes" => row.published
    BY <1>2, <2>1 DEF UpdateOf, RowsGrow
  <2>2. ASSUME NEW c \in Callers, call[c].op = "update", ~Idle(c)
        PROVE  call[c].id \in Ids /\ UpdateOf(call[c].id, call[c].row)
    BY <1>1, <2>2 DEF AnswersInv, Knows, CallOK, TaskOK, UpdatesFit
  <2>3. ASSUME NEW t \in Shards, actor[t] # None, actor[t].op = "update"
        PROVE  actor[t].id \in Ids /\ UpdateOf(actor[t].id, actor[t].row)
    BY <1>1, <2>3 DEF AnswersInv, ClosureOK, TaskOK, UpdatesFit
  <2>4. ASSUME NEW c \in Callers, call'[c].op = "update", ~Idle(c)'
        PROVE  UpdateOf(call[c].id, call[c].row)'
    BY <1>6, <2>1, <2>2, <2>4 DEF UpdateOf, Idle
  <2>5. ASSUME NEW t \in Shards, actor'[t] # None, actor'[t].op = "update"
        PROVE  UpdateOf(actor[t].id, actor[t].row)'
    BY <1>4, <2>1, <2>3, <2>5 DEF UpdateOf
  <2> QED BY <2>4, <2>5 DEF UpdatesFit
<1>8. ASSUME NEW i \in Ids, items[i] = None, f.op = "create" => f.id # i
      PROVE  items'[i] = None
  <2>1. CASE items' = items
    BY <1>8, <2>1
  <2>2. CASE Writes(s)
    <3>1. items' = [items EXCEPT ![f.id] = f.row] /\ f.id # i
      BY <1>8, <2>2 DEF Writes, UpdateOf
    <3> QED BY <1>8, <3>1 DEF TypeOK
  <2> QED BY <1>2, <2>1, <2>2
<1>9. CreatesFresh'
  <2>1. ASSUME NEW c \in Callers, ~Idle(c)', call'[c].op = "create",
               call'[c].stage = "walk" \/ call'[c].reply = None
        PROVE  items'[call'[c].id] = None
    <3>1. ~Idle(c) /\ call[c].op = "create"
      BY <1>6, <2>1 DEF Idle
    <3>2. call[c].id \in Ids /\ call'[c].id = call[c].id
      BY <1>6, <3>1 DEF AnswersInv, Knows, CallOK, TaskOK
    <3>3. CASE c = f.by
      <4>1. call'[c].stage = "walk" /\ c # None
        BY <1>2, <2>1, <3>3, NoneAssumption
      <4>2. f.stage = "walk"
        BY <1>1, <1>2, <1>6, <3>3, <4>1 DEF ClosureOK
      <4>3. items' = items
        BY <1>2, <4>2 DEF Writes
      <4>4. items[call[c].id] = None
        BY <1>1, <1>6, <3>1, <4>1 DEF CreatesFresh
      <4> QED BY <3>2, <4>3, <4>4
    <3>4. CASE c # f.by
      <4>1. call'[c] = call[c]
        BY <1>2, <3>4 DEF OthersKept
      <4>2. items[call[c].id] = None
        BY <1>1, <2>1, <3>1, <4>1 DEF CreatesFresh
      <4>3. f.op = "create" => f.id # call[c].id
        BY <1>1, <1>2, <3>1, <3>4 DEF IdsApart
      <4> QED BY <1>8, <3>2, <4>2, <4>3
    <3> QED BY <3>3, <3>4
  <2>2. ASSUME NEW t \in Shards, actor'[t] # None, actor'[t].op = "create"
        PROVE  items'[actor'[t].id] = None
    <3>1. t # s /\ actor'[t] = actor[t]
      BY <1>4, <2>2
    <3>2. items[actor[t].id] = None /\ actor[t].id \in Ids
      BY <1>1, <2>2, <3>1 DEF CreatesFresh, AnswersInv, ClosureOK, TaskOK
    <3>3. f.op = "create" => f.id # actor[t].id
      BY <1>1, <1>2, <2>2, <3>1 DEF IdsApart
    <3> QED BY <1>8, <3>1, <3>2, <3>3
  <2> QED BY <2>1, <2>2 DEF CreatesFresh
<1>10. IdsApart'
  <2>1. ASSUME NEW t \in Shards, NEW c \in Callers, actor'[t] # None, actor'[t].op = "create",
               actor'[t].by # c, call'[c].op = "create"
        PROVE  actor'[t].id # call'[c].id
    BY <1>1, <1>4, <1>6, <2>1 DEF IdsApart
  <2>2. ASSUME NEW t \in Shards, NEW u \in Shards, t # u,
               actor'[t] # None, actor'[t].op = "create",
               actor'[u] # None, actor'[u].op = "create"
        PROVE  actor'[t].id # actor'[u].id
    BY <1>1, <1>4, <2>2 DEF IdsApart
  <2>3. ASSUME NEW c \in Callers, NEW d \in Callers, c # d, call'[c].op = "create",
               call'[d].op = "create", call'[c].id # None
        PROVE  call'[c].id # call'[d].id
    BY <1>1, <1>6, <2>3 DEF IdsApart
  <2> QED BY <2>1, <2>2, <2>3 DEF IdsApart
<1> QED BY <1>3, <1>5, <1>7, <1>9, <1>10 DEF AnswersInv

----------------------------------------------------------------------------
(* No two rows of one caller clash, action by action.                      *)

LEMMA ClashBothWays ==
    ASSUME NEW a, NEW b, <<a, b>> \in Clash
    PROVE  <<b, a>> \in Clash
<1>1. \A p \in Clash : <<p[2], p[1]>> \in Clash
  BY MemoryAssumption
<1> QED BY <1>1

\* A caller that takes no step keeps what it knows of rows and closures.
LEMMA ApartKept ==
    ASSUME NEW c \in Callers, Apart(c), items' = items, call'[c] = call[c],
           \A s \in Shards : LeftInsert(s, c)' => LeftInsert(s, c) /\ actor'[s].row = actor[s].row
    PROVE  Apart(c)'
<1>1. OwnRows(c)' /\ WalkVsRows(c)' /\ InsertVsRows(c)'
  BY DEF Apart, OwnRows, WalkVsRows, InsertVsRows, RowBy, Matches
<1>2. LeftVsRows(c)'
  BY DEF Apart, LeftVsRows, RowBy
<1>3. LeftVsLeft(c)'
  BY DEF Apart, LeftVsLeft
<1>4. WalkVsLeft(c)' /\ InsertVsLeft(c)'
  BY DEF Apart, WalkVsLeft, InsertVsLeft
<1> QED BY <1>1, <1>2, <1>3, <1>4 DEF Apart

LEMMA BeginRetry ==
    ASSUME TypeOK, AnswersInv, RetryInv, NEW c \in Callers, Beginning(c)
    PROVE  RetryInv'
<1>1. PICK op, stage, id, row, shard : Begins(c, op, stage, id, row, shard)
  BY BeginCases
<1>2. /\ Idle(c) /\ items' = items /\ actor' = actor /\ kind' = kind /\ OthersKept(c)
      /\ call'[c].stage = stage /\ call'[c].op = op /\ call'[c].shard = shard
      /\ call'[c].sent = call[c].sent /\ call'[c].reply = call[c].reply
  BY <1>1, BeginEffect
<1> SUFFICES ASSUME ~Single, NEW d \in Callers
             PROVE  Apart(d)'
  BY <1>2 DEF RetryInv, Single
<1>3. Apart(d)
  BY DEF RetryInv
<1>4. \A s \in Shards : LeftInsert(s, d)' => LeftInsert(s, d) /\ actor'[s].row = actor[s].row
  BY <1>2 DEF LeftInsert
<1>5. CASE d # c
  BY <1>2, <1>3, <1>4, <1>5, ApartKept DEF OthersKept
<1>6. CASE d = c
  <2>1. ~call[c].sent /\ call[c].reply = None
    BY <1>2 DEF AnswersInv, Knows, CallOK
  <2>2. op = "create" => stage = "walk" /\ shard = 1
    BY <1>1 DEF Begins, LookUp
  <2>3. OwnRows(c)' /\ LeftVsRows(c)' /\ LeftVsLeft(c)'
    BY <1>2, <1>3, <1>6 DEF Apart, OwnRows, LeftVsRows, LeftVsLeft, RowBy, LeftInsert
  <2>4. \A i \in Ids : ShardOf[i] >= 1
    BY HomeShard, MemoryAssumption, SMT DEF Shards
  <2>5. \A s \in Shards : s >= 1
    BY MemoryAssumption, SMT DEF Shards
  <2>6. WalkVsRows(c)'
    BY <1>2, <2>1, <2>2, <2>4 DEF WalkVsRows
  <2>7. WalkVsLeft(c)'
    BY <1>2, <2>1, <2>2, <2>5 DEF WalkVsLeft
  <2>8. InsertVsRows(c)' /\ InsertVsLeft(c)'
    BY <1>2, <2>2 DEF InsertVsRows, InsertVsLeft
  <2> QED BY <1>6, <2>3, <2>6, <2>7, <2>8 DEF Apart
<1> QED BY <1>5, <1>6

LEMMA SendRetry ==
    ASSUME TypeOK, AnswersInv, RetryInv, NEW c \in Callers, Send(c)
    PROVE  RetryInv'
<1> DEFINE z == call[c].shard
<1>1. /\ z \in Shards /\ items' = items /\ kind' = kind /\ OthersKept(c) /\ TaskKept(c)
      /\ call'[c].reply = call[c].reply /\ ShardsKept(z) /\ actor'[z].by = c
  BY SendEffect
<1> HIDE DEF z
<1> SUFFICES ASSUME ~Single, NEW d \in Callers
             PROVE  Apart(d)'
  BY <1>1 DEF RetryInv, Single
<1>2. Apart(d)
  BY DEF RetryInv
<1>3. \A s \in Shards : LeftInsert(s, d)' =>
         s # z /\ LeftInsert(s, d) /\ actor'[s].row = actor[s].row
  BY <1>1, NoneAssumption DEF LeftInsert, ShardsKept
<1>4. CASE d # c
  BY <1>1, <1>2, <1>3, <1>4, ApartKept DEF OthersKept
<1>5. CASE d = c
  <2>1. /\ call'[c].stage = call[c].stage /\ call'[c].op = call[c].op
        /\ call'[c].row = call[c].row /\ call'[c].shard = z
    BY <1>1 DEF TaskKept, z
  <2>2. OwnRows(c)' /\ WalkVsRows(c)' /\ InsertVsRows(c)'
    BY <1>1, <1>2, <1>5, <2>1 DEF Apart, OwnRows, WalkVsRows, InsertVsRows, RowBy, Matches, z
  <2>3. LeftVsRows(c)' /\ LeftVsLeft(c)'
    BY <1>1, <1>2, <1>3, <1>5 DEF Apart, LeftVsRows, LeftVsLeft, RowBy
  <2>4. WalkVsLeft(c)'
    BY <1>2, <1>3, <1>5, <2>1 DEF Apart, WalkVsLeft, z
  <2>5. InsertVsLeft(c)'
    BY <1>1, <1>2, <1>3, <1>5, <2>1 DEF Apart, InsertVsLeft
  <2> QED BY <1>5, <2>2, <2>3, <2>4, <2>5 DEF Apart
<1> QED BY <1>4, <1>5

LEMMA ReceiveRetry ==
    ASSUME TypeOK, AnswersInv, RetryInv, NEW c \in Callers, Receive(c)
    PROVE  RetryInv'
<1> DEFINE m == call[c]
           seen == m.seen \cup m.reply.rows
<1>1. CallOK(c)
  BY DEF AnswersInv, Knows
<1>2. /\ items' = items /\ actor' = actor /\ kind' = kind
      /\ m.reply # None /\ m.sent /\ ~Idle(c)
      /\ \/ Return(c, m.reply.rows, m.reply.code) \/ Return(c, {}, "conflict")
         \/ Return(c, seen, "ok") \/ Return(c, {}, "notfound")
         \/ /\ m.stage = "walk" /\ (m.op # "list" => seen = {})
            /\ ~LastShard(c) /\ Go(c, "walk", m.shard + 1, seen)
         \/ /\ m.stage = "walk" /\ m.op = "create" /\ seen = {}
            /\ LastShard(c) /\ Go(c, "direct", ShardOf[m.id], {})
  BY <1>1, ReceiveCases
<1>3. ASSUME NEW found, NEW code, Return(c, found, code)
      PROVE  OthersKept(c) /\ call'[c].stage = "idle"
  <2>1. Returned(c, found, code)
    BY <1>3, ReturnEffect
  <2> QED BY <2>1 DEF Returned
<1>4. ASSUME NEW stage, NEW shard, NEW found, Go(c, stage, shard, found)
      PROVE  /\ OthersKept(c) /\ call'[c].stage = stage /\ call'[c].shard = shard
             /\ ~call'[c].sent /\ call'[c].reply = None
             /\ call'[c].op = m.op /\ call'[c].row = m.row
  <2>1. Went(c, stage, shard, found)
    BY <1>4, GoEffect
  <2> QED BY <2>1 DEF Went
<1>5. \/ OthersKept(c) /\ call'[c].stage = "idle"
      \/ /\ m.stage = "walk" /\ (m.op # "list" => m.reply.rows = {})
         /\ OthersKept(c) /\ ~call'[c].sent /\ call'[c].reply = None
         /\ call'[c].op = m.op /\ call'[c].row = m.row
         /\ \/ call'[c].stage = "walk" /\ call'[c].shard = m.shard + 1
            \/ call'[c].stage = "direct" /\ LastShard(c)
  BY <1>2, <1>3, <1>4
<1> SUFFICES ASSUME ~Single, NEW d \in Callers
             PROVE  Apart(d)'
  BY <1>2 DEF RetryInv, Single
<1>6. Apart(d)
  BY DEF RetryInv
<1>7. \A s \in Shards : LeftInsert(s, d)' => LeftInsert(s, d) /\ actor'[s].row = actor[s].row
  BY <1>2 DEF LeftInsert
<1>8. CASE d # c
  BY <1>2, <1>5, <1>6, <1>7, <1>8, ApartKept DEF OthersKept
<1>9. CASE d = c
  <2>1. OwnRows(c)' /\ LeftVsRows(c)' /\ LeftVsLeft(c)'
    BY <1>2, <1>6, <1>9 DEF Apart, OwnRows, LeftVsRows, LeftVsLeft, RowBy, LeftInsert
  <2>2. CASE call'[c].stage = "idle"
    BY <1>9, <2>1, <2>2 DEF Apart, WalkVsRows, WalkVsLeft, InsertVsRows, InsertVsLeft
  <2>3. CASE m.op # "create"
    <3>1. call'[c].op # "create" \/ call'[c].stage = "idle"
      BY <1>5, <2>3
    <3> QED BY <1>9, <2>1, <2>2, <3>1 DEF Apart, WalkVsRows, WalkVsLeft, InsertVsRows, InsertVsLeft
  <2>4. CASE call'[c].stage # "idle" /\ m.op = "create"
    <3>1. /\ m.stage = "walk" /\ m.reply.rows = {} /\ call'[c].row = m.row
          /\ ~call'[c].sent /\ call'[c].reply = None
          /\ \/ call'[c].stage = "walk" /\ call'[c].shard = m.shard + 1
             \/ call'[c].stage = "direct" /\ LastShard(c)
      BY <1>5, <2>4
    <3>2. m.shard \in Nat /\ \A s \in Shards : s \in Nat /\ s <= NumShards
      BY MemoryAssumption, SMT DEF TypeOK, CallState, Shards
    \* Nothing of this shard or of those before it clashes.
    <3>3. ASSUME NEW i \in Ids, RowBy(i, c)', Matches(i, c)'
          PROVE  ShardOf[i] >= m.shard + 1 /\ ~LastShard(c)
      <4>1. RowBy(i, c) /\ Matches(i, c)
        BY <1>2, <3>1, <3>3 DEF RowBy, Matches
      <4>2. ShardOf[i] >= m.shard /\ ShardOf[i] # m.shard
        BY <1>2, <1>6, <1>9, <2>4, <3>1, <4>1 DEF Apart, WalkVsRows
      <4> HIDE DEF m
      <4>3. ShardOf[i] >= m.shard + 1
        BY <3>2, <4>2, HomeShard, SMT
      <4>4. m.shard # NumShards
        BY <3>2, <4>3, HomeShard, MemoryAssumption, SMT
      <4> QED BY <4>3, <4>4 DEF LastShard, m
    <3>4. ASSUME NEW s \in Shards, LeftInsert(s, c)', <<actor'[s].row.key, call'[c].row.key>> \in Clash
          PROVE  s >= m.shard + 1 /\ ~LastShard(c)
      <4>1. LeftInsert(s, c) /\ <<actor[s].row.key, m.row.key>> \in Clash
        BY <1>2, <3>1, <3>4 DEF LeftInsert
      <4>2. s >= m.shard /\ s # m.shard
        BY <1>2, <1>6, <1>9, <2>4, <3>1, <4>1 DEF Apart, WalkVsLeft
      <4> HIDE DEF m
      <4>3. s >= m.shard + 1
        BY <3>2, <4>2, SMT
      <4>4. m.shard # NumShards
        BY <3>2, <4>3, MemoryAssumption, SMT
      <4> QED BY <4>3, <4>4 DEF LastShard, m
    <3> HIDE DEF m
    <3>5. WalkVsRows(c)' /\ WalkVsLeft(c)'
      BY <3>1, <3>3, <3>4 DEF WalkVsRows, WalkVsLeft
    <3>6. InsertVsRows(c)'
      BY <3>1, <3>3 DEF InsertVsRows
    <3>7. InsertVsLeft(c)'
      BY <3>1, <3>4 DEF InsertVsLeft
    <3> QED BY <1>9, <2>1, <3>5, <3>6, <3>7 DEF Apart
  <2> QED BY <2>2, <2>3, <2>4
<1> QED BY <1>8, <1>9

LEMMA CancelRetry ==
    ASSUME TypeOK, AnswersInv, RetryInv, NEW c \in Callers, Cancel(c)
    PROVE  RetryInv'
<1>1. /\ items' = items /\ kind' = kind /\ OthersKept(c) /\ call'[c].stage = "idle"
      /\ \A s \in Shards :
            IF actor[s] # None /\ actor[s].by = c
            THEN /\ actor'[s].by = None /\ actor'[s].stage = actor[s].stage
                 /\ actor'[s].op = actor[s].op /\ actor'[s].id = actor[s].id
                 /\ actor'[s].row = actor[s].row
            ELSE actor'[s] = actor[s]
  BY CancelEffect
<1> SUFFICES ASSUME ~Single, NEW d \in Callers
             PROVE  Apart(d)'
  BY <1>1 DEF RetryInv, Single
<1>2. Apart(d) /\ CallOK(c)
  BY DEF RetryInv, AnswersInv, Knows
\* The closure that c leaves behind, if it has one.
<1>3. ASSUME NEW s \in Shards, LeftInsert(s, d)', ~LeftInsert(s, d)
      PROVE  /\ d = c /\ s = call[c].shard /\ actor'[s].row = call[c].row
             /\ call[c].stage = "direct" /\ call[c].op = "create" /\ call[c].reply = None
  <2>1. actor[s] # None /\ actor[s].by = c
    BY <1>1, <1>3 DEF LeftInsert
  <2>2. /\ actor[s].stage = "direct" /\ actor[s].op = "create" /\ actor[s].row.createdBy = d
        /\ actor'[s].row = actor[s].row
    BY <1>1, <1>3, <2>1 DEF LeftInsert
  <2>3. /\ call[c].sent /\ call[c].reply = None /\ call[c].shard = s
        /\ call[c].stage = "direct" /\ call[c].op = "create" /\ call[c].row = actor[s].row
    BY <2>1, <2>2, NoneAssumption DEF AnswersInv, ClosureOK
  <2>4. actor[s].row.createdBy = c
    BY <1>2, <2>3 DEF CallOK
  <2> QED BY <2>2, <2>3, <2>4
<1>4. \A s \in Shards : LeftInsert(s, d)' /\ LeftInsert(s, d) => actor'[s].row = actor[s].row
  BY <1>1 DEF LeftInsert
<1>5. CASE d # c
  BY <1>1, <1>2, <1>3, <1>4, <1>5, ApartKept DEF OthersKept
<1>6. CASE d = c
  <2>1. OwnRows(c)'
    BY <1>1, <1>2, <1>6 DEF Apart, OwnRows, RowBy
  <2>2. LeftVsRows(c)'
    <3> SUFFICES ASSUME NEW s \in Shards, NEW i \in Ids, LeftInsert(s, c)', RowBy(i, c)'
                 PROVE  <<items'[i].key, actor'[s].row.key>> \notin Clash
      BY DEF LeftVsRows
    <3>1. RowBy(i, c)
      BY <1>1 DEF RowBy
    <3>2. CASE LeftInsert(s, c)
      BY <1>1, <1>2, <1>4, <1>6, <3>1, <3>2 DEF Apart, LeftVsRows
    <3>3. CASE ~LeftInsert(s, c)
      BY <1>1, <1>2, <1>3, <1>6, <3>1, <3>3 DEF Apart, InsertVsRows, Matches
    <3> QED BY <3>2, <3>3
  <2>3. LeftVsLeft(c)'
    <3> SUFFICES ASSUME NEW s \in Shards, NEW t \in Shards, s # t,
                        LeftInsert(s, c)', LeftInsert(t, c)'
                 PROVE  <<actor'[s].row.key, actor'[t].row.key>> \notin Clash
      BY DEF LeftVsLeft
    <3>1. CASE LeftInsert(s, c) /\ LeftInsert(t, c)
      BY <1>2, <1>4, <1>6, <3>1 DEF Apart, LeftVsLeft
    <3>2. CASE LeftInsert(s, c) /\ ~LeftInsert(t, c)
      BY <1>2, <1>3, <1>4, <1>6, <3>2 DEF Apart, InsertVsLeft
    <3>3. CASE ~LeftInsert(s, c) /\ LeftInsert(t, c)
      <4>1. <<actor'[t].row.key, actor'[s].row.key>> \notin Clash
        BY <1>2, <1>3, <1>4, <1>6, <3>3 DEF Apart, InsertVsLeft
      <4> QED BY <4>1, ClashBothWays
    <3>4. CASE ~LeftInsert(s, c) /\ ~LeftInsert(t, c)
      BY <1>3, <1>6, <3>4
    <3> QED BY <3>1, <3>2, <3>3, <3>4
  <2>4. WalkVsRows(c)' /\ WalkVsLeft(c)' /\ InsertVsRows(c)' /\ InsertVsLeft(c)'
    BY <1>1 DEF WalkVsRows, WalkVsLeft, InsertVsRows, InsertVsLeft
  <2> QED BY <1>6, <2>1, <2>2, <2>3, <2>4 DEF Apart
<1> QED BY <1>5, <1>6

LEMMA ExecRetry ==
    ASSUME TypeOK, AnswersInv, RetryInv, NEW s \in Shards, Exec(s)
    PROVE  RetryInv'
<1> DEFINE f == actor[s]
<1>1. ClosureOK(s) /\ UpdatesFit /\ CreatesFresh
  BY DEF AnswersInv
<1>2. /\ f # None /\ actor'[s] = None /\ ShardsKept(s) /\ kind' = kind
      /\ f.by \in Callers \cup {None} /\ OthersKept(f.by)
      /\ f.by # None => /\ TaskKept(f.by) /\ call'[f.by].sent = call[f.by].sent
                        /\ call'[f.by].reply = AnswerTo(s, f)
      /\ AnswerTo(s, f) # None
      /\ items' = items \/ Writes(s)
      /\ RowsGrow
  BY <1>1, ExecEffect
<1> SUFFICES ASSUME ~Single, NEW c \in Callers
             PROVE  Apart(c)'
  BY <1>2 DEF RetryInv, Single
<1>3. Apart(c) /\ CallOK(c)
  BY DEF RetryInv, AnswersInv, Knows
<1>4. /\ call'[c].stage = call[c].stage /\ call'[c].op = call[c].op
      /\ call'[c].row = call[c].row /\ call'[c].shard = call[c].shard
      /\ call'[c].sent = call[c].sent
      /\ f.by # c => call'[c].reply = call[c].reply
      /\ f.by = c => /\ call'[c].reply = AnswerTo(s, f) /\ call[c].reply = None /\ call[c].sent
                     /\ call[c].stage = f.stage /\ call[c].op = f.op
                     /\ call[c].row = f.row /\ call[c].shard = s
  <2>1. CASE f.by # c
    BY <1>2, <2>1 DEF OthersKept
  <2>2. CASE f.by = c
    <3>1. TaskKept(c) /\ call'[c].sent = call[c].sent /\ call'[c].reply = AnswerTo(s, f)
      BY <1>2, <2>2, NoneAssumption
    <3>2. /\ call[c].reply = None /\ call[c].sent
          /\ call[c].stage = f.stage /\ call[c].op = f.op
          /\ call[c].row = f.row /\ call[c].shard = s
      BY <1>1, <1>2, <2>2, NoneAssumption DEF ClosureOK
    <3> QED BY <2>2, <3>1, <3>2 DEF TaskKept
  <2> QED BY <2>1, <2>2
<1>5. ASSUME NEW t \in Shards, LeftInsert(t, c)'
      PROVE  t # s /\ LeftInsert(t, c) /\ actor'[t].row = actor[t].row
  BY <1>2, <1>5 DEF LeftInsert, ShardsKept
\* A row that c did not have is that of an insert, its own or one it left behind.
<1>6. ASSUME NEW i \in Ids, RowBy(i, c)'
      PROVE  \/ RowBy(i, c) /\ items'[i].key = items[i].key
             \/ /\ ~RowBy(i, c) /\ i = f.id /\ items'[i].key = f.row.key /\ ShardOf[i] = s
                /\ \/ f.by = c /\ call[c].stage = "direct" /\ call[c].op = "create"
                   \/ f.by # c /\ LeftInsert(s, c)
  <2>1. CASE items[i] # None
    BY <1>2, <1>6, <2>1 DEF RowBy, RowsGrow
  <2>2. CASE items[i] = None
    <3>1. Writes(s) /\ items'[i] # None
      BY <1>2, <1>6, <2>2 DEF RowBy
    <3>2. i = f.id /\ items'[i] = f.row
      BY <2>2, <3>1 DEF Writes, TypeOK
    <3>3. f.stage = "direct" /\ f.op = "create"
      BY <2>2, <3>1, <3>2 DEF Writes, UpdateOf
    <3>4. ShardOf[i] = s
      BY <1>1, <1>2, <3>2, <3>3 DEF ClosureOK, TaskOK
    <3>5. f.row.createdBy = c
      BY <1>6, <3>2 DEF RowBy
    <3>6. f.by = c \/ f.by = None
      <4>1. ASSUME f.by # None
            PROVE  f.by = c
        <5>1. f.by \in Callers /\ CallOK(f.by)
          BY <1>2, <4>1 DEF AnswersInv, Knows
        <5>2. /\ call[f.by].sent /\ call[f.by].op = "create"
              /\ call[f.by].row = f.row
          BY <1>1, <1>2, <3>3, <4>1 DEF ClosureOK
        <5> QED BY <3>5, <5>1, <5>2 DEF CallOK
      <4> QED BY <4>1
    <3> QED BY <1>2, <1>4, <2>2, <3>2, <3>3, <3>4, <3>5, <3>6, NoneAssumption DEF RowBy, LeftInsert
  <2> QED BY <2>1, <2>2
<1>7. OwnRows(c)'
  <2>1. ASSUME NEW i \in Ids, NEW j \in Ids, RowBy(i, c), items'[i].key = items[i].key,
               RowBy(j, c)', ~RowBy(j, c)
        PROVE  <<items'[i].key, items'[j].key>> \notin Clash
    <3>1. CASE f.by = c /\ call[c].stage = "direct" /\ call[c].op = "create"
      BY <1>3, <1>4, <1>6, <2>1, <3>1 DEF Apart, InsertVsRows, Matches
    <3>2. CASE LeftInsert(s, c)
      BY <1>3, <1>6, <2>1, <3>2 DEF Apart, LeftVsRows
    <3> QED BY <1>6, <2>1, <3>1, <3>2
  <2> SUFFICES ASSUME NEW i \in Ids, NEW j \in Ids, RowBy(i, c)', RowBy(j, c)', i # j
               PROVE  <<items'[i].key, items'[j].key>> \notin Clash
    BY DEF OwnRows
  <2>2. CASE RowBy(i, c) /\ RowBy(j, c)
    BY <1>3, <1>6, <2>2 DEF Apart, OwnRows
  <2>3. CASE RowBy(i, c) /\ ~RowBy(j, c)
    BY <1>6, <2>1, <2>3
  <2>4. CASE ~RowBy(i, c) /\ RowBy(j, c)
    <3>1. <<items'[j].key, items'[i].key>> \notin Clash
      BY <1>6, <2>1, <2>4
    <3> QED BY <3>1, ClashBothWays
  <2>5. CASE ~RowBy(i, c) /\ ~RowBy(j, c)
    BY <1>6, <2>5
  <2> QED BY <2>2, <2>3, <2>4, <2>5
<1>8. LeftVsRows(c)'
  <2> SUFFICES ASSUME NEW t \in Shards, NEW i \in Ids, LeftInsert(t, c)', RowBy(i, c)'
               PROVE  <<items'[i].key, actor'[t].row.key>> \notin Clash
    BY DEF LeftVsRows
  <2>1. t # s /\ LeftInsert(t, c) /\ actor'[t].row = actor[t].row
    BY <1>5
  <2>2. CASE RowBy(i, c)
    BY <1>3, <1>6, <2>1, <2>2 DEF Apart, LeftVsRows
  <2>3. CASE f.by = c /\ call[c].stage = "direct" /\ call[c].op = "create" /\ ~RowBy(i, c)
    <3>1. <<actor[t].row.key, f.row.key>> \notin Clash
      BY <1>3, <1>4, <2>1, <2>3 DEF Apart, InsertVsLeft
    <3>2. <<f.row.key, actor[t].row.key>> \notin Clash
      BY <3>1, ClashBothWays
    <3> QED BY <1>6, <2>1, <2>3, <3>2
  <2>4. CASE LeftInsert(s, c) /\ ~RowBy(i, c)
    BY <1>3, <1>6, <2>1, <2>4 DEF Apart, LeftVsLeft
  <2> QED BY <1>6, <2>2, <2>3, <2>4
<1>9. LeftVsLeft(c)'
  BY <1>3, <1>5 DEF Apart, LeftVsLeft
<1>10. WalkVsRows(c)'
  <2> SUFFICES ASSUME call[c].stage = "walk", call[c].op = "create",
                      NEW i \in Ids, RowBy(i, c)', Matches(i, c)'
               PROVE  /\ ShardOf[i] >= call[c].shard
                      /\ ShardOf[i] = call[c].shard /\ call'[c].reply # None =>
                             i \in call'[c].reply.rows
    BY <1>4 DEF WalkVsRows
  <2>1. CASE RowBy(i, c) /\ items'[i].key = items[i].key
    <3>1. Matches(i, c) /\ i \in Present
      BY <1>4, <2>1 DEF Matches, RowBy, Present
    <3>2. /\ ShardOf[i] >= call[c].shard
          /\ ShardOf[i] = call[c].shard /\ call[c].reply # None => i \in call[c].reply.rows
      BY <1>3, <2>1, <3>1 DEF Apart, WalkVsRows
    <3>3. CASE f.by # c
      BY <1>4, <3>2, <3>3
    <3>4. CASE f.by = c
      <4>1. f.stage = "walk" /\ f.row = call[c].row /\ call[c].shard = s
        BY <1>4, <3>4
      <4>2. AnswerTo(s, f).rows = Found(s, f)
        BY <4>1, Answers
      <4>3. ShardOf[i] = s => i \in Found(s, f)
        BY <3>1, <4>1 DEF Found, Matches, Home
      <4> QED BY <1>4, <3>2, <3>4, <4>1, <4>2, <4>3
    <3> QED BY <3>3, <3>4
  <2>2. CASE ~RowBy(i, c)
    <3>1. /\ LeftInsert(s, c) /\ f.by # c /\ ShardOf[i] = s /\ items'[i].key = f.row.key
      BY <1>6, <2>2
    <3>2. <<f.row.key, call[c].row.key>> \in Clash
      BY <1>4, <3>1 DEF Matches
    <3>3. s >= call[c].shard /\ (s = call[c].shard => ~call[c].sent)
      BY <1>3, <3>1, <3>2 DEF Apart, WalkVsLeft
    <3> QED BY <1>3, <1>4, <3>1, <3>3 DEF CallOK
  <2> QED BY <1>6, <2>1, <2>2
<1>11. WalkVsLeft(c)'
  BY <1>3, <1>4, <1>5 DEF Apart, WalkVsLeft
<1>12. InsertVsRows(c)'
  <2> SUFFICES ASSUME call[c].stage = "direct", call[c].op = "create", call'[c].reply = None,
                      NEW i \in Ids, RowBy(i, c)'
               PROVE  ~Matches(i, c)'
    BY <1>4 DEF InsertVsRows
  <2>1. f.by # c /\ call[c].reply = None
    BY <1>2, <1>4
  <2>2. CASE RowBy(i, c) /\ items'[i].key = items[i].key
    BY <1>3, <1>4, <2>1, <2>2 DEF Apart, InsertVsRows, Matches
  <2>3. CASE LeftInsert(s, c) /\ items'[i].key = f.row.key
    <3>1. <<f.row.key, call[c].row.key>> \notin Clash
      BY <1>3, <2>1, <2>3 DEF Apart, InsertVsLeft
    <3> QED BY <1>4, <2>3, <3>1 DEF Matches
  <2> QED BY <1>6, <2>1, <2>2, <2>3
<1>13. InsertVsLeft(c)'
  BY <1>2, <1>3, <1>4, <1>5 DEF Apart, InsertVsLeft
<1> QED BY <1>7, <1>8, <1>9, <1>10, <1>11, <1>12, <1>13 DEF Apart

\* The one actor of users and refs looks and inserts in one closure.
LEMMA ExecUnique ==
    ASSUME TypeOK, AnswersInv, OneActorUnique, NEW s \in Shards, Exec(s)
    PROVE  OneActorUnique'
<1> DEFINE f == actor[s]
<1>1. ClosureOK(s) /\ UpdatesFit /\ CreatesFresh
  BY DEF AnswersInv
<1>2. f # None /\ kind' = kind /\ (items' = items \/ Writes(s))
  BY <1>1, ExecEffect
<1> SUFFICES ASSUME Single, NEW i \in Ids, NEW j \in Ids, i # j, items'[i] # None,
                    items'[j] # None
             PROVE  <<items'[i].key, items'[j].key>> \notin Clash
  BY <1>2 DEF OneActorUnique, Clashing, Present, Single
<1>3. \A k, l \in Ids : k # l /\ items[k] # None /\ items[l] # None =>
          <<items[k].key, items[l].key>> \notin Clash
  BY DEF OneActorUnique, Clashing, Present
<1>4. CASE items' = items
  BY <1>3, <1>4
<1>5. CASE Writes(s)
  <2>1. f.op # "update" /\ s = 1
    BY <1>1, <1>2, <1>5 DEF ClosureOK, TaskOK, Writes
  <2>2. /\ f.op = "create" /\ f.id \in Ids /\ f.row \in Row
        /\ items' = [items EXCEPT ![f.id] = f.row] /\ ~Refused(s, f)
    BY <1>5, <2>1 DEF Writes
  <2>3. \A k \in Ids : items[k] # None => <<items[k].key, f.row.key>> \notin Clash
    BY <2>1, <2>2 DEF Refused, Found, Home, Present
  <2>4. \A k \in Ids : items[k] # None => <<f.row.key, items[k].key>> \notin Clash
    BY <2>3, ClashBothWays
  <2>5. \A k \in Ids : items'[k] = IF k = f.id THEN f.row ELSE items[k]
    BY <2>2 DEF TypeOK
  <2> HIDE DEF f
  <2> QED BY <1>3, <2>3, <2>4, <2>5
<1> QED BY <1>2, <1>4, <1>5

----------------------------------------------------------------------------
\* What the proofs know of every state.
Inv == TypeOK /\ AnswersInv /\ RetryInv /\ OneActorUnique

LEMMA InitInv ==
    ASSUME Init
    PROVE  Inv
<1>1. 1 \in Shards
  BY MemoryAssumption, SMT DEF Shards
<1>2. TypeOK
  BY <1>1 DEF Init, TypeOK, CallState, Ops, Codes
<1>3. /\ \A c \in Callers : /\ call[c].stage = "idle" /\ call[c].op = "list" /\ call[c].sent = FALSE
                            /\ call[c].reply = None /\ call[c].code = "error"
      /\ \A s \in Shards : actor[s] = None
      /\ \A i \in Ids : items[i] = None
  BY DEF Init
<1>4. AnswersInv
  <2>1. ASSUME NEW c \in Callers
        PROVE  Knows(c)
    BY <1>3 DEF Knows, CallOK, ReplyTrue, WalkTrue, AnswerTrue, Idle
  <2>2. UpdatesFit /\ CreatesFresh /\ IdsApart
    BY <1>3 DEF UpdatesFit, CreatesFresh, IdsApart, Idle
  <2> QED BY <1>3, <2>1, <2>2 DEF AnswersInv, ClosureOK
<1>5. RetryInv
  BY <1>3 DEF RetryInv, Apart, OwnRows, LeftVsRows, LeftVsLeft, WalkVsRows, WalkVsLeft,
              InsertVsRows, InsertVsLeft, RowBy, LeftInsert
<1>6. OneActorUnique
  BY <1>3 DEF OneActorUnique, Clashing, Present
<1> QED BY <1>2, <1>4, <1>5, <1>6 DEF Inv

LEMMA NextInv ==
    ASSUME Inv, [Next]_vars
    PROVE  Inv'
<1>1. TypeOK /\ AnswersInv /\ RetryInv /\ OneActorUnique
  BY DEF Inv
<1>2. ASSUME items' = items, kind' = kind
      PROVE  OneActorUnique'
  BY <1>1, <1>2 DEF OneActorUnique, Clashing, Present, Single
<1>3. ASSUME NEW c \in Callers, Beginning(c)
      PROVE  Inv'
  <2>1. items' = items /\ kind' = kind
    BY <1>3 DEF Beginning, Create, Find, Update, List, Begin
  <2> QED BY <1>1, <1>2, <1>3, <2>1, BeginsTyped, BeginAnswers, BeginRetry DEF Inv
<1>4. ASSUME NEW c \in Callers, Send(c)
      PROVE  Inv'
  <2>1. items' = items /\ kind' = kind
    BY <1>4 DEF Send
  <2> QED BY <1>1, <1>2, <1>4, <2>1, SendTyped, SendAnswers, SendRetry DEF Inv
<1>5. ASSUME NEW c \in Callers, Receive(c)
      PROVE  Inv'
  <2>1. items' = items /\ kind' = kind /\ CallOK(c)
    BY <1>1, <1>5 DEF Receive, AnswersInv, Knows
  <2> QED BY <1>1, <1>2, <1>5, <2>1, ReceiveTyped, ReceiveAnswers, ReceiveRetry DEF Inv
<1>6. ASSUME NEW c \in Callers, Cancel(c)
      PROVE  Inv'
  <2>1. items' = items /\ kind' = kind
    BY <1>6 DEF Cancel
  <2> QED BY <1>1, <1>2, <1>6, <2>1, CancelTyped, CancelAnswers, CancelRetry DEF Inv
<1>7. ASSUME NEW s \in Shards, Exec(s)
      PROVE  Inv'
  <2>1. actor[s] # None /\ TaskOK(actor[s].stage, actor[s].op, actor[s].id, actor[s].row, s)
    BY <1>1, <1>7 DEF Exec, AnswersInv, ClosureOK
  <2> QED BY <1>1, <1>7, <2>1, RunTyped, ExecAnswers, ExecRetry, ExecUnique DEF Inv
<1>8. CASE Close \/ (\E s \in Shards : Leave(s)) \/ UNCHANGED vars
  <2>1. UNCHANGED <<kind, items, actor, call>> /\ TypeOK'
    BY <1>1, <1>8 DEF Close, Leave, vars, TypeOK
  <2>2. AnswersInv'
    <3>1. ASSUME NEW c \in Callers PROVE CallOK(c)'
      BY <1>1, <2>1 DEF AnswersInv, Knows, CallOK, TaskOK, Idle, Single
    <3>2. ASSUME NEW c \in Callers PROVE ReplyTrue(c)'
      BY <1>1, <2>1 DEF AnswersInv, Knows, ReplyTrue, Matches, Present, Updated
    <3>3. ASSUME NEW c \in Callers PROVE WalkTrue(c)' /\ AnswerTrue(c)'
      BY <1>1, <2>1 DEF AnswersInv, Knows, WalkTrue, AnswerTrue, Matches, Present, Idle, Updated
    <3>4. ASSUME NEW s \in Shards PROVE ClosureOK(s)'
      BY <1>1, <2>1 DEF AnswersInv, ClosureOK, TaskOK, Single
    <3>5. UpdatesFit' /\ CreatesFresh' /\ IdsApart'
      BY <1>1, <2>1 DEF AnswersInv, UpdatesFit, CreatesFresh, IdsApart, UpdateOf, Idle
    <3> QED BY <3>1, <3>2, <3>3, <3>4, <3>5 DEF AnswersInv, Knows
  <2>3. RetryInv'
    <3> SUFFICES ASSUME NEW c \in Callers, ~Single PROVE Apart(c)'
      BY <2>1 DEF RetryInv, Single
    <3>1. Apart(c)
      BY <1>1 DEF RetryInv
    <3>2. OwnRows(c)' /\ LeftVsRows(c)' /\ LeftVsLeft(c)'
      BY <2>1, <3>1 DEF Apart, OwnRows, LeftVsRows, LeftVsLeft, RowBy, LeftInsert
    <3>3. WalkVsRows(c)' /\ WalkVsLeft(c)'
      BY <2>1, <3>1 DEF Apart, WalkVsRows, WalkVsLeft, RowBy, LeftInsert, Matches
    <3>4. InsertVsRows(c)' /\ InsertVsLeft(c)'
      BY <2>1, <3>1 DEF Apart, InsertVsRows, InsertVsLeft, RowBy, LeftInsert, Matches
    <3> QED BY <3>2, <3>3, <3>4 DEF Apart
  <2> QED BY <1>2, <2>1, <2>2, <2>3 DEF Inv
<1> QED BY <1>3, <1>4, <1>5, <1>6, <1>7, <1>8 DEF Next, OpenNext, Beginning

(* Types, what the calls know and the rows of one caller stay as they are  *)
(* described above, in both repositories, also after Close.                *)
THEOREM MemoryInductive == Spec => []Inv
<1>1. Init => Inv
  BY InitInv
<1>2. Inv /\ [Next]_vars => Inv'
  BY NextInv
<1> QED BY <1>1, <1>2, PTL DEF Spec

(* After 409 there is a row that clashes, acknowledged creates and updates *)
(* are there under their keys and authors, also next to PATCHes that take  *)
(* a show down again (an episode that was published stays so), and a       *)
(* look-up in one shard after the other misses no row that was there       *)
(* before it: with any number of shards and callers.                       *)
THEOREM AnswersAreTrue == Spec => []AnswersTruthful
<1>1. Inv => AnswersTruthful
  BY DEF Inv, AnswersInv, Knows, AnswerTrue, AnswersTruthful, Matches, Updated
<1> QED BY <1>1, MemoryInductive, PTL

(* A list has every row that was there when it began, and no row that is   *)
(* not: what the walk has of the shards behind it only grows.              *)
THEOREM ListsComplete == Spec => []ListsAreComplete
<1>1. Inv => ListsAreComplete
  BY DEF Inv, AnswersInv, Knows, AnswerTrue, ListsAreComplete
<1> QED BY <1>1, MemoryInductive, PTL

(* Users and refs are unique, whatever overlaps and is cut.                *)
THEOREM UsersAndRefsUnique == Spec => []OneActorUnique
<1>1. Inv => OneActorUnique
  BY DEF Inv
<1> QED BY <1>1, MemoryInductive, PTL

(* A handler that was cut and tries again never makes a second row, though *)
(* its first closure may run after it was told of the error.               *)
THEOREM RetriesKeepApart == Spec => []RetriesNeverClash
<1>1. Inv => RetriesNeverClash
  <2> SUFFICES ASSUME Inv, NEW i \in Ids, NEW j \in Ids, Clashing(i, j),
                      items[i].createdBy = items[j].createdBy
               PROVE  FALSE
    BY DEF RetriesNeverClash
  <2>1. CASE Single
    BY <2>1 DEF Inv, OneActorUnique
  <2>2. CASE ~Single
    <3> DEFINE c == items[i].createdBy
    <3>1. items[i] # None /\ items[j] # None /\ i # j /\ <<items[i].key, items[j].key>> \in Clash
      BY DEF Clashing, Present
    <3>2. c \in Callers
      BY <3>1 DEF Inv, TypeOK, Row
    <3>3. RowBy(i, c) /\ RowBy(j, c) /\ OwnRows(c)
      BY <2>2, <3>1, <3>2 DEF RowBy, Inv, RetryInv, Apart
    <3> QED BY <3>1, <3>3 DEF OwnRows
  <2> QED BY <2>1, <2>2
<1> QED BY <1>1, MemoryInductive, PTL

===============================================================================
