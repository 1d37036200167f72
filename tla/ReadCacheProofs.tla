--------------------------- MODULE ReadCacheProofs ---------------------------
(***************************************************************************)
(* Theorems about ReadCache, for any readers, processes, versions and      *)
(* hidden versions, and whichever calls of the cache fail.                 *)
(***************************************************************************)
EXTENDS ReadCache, TLAPS, WellFoundedInduction

\* A nonempty set of naturals has a least member.
LEMMA MinExists ==
    ASSUME NEW T, T \subseteq Nat, T # {}
    PROVE  \E v \in T : \A w \in T : v <= w
<1>1. PICK x \in T : \A y \in T : <<y, x>> \notin OpToRel(<, Nat)
  BY NatLessThanWellFounded, WFMin
<1>2. \A y \in T : ~(y < x)
  BY <1>1 DEF OpToRel
<1> QED
  BY <1>2

\* Counted down from the bound, a bounded set has a greatest one.
LEMMA MaxExists ==
    ASSUME NEW n \in Nat, NEW T, T \subseteq 0..n, T # {}
    PROVE  \E v \in T : \A w \in T : w <= v
<1> DEFINE U == {m \in 0..n : n - m \in T}
<1>1. U # {}
  <2>1. PICK v \in T : TRUE
    OBVIOUS
  <2>2. n - v \in 0..n /\ n - (n - v) = v
    OBVIOUS
  <2> QED
    BY <2>1, <2>2
<1>2. PICK m \in U : \A k \in U : m <= k
  <2>1. U \subseteq Nat
    OBVIOUS
  <2> HIDE DEF U
  <2> QED
    BY <1>1, <2>1, MinExists
<1>3. ASSUME NEW w \in T PROVE w <= n - m
  <2>1. n - w \in 0..n /\ n - (n - w) = w
    OBVIOUS
  <2>2. n - w \in U
    BY <2>1
  <2>3. m <= n - w
    BY <1>2, <2>2
  <2>4. m \in 0..n /\ w \in 0..n
    OBVIOUS
  <2> HIDE DEF U
  <2> QED
    BY <2>3, <2>4
<1>4. n - m \in T
  OBVIOUS
<1> QED
  BY <1>3, <1>4

\* Floors are bounded, so a request that begins finds the newest of them.
LEMMA NewestGivenType ==
    ASSUME TypeOK, NEW r \in Readers
    PROVE  /\ Given \subseteq Versions
           /\ NewestGiven \in Given
           /\ \A w \in Given : w <= NewestGiven
<1>1. Given \subseteq Versions /\ Given # {}
  BY DEF TypeOK, Given
<1>2. \E v \in Given : \A w \in Given : w <= v
  BY <1>1, MaxExists, CacheAssumption DEF Versions
<1> QED
  BY <1>1, <1>2 DEF NewestGiven

----------------------------------------------------------------------------
(* The types alone are not inductive: that the cache is filled with a       *)
(* version needs what a leader holds between its load and its fill.         *)
TypeInv ==
    /\ TypeOK
    /\ \A r \in Readers : At(r, "set") => reader[r].res \in Versions

LEMMA CacheInitType == Init => TypeInv
<1> SUFFICES ASSUME Init PROVE TypeInv
  OBVIOUS
<1>1. 0 \in Versions
  BY CacheAssumption DEF Versions
<1>2. unfilled \in BOOLEAN
  BY DEF Init
<1>3. reader \in [Readers -> [pc : Pcs, res : Outcomes \cup {None}, floor : Versions]]
  BY <1>1 DEF Init, Pcs
<1> QED
  BY <1>1, <1>2, <1>3 DEF Init, TypeInv, TypeOK, At

\* One reader goes on, and the others stay where they are.
LEMMA GotoType ==
    ASSUME TypeInv, NEW r \in Readers, NEW pc \in Pcs, NEW res \in Outcomes \cup {None},
           Goto(r, pc, res), pc = "set" => res \in Versions
    PROVE  /\ reader' \in [Readers -> [pc : Pcs, res : Outcomes \cup {None}, floor : Versions]]
           /\ \A q \in Readers : At(q, "set")' => reader'[q].res \in Versions
  BY DEF TypeInv, TypeOK, Goto, At

LEMMA CacheNextType == TypeInv /\ [Next]_vars => TypeInv'
<1> SUFFICES ASSUME TypeInv, [Next]_vars PROVE TypeInv'
  OBVIOUS
<1> USE CacheAssumption
<1>1. CASE UNCHANGED vars
  BY <1>1 DEF TypeInv, TypeOK, At, vars
<1>2. CASE Write \/ Expire
  BY <1>2 DEF TypeInv, TypeOK, At, Write, Expire, Versions
<1>3. ASSUME NEW r \in Readers, Begin(r) PROVE TypeInv'
  <2>1. NewestGiven \in Versions
    BY NewestGivenType DEF TypeInv
  <2> QED
    BY <1>3, <2>1 DEF TypeInv, TypeOK, At, Begin, Pcs
<1>4. ASSUME NEW r \in Readers, Get(r) PROVE TypeInv'
  <2>1. PICK pc \in Pcs, res \in Outcomes \cup {None} : Goto(r, pc, res) /\ pc # "set"
    BY <1>4 DEF Get, Pcs, Outcomes, TypeInv, TypeOK
  <2> QED
    BY <1>4, <2>1, GotoType DEF TypeInv, TypeOK, Get
<1>5. ASSUME NEW r \in Readers, Do(r) PROVE TypeInv'
  <2>1. PICK pc \in Pcs : Goto(r, pc, None) /\ pc # "set"
    BY <1>5 DEF Do, Pcs
  <2>2. flight' \in [Processes -> Readers \cup {None}]
    BY <1>5 DEF TypeInv, TypeOK, Do
  <2> QED
    BY <1>5, <2>1, <2>2, GotoType DEF TypeInv, TypeOK, Do
<1>6. ASSUME NEW r \in Readers, Load(r) PROVE TypeInv'
  <2>1. PICK pc \in Pcs, res \in Outcomes :
            Goto(r, pc, res) /\ (pc = "set" => res \in Versions)
    BY <1>6 DEF Load, Pcs, Outcomes, TypeInv, TypeOK
  <2> QED
    BY <1>6, <2>1, GotoType DEF TypeInv, TypeOK, Load
<1>7. ASSUME NEW r \in Readers, Set(r) PROVE TypeInv'
  <2>1. unfilled' \in BOOLEAN
    BY <1>7 DEF TypeInv, TypeOK, Set
  <2>2. reader[r].res \in Versions /\ "finish" \in Pcs
    BY <1>7 DEF TypeInv, Set, Pcs
  <2>3. Goto(r, "finish", reader[r].res)
    BY <1>7 DEF Set
  <2>4. /\ reader' \in [Readers -> [pc : Pcs, res : Outcomes \cup {None}, floor : Versions]]
        /\ \A q \in Readers : At(q, "set")' => reader'[q].res \in Versions
    BY <2>2, <2>3, GotoType DEF Outcomes
  <2> QED
    BY <1>7, <2>1, <2>2, <2>4 DEF TypeInv, TypeOK, Set
<1>8. ASSUME NEW r \in Readers, Finish(r) PROVE TypeInv'
  <2>1. flight' \in [Processes -> Readers \cup {None}]
    BY <1>8 DEF TypeInv, TypeOK, Finish
  <2> DEFINE Row == [pc : Pcs, res : Outcomes \cup {None}, floor : Versions]
  <2>2. ASSUME NEW q \in Readers
        PROVE  [reader[q] EXCEPT !.pc = "idle", !.res = reader[r].res] \in Row
    BY DEF TypeInv, TypeOK, Pcs
  <2>3. reader' \in [Readers -> Row]
    BY <1>8, <2>2 DEF TypeInv, TypeOK, Finish
  <2>4. ASSUME NEW q \in Readers, At(q, "set")' PROVE At(q, "set") /\ reader'[q] = reader[q]
    <3>1. reader'[q] = IF q \in Party(r)
                       THEN [reader[q] EXCEPT !.pc = "idle", !.res = reader[r].res]
                       ELSE reader[q]
      BY <1>8 DEF Finish
    <3>2. reader[q] \in Row
      BY DEF TypeInv, TypeOK
    <3>3. q \notin Party(r)
      BY <2>4, <3>1, <3>2 DEF At
    <3> QED
      BY <2>4, <3>1, <3>3 DEF At
  <2>5. \A q \in Readers : At(q, "set")' => reader'[q].res \in Versions
    BY <2>4 DEF TypeInv
  <2>6. UNCHANGED <<source, cached, processOf, unfilled>>
    BY <1>8 DEF Finish
  <2>7. TypeOK'
    BY <2>1, <2>3, <2>6 DEF TypeInv, TypeOK
  <2> QED
    BY <2>5, <2>7 DEF TypeInv
<1> QED
  BY <1>1, <1>2, <1>3, <1>4, <1>5, <1>6, <1>7, <1>8 DEF Next, Serve

(* Every step of every reader keeps the types: the cache holds a version    *)
(* or nothing, a group is led by a reader or by nobody.                     *)
THEOREM CacheTyped == Spec => []TypeInv
  BY CacheInitType, CacheNextType, PTL DEF Spec

----------------------------------------------------------------------------
\* What the end of a flight gives to those that shared it, and to no other.
LEMMA PartyAnswered ==
    ASSUME TypeInv, NEW r \in Readers, Finish(r), NEW q \in Readers
    PROVE  /\ q \in Party(r) =>
                  /\ reader'[q].pc = "idle" /\ reader'[q].res = reader[r].res
                  /\ reader'[q].floor = reader[q].floor
           /\ q \notin Party(r) => reader'[q] = reader[q]
<1>1. reader[q] \in [pc : Pcs, res : Outcomes \cup {None}, floor : Versions]
  BY DEF TypeInv, TypeOK
<1>2. reader'[q] = IF q \in Party(r)
                   THEN [reader[q] EXCEPT !.pc = "idle", !.res = reader[r].res]
                   ELSE reader[q]
  BY DEF Finish
<1> QED
  BY <1>1, <1>2

LEMMA FlightsLedNext == TypeInv /\ FlightsLed /\ [Next]_vars => FlightsLed'
<1> SUFFICES ASSUME TypeInv, FlightsLed, [Next]_vars PROVE FlightsLed'
  OBVIOUS
<1> USE CacheAssumption DEF FlightsLed, TypeInv, TypeOK, At
<1>1. CASE UNCHANGED vars
  BY <1>1 DEF vars
<1>2. CASE Write \/ Expire
  BY <1>2 DEF Write, Expire
<1>3. ASSUME NEW r \in Readers, Begin(r) PROVE FlightsLed'
  BY <1>3 DEF Begin
<1>4. ASSUME NEW r \in Readers, Get(r) PROVE FlightsLed'
  BY <1>4 DEF Get, Goto
<1>5. ASSUME NEW r \in Readers, Do(r) PROVE FlightsLed'
  <2>1. CASE flight[processOf[r]] = None
    BY <1>5, <2>1 DEF Do, Goto
  <2>2. CASE flight[processOf[r]] # None
    BY <1>5, <2>2 DEF Do, Goto
  <2> QED
    BY <2>1, <2>2
<1>6. ASSUME NEW r \in Readers, Load(r) PROVE FlightsLed'
  BY <1>6 DEF Load, Goto
<1>7. ASSUME NEW r \in Readers, Set(r) PROVE FlightsLed'
  BY <1>7 DEF Set, Goto
<1>8. ASSUME NEW r \in Readers, Finish(r) PROVE FlightsLed'
  <2>1. reader[r].pc = "finish" /\ flight[processOf[r]] = r
    BY <1>8 DEF Finish
  <2>2. \A q \in Readers : processOf'[q] = processOf[q] /\ processOf[q] \in Processes
    <3>1. processOf' = processOf
      BY <1>8 DEF Finish
    <3>2. processOf \in [Readers -> Processes]
      BY CacheAssumption
    <3> QED
      BY <3>1, <3>2
  <2>3. \A q \in Readers :
            flight'[processOf[q]] =
                IF processOf[q] = processOf[r] THEN None ELSE flight[processOf[q]]
    <3>1. flight' = [flight EXCEPT ![processOf[r]] = None]
      BY <1>8 DEF Finish
    <3>2. flight \in [Processes -> Readers \cup {None}]
      OBVIOUS
    <3> HIDE DEF TypeOK, TypeInv, FlightsLed
    <3> QED
      BY <2>2, <3>1, <3>2
  <2>4. ASSUME NEW q \in Readers, processOf[q] = processOf[r]
        PROVE  reader'[q].pc \notin {"load", "set", "finish", "wait"}
    <3>1. CASE q \in Party(r)
      BY <1>8, <3>1, PartyAnswered
    <3>2. CASE q \notin Party(r)
      <4>1. reader'[q] = reader[q] /\ q # r /\ reader[q].pc # "wait"
        BY <1>8, <2>4, <3>2, PartyAnswered DEF Party
      <4> QED
        BY <2>1, <2>4, <4>1
    <3> QED
      BY <3>1, <3>2
  <2>5. ASSUME NEW q \in Readers, processOf[q] # processOf[r]
        PROVE  reader'[q] = reader[q]
    BY <1>8, <2>5, PartyAnswered DEF Party
  <2>6. None \notin Readers
    BY CacheAssumption
  <2> QED
    BY <2>2, <2>3, <2>4, <2>5, <2>6
<1> QED
  BY <1>1, <1>2, <1>3, <1>4, <1>5, <1>6, <1>7, <1>8 DEF Next, Serve

LEMMA FlightsLedInit == Init => FlightsLed
<1> SUFFICES ASSUME Init PROVE FlightsLed
  OBVIOUS
<1>1. \A p \in Processes : flight[p] = None
  BY DEF Init
<1>2. \A r \in Readers : reader[r].pc = "idle" /\ processOf[r] \in Processes /\ r # None
  BY CacheAssumption DEF Init
<1> QED
  BY <1>1, <1>2 DEF FlightsLed, At

(* Singleflight: in a process the group is led by the one reader that       *)
(* loads, and who waits has a leader, however requests interleave and       *)
(* whichever of their contexts end.                                         *)
THEOREM FlightsAlwaysLed == Spec => []FlightsLed
  BY FlightsLedInit, FlightsLedNext, CacheTyped, PTL DEF Spec

----------------------------------------------------------------------------
LEMMA OnlyPublishedNext == TypeInv /\ OnlyPublished /\ [Next]_vars => OnlyPublished'
<1> SUFFICES ASSUME TypeInv, OnlyPublished, [Next]_vars PROVE OnlyPublished'
  OBVIOUS
<1>0. None \notin Hidden /\ NotFound \notin Hidden /\ Cut \notin Hidden
  BY CacheAssumption
<1> USE <1>0 DEF OnlyPublished, TypeInv, TypeOK, At
<1>1. CASE UNCHANGED vars
  BY <1>1 DEF vars
<1>2. CASE Write \/ Expire
  BY <1>2 DEF Write, Expire
<1>3. ASSUME NEW r \in Readers, Begin(r) PROVE OnlyPublished'
  BY <1>3 DEF Begin
<1>4. ASSUME NEW r \in Readers, Get(r) PROVE OnlyPublished'
  BY <1>4 DEF Get, Goto
<1>5. ASSUME NEW r \in Readers, Do(r) PROVE OnlyPublished'
  BY <1>5 DEF Do, Goto
<1>6. ASSUME NEW r \in Readers, Load(r) PROVE OnlyPublished'
  BY <1>6 DEF Load, Goto
<1>7. ASSUME NEW r \in Readers, Set(r) PROVE OnlyPublished'
  BY <1>7 DEF Set, Goto
<1>8. ASSUME NEW r \in Readers, Finish(r) PROVE OnlyPublished'
  BY <1>8 DEF Finish
<1> QED
  BY <1>1, <1>2, <1>3, <1>4, <1>5, <1>6, <1>7, <1>8 DEF Next, Serve

(* A version of the row that is hidden is never cached and never given,    *)
(* also not to those that joined a load of another reader.                 *)
THEOREM OnlyPublishedGiven == Spec => []OnlyPublished
<1>1. Init => OnlyPublished
  BY CacheAssumption DEF Init, OnlyPublished
<1> QED
  BY <1>1, OnlyPublishedNext, CacheTyped, PTL DEF Spec

----------------------------------------------------------------------------
(* Why reads of one process do not go back: what has been given is no newer *)
(* than what the cache holds, what the leader has loaded or what the store  *)
(* holds, and the leader is alone with what it has loaded.                  *)
OneProcess == ~unfilled /\ \A r, q \in Readers : processOf[r] = processOf[q]

GivenBelow(v) == \A w \in Given : w <= v

CacheBetween ==
    /\ GivenBelow(source)
    /\ cached # None => cached <= source /\ GivenBelow(cached)

LoadedIsNewest(r) ==
    At(r, "set") => /\ reader[r].res <= source /\ GivenBelow(reader[r].res)
                    /\ cached # None => cached <= reader[r].res

FilledIsNewest(r) ==
    At(r, "finish") /\ reader[r].res \in Versions =>
        /\ reader[r].res <= source /\ GivenBelow(reader[r].res)
        /\ cached \in {None, reader[r].res}

AnswerIsNew(r) ==
    At(r, "idle") /\ reader[r].res \in Versions => reader[r].floor <= reader[r].res

Monotone ==
    OneProcess =>
        /\ CacheBetween
        /\ \A r \in Readers : LoadedIsNewest(r) /\ FilledIsNewest(r) /\ AnswerIsNew(r)

\* Only an answer can add to what has been given.
LEMMA GivenGrows ==
    ASSUME NEW x,
           \A q \in Readers : reader'[q].floor \in Given,
           \A q \in Readers : At(q, "idle")' /\ reader'[q].res \in Versions =>
               reader'[q].res \in Given \cup {x}
    PROVE  Given' \subseteq Given \cup {x}
  BY DEF Given, Versions

\* What a reader has been given, or had when it started, is in Given.
LEMMA GivenHas ==
    ASSUME NEW q \in Readers
    PROVE  /\ reader[q].floor \in Given
           /\ At(q, "idle") /\ reader[q].res \in Versions => reader[q].res \in Given
  BY DEF Given

(* The frame of the steps of one reader: if what it is given is x, and the  *)
(* others stay as they are, only x is new.                                  *)
LEMMA StepGives ==
    ASSUME TypeInv, NEW r \in Readers, NEW pc \in Pcs, NEW x, Goto(r, pc, x)
    PROVE  /\ \A q \in Readers : q # r => reader'[q] = reader[q]
           /\ reader'[r].pc = pc /\ reader'[r].res = x
           /\ reader'[r].floor = reader[r].floor
           /\ Given' \subseteq Given \cup {x}
           /\ pc # "idle" => Given' \subseteq Given
<1> reader \in [Readers -> [pc : Pcs, res : Outcomes \cup {None}, floor : Versions]]
  BY DEF TypeInv, TypeOK
<1>1. /\ \A q \in Readers : q # r => reader'[q] = reader[q]
      /\ reader'[r].pc = pc /\ reader'[r].res = x
      /\ reader'[r].floor = reader[r].floor
  BY DEF Goto
<1>2. \A q \in Readers : reader'[q].floor \in Given
  BY <1>1, GivenHas
<1>3. \A q \in Readers : At(q, "idle")' /\ reader'[q].res \in Versions =>
          reader'[q].res \in Given \cup {x}
  BY <1>1, GivenHas DEF At
<1>4. Given' \subseteq Given \cup {x}
  BY <1>2, <1>3, GivenGrows
<1>5. ASSUME pc # "idle" PROVE Given' \subseteq Given
  <2>1. \A q \in Readers : At(q, "idle")' => q # r
    BY <1>1, <1>5 DEF At
  <2>2. \A q \in Readers : At(q, "idle")' /\ reader'[q].res \in Versions =>
            reader'[q].res \in Given
    BY <1>1, <2>1, GivenHas DEF At
  <2> QED
    BY <1>2, <2>2 DEF Given, Versions
<1> QED
  BY <1>1, <1>4, <1>5

\* Floors and versions are numbers.
LEMMA CacheNumbers ==
    ASSUME TypeInv
    PROVE  /\ Versions \subseteq Nat /\ source \in Nat /\ None \notin Versions
           /\ cached # None => cached \in Nat
           /\ Given \subseteq Nat
           /\ \A r \in Readers : reader[r].floor \in Nat
           /\ \A r \in Readers : At(r, "set") => reader[r].res \in Nat
  BY CacheAssumption DEF TypeInv, TypeOK, Versions, Given

\* Requests stay with their process, and a failed fill is remembered.
LEMMA OneProcessKept ==
    ASSUME [Next]_vars, OneProcess'
    PROVE  OneProcess
<1>1. processOf' = processOf /\ (unfilled' = unfilled \/ unfilled' = TRUE)
  <2>1. CASE UNCHANGED vars
    BY <2>1 DEF vars
  <2>2. CASE Write \/ Expire
    BY <2>2 DEF Write, Expire
  <2>3. ASSUME NEW r \in Readers, Begin(r) \/ Get(r) \/ Do(r) \/ Load(r)
        PROVE  processOf' = processOf /\ unfilled' = unfilled
    BY <2>3 DEF Begin, Get, Do, Load
  <2>4. ASSUME NEW r \in Readers, Set(r)
        PROVE  processOf' = processOf /\ (unfilled' = unfilled \/ unfilled' = TRUE)
    BY <2>4 DEF Set
  <2>5. ASSUME NEW r \in Readers, Finish(r)
        PROVE  processOf' = processOf /\ unfilled' = unfilled
    <3>1. UNCHANGED <<source, cached, processOf, unfilled>>
      BY <2>5 DEF Finish
    <3> QED
      BY <3>1
  <2> QED
    BY <2>1, <2>2, <2>3, <2>4, <2>5 DEF Next, Serve
<1>2. CASE unfilled' = TRUE
  BY <1>2 DEF OneProcess
<1>3. CASE unfilled' = unfilled
  BY <1>1, <1>3 DEF OneProcess
<1> QED
  BY <1>1, <1>2, <1>3

LEMMA MonotoneNext ==
    TypeInv /\ FlightsLed /\ Monotone /\ [Next]_vars => Monotone'
<1> SUFFICES ASSUME TypeInv, FlightsLed, Monotone, [Next]_vars, OneProcess'
             PROVE  /\ CacheBetween'
                    /\ \A q \in Readers : LoadedIsNewest(q)' /\ FilledIsNewest(q)'
                                                             /\ AnswerIsNew(q)'
  BY DEF Monotone
<1> DEFINE Goal == /\ CacheBetween'
                   /\ \A q \in Readers : LoadedIsNewest(q)' /\ FilledIsNewest(q)'
                                                            /\ AnswerIsNew(q)'
<1>2. OneProcess
  BY OneProcessKept
<1>3. CacheBetween /\ \A q \in Readers : LoadedIsNewest(q) /\ FilledIsNewest(q) /\ AnswerIsNew(q)
  BY <1>2 DEF Monotone
<1>4. ASSUME NEW r \in Readers, NEW q \in Readers,
             reader[r].pc \in {"load", "set", "finish"},
             reader[q].pc \in {"load", "set", "finish"}
      PROVE  q = r
  BY <1>2, <1>4 DEF FlightsLed, OneProcess
<1> USE <1>3, CacheNumbers DEF CacheBetween, LoadedIsNewest, FilledIsNewest, AnswerIsNew,
                               GivenBelow
<1>5. CASE UNCHANGED vars
  BY <1>5 DEF vars, Given, At
<1>6. CASE Write
  BY <1>6 DEF Write, Given, At
<1>7. CASE Expire
  BY <1>7 DEF Expire, Given, At
<1>8. ASSUME NEW r \in Readers, Begin(r) PROVE Goal
  <2>1. \A q \in Readers : q # r => reader'[q] = reader[q]
    BY <1>8 DEF Begin, TypeInv, TypeOK
  <2>2. reader'[r].pc = "get" /\ reader'[r].floor = NewestGiven
    BY <1>8 DEF Begin, TypeInv, TypeOK
  <2>3. Given' \subseteq Given
    <3>1. NewestGiven \in Given
      BY NewestGivenType DEF TypeInv
    <3>2. \A q \in Readers : reader'[q].floor \in Given
      BY <2>1, <2>2, <3>1, GivenHas
    <3>3. \A q \in Readers : At(q, "idle")' /\ reader'[q].res \in Versions =>
              reader'[q].res \in Given
      BY <2>1, <2>2, GivenHas DEF At
    <3> QED
      BY <3>2, <3>3 DEF Given, Versions
  <2>4. source' = source /\ cached' = cached
    BY <1>8 DEF Begin
  <2> QED
    BY <2>1, <2>2, <2>3, <2>4 DEF At
<1>9. ASSUME NEW r \in Readers, Get(r) PROVE Goal
  <2>1. source' = source /\ cached' = cached /\ At(r, "get")
    BY <1>9 DEF Get
  <2>2. CASE cached # None /\ Goto(r, "idle", cached)
    <3>1. /\ \A q \in Readers : q # r => reader'[q] = reader[q]
          /\ reader'[r].pc = "idle" /\ reader'[r].res = cached
          /\ reader'[r].floor = reader[r].floor
          /\ Given' \subseteq Given \cup {cached}
      BY <2>2, StepGives DEF Pcs
    <3>2. reader[r].floor <= cached
      BY <2>2, GivenHas
    <3> QED
      BY <2>1, <2>2, <3>1, <3>2 DEF At
  <2>3. CASE Goto(r, "do", None)
    <3>1. /\ \A q \in Readers : q # r => reader'[q] = reader[q]
          /\ reader'[r].pc = "do" /\ Given' \subseteq Given
      BY <2>3, StepGives DEF Pcs
    <3> QED
      BY <2>1, <3>1 DEF At
  <2> QED
    BY <1>9, <2>2, <2>3 DEF Get
<1>10. ASSUME NEW r \in Readers, Do(r) PROVE Goal
  <2>1. PICK pc \in {"load", "wait"} : Goto(r, pc, None)
    BY <1>10 DEF Do
  <2>2. /\ \A q \in Readers : q # r => reader'[q] = reader[q]
        /\ reader'[r].pc = pc /\ Given' \subseteq Given
    BY <2>1, StepGives DEF Pcs
  <2>3. source' = source /\ cached' = cached
    BY <1>10 DEF Do
  <2> QED
    BY <2>2, <2>3 DEF At
<1>11. ASSUME NEW r \in Readers, Load(r) PROVE Goal
  <2>1. PICK pc \in {"set", "finish"}, x \in {source, NotFound, Cut} :
            Goto(r, pc, x) /\ (pc = "set" => x = source) /\ (pc = "finish" => x # source)
    <3>1. source \notin {NotFound, Cut}
      BY CacheAssumption DEF TypeInv, TypeOK
    <3> QED
      BY <1>11, <3>1 DEF Load
  <2>2. /\ \A q \in Readers : q # r => reader'[q] = reader[q]
        /\ reader'[r].pc = pc /\ reader'[r].res = x /\ Given' \subseteq Given
    BY <2>1, StepGives DEF Pcs
  <2>3. source' = source /\ cached' = cached
    BY <1>11 DEF Load
  <2>4. pc = "finish" => x \notin Versions
    BY <2>1, CacheAssumption
  <2> QED
    BY <2>1, <2>2, <2>3, <2>4 DEF At
<1>12. ASSUME NEW r \in Readers, Set(r) PROVE Goal
  <2>1. At(r, "set") /\ Goto(r, "finish", reader[r].res) /\ source' = source
    BY <1>12 DEF Set
  <2>2. cached' = reader[r].res
    BY <1>12 DEF Set, OneProcess
  <2>3. /\ \A q \in Readers : q # r => reader'[q] = reader[q]
        /\ reader'[r].pc = "finish" /\ reader'[r].res = reader[r].res
        /\ Given' \subseteq Given
    BY <2>1, StepGives DEF Pcs
  <2>4. \A q \in Readers : q # r => ~At(q, "set") /\ ~At(q, "finish")
    BY <1>4, <2>1 DEF At
  <2> QED
    BY <2>1, <2>2, <2>3, <2>4 DEF At
<1>13. ASSUME NEW r \in Readers, Finish(r) PROVE Goal
  <2>1. At(r, "finish") /\ source' = source /\ cached' = cached
    BY <1>13 DEF Finish
  <2>2. \A q \in Readers : reader'[q].floor = reader[q].floor
    BY <1>13, PartyAnswered
  <2>3. \A q \in Readers : reader'[q] = reader[q] \/
            (reader'[q].pc = "idle" /\ reader'[q].res = reader[r].res)
    BY <1>13, PartyAnswered
  <2>4. \A q \in Readers : ~At(q, "set")' /\ ~At(q, "finish")'
    <3> SUFFICES ASSUME NEW q \in Readers PROVE ~At(q, "set")' /\ ~At(q, "finish")'
      OBVIOUS
    <3>1. q = r => reader'[q].pc = "idle"
      BY <1>13, PartyAnswered DEF Party
    <3>2. q # r => ~At(q, "set") /\ ~At(q, "finish")
      BY <1>4, <2>1 DEF At
    <3> QED
      BY <2>3, <3>1, <3>2 DEF At
  <2>5. Given' \subseteq Given \cup ({reader[r].res} \cap Versions)
    <3>1. \A q \in Readers : reader'[q].floor \in Given
      BY <2>2, GivenHas
    <3>2. \A q \in Readers : At(q, "idle")' /\ reader'[q].res \in Versions =>
              reader'[q].res \in Given \cup ({reader[r].res} \cap Versions)
      BY <2>3, GivenHas DEF At
    <3> QED
      BY <3>1, <3>2 DEF Given, Versions
  <2>6. reader[r].res \in Versions =>
            /\ reader[r].res \in Nat /\ reader[r].res <= source
            /\ \A w \in Given : w <= reader[r].res
            /\ cached # None => cached = reader[r].res
    BY <2>1 DEF Versions
  <2>7. CacheBetween'
    BY <2>1, <2>5, <2>6
  <2>8. ASSUME NEW q \in Readers PROVE AnswerIsNew(q)'
    BY <2>2, <2>3, <2>6, GivenHas DEF At
  <2> QED
    BY <2>4, <2>7, <2>8
<1> QED
  BY <1>5, <1>6, <1>7, <1>8, <1>9, <1>10, <1>11, <1>12, <1>13 DEF Next, Serve

(* In one process whose fills have not failed, a request never answers an   *)
(* older version than one that was given before it began, although loads    *)
(* of older versions are under way when it starts.                          *)
THEOREM ReadsOfAProcessGoOn == Spec => []ReadsNeverGoBack
<1>1. Init => Monotone
  <2> SUFFICES ASSUME Init PROVE Monotone
    OBVIOUS
  <2>1. \A r \in Readers : At(r, "idle") /\ reader[r].res = None /\ reader[r].floor = 0
    BY DEF Init, At
  <2>2. None \notin Versions
    BY CacheAssumption
  <2>3. Given \subseteq {0} /\ source = 0 /\ cached = None
    BY <2>1, <2>2 DEF Given, Init
  <2> QED
    BY <2>1, <2>2, <2>3 DEF Monotone, CacheBetween, GivenBelow, LoadedIsNewest, FilledIsNewest,
                            AnswerIsNew, At
<1>2. Init => FlightsLed
  BY FlightsLedInit
<1>3. TypeInv /\ Monotone => ReadsNeverGoBack
  BY CacheNumbers DEF Monotone, OneProcess, AnswerIsNew, ReadsNeverGoBack, Versions
<1> QED
  BY <1>1, <1>2, <1>3, FlightsLedNext, MonotoneNext, CacheTyped, PTL DEF Spec
=============================================================================
