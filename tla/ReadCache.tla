------------------------------ MODULE ReadCache ------------------------------
(***************************************************************************)
(* One key of the read-path cache (internal/cache): Remember answers from  *)
(* the cache or, on a miss, through a singleflight group that one process  *)
(* has for the key: the first caller loads from the store and fills the    *)
(* cache, the others wait for its outcome.  The processes of the Discovery *)
(* service share the cache (Redis) and the store, each with a group of its *)
(* own.  Keys do not interact, so one is enough.                           *)
(*                                                                         *)
(* The store's row goes through numbered versions; at those in Hidden it   *)
(* is absent or not published, and load answers ErrNotFound.               *)
(***************************************************************************)
EXTENDS Naturals

CONSTANTS
    Processes, Readers,             \* readers are requests to a process each
    Placements,                     \* which readers may be with which process
    MaxVersion, Hidden,             \* bound on the versions of the row
    Unreliable,                     \* readers whose context may end
    GetFails, SetFails,             \* whether calls of the cache may fail
    NotFound, Cut,                  \* the errors of a load: no row, ctx ended
    None

Versions == 0..MaxVersion

ASSUME CacheAssumption ==
    /\ Placements \subseteq [Readers -> Processes]
    /\ MaxVersion \in Nat
    /\ Hidden \subseteq Versions
    /\ Unreliable \subseteq Readers
    /\ GetFails \in BOOLEAN /\ SetFails \in BOOLEAN
    /\ {NotFound, Cut, None} \cap (Versions \cup Readers) = {}
    /\ NotFound # Cut /\ None \notin {NotFound, Cut}

VARIABLES
    source,     \* the version of the row in the store
    cached,     \* the version the cache holds, or None
    flight,     \* flight[p]: the reader leading the group of p, or None
    reader,     \* reader[r]: the request r is serving, or served last
    processOf,  \* processOf[r]: where the requests of r arrive
    unfilled    \* whether a fill of the cache has failed: history, for a property

vars == <<source, cached, flight, reader, processOf, unfilled>>

Outcomes == Versions \cup {NotFound, Cut}

(* res is what the reader has: the answer it gave, or what its load found. *)
(* floor is the newest version any reader had been given when it started;  *)
(* the code keeps no such thing.                                           *)
Pcs == {"idle", "get", "do", "wait", "load", "set", "finish"}

TypeOK ==
    /\ source \in Versions
    /\ cached \in Versions \cup {None}
    /\ flight \in [Processes -> Readers \cup {None}]
    /\ reader \in [Readers -> [pc : Pcs, res : Outcomes \cup {None}, floor : Versions]]
    /\ processOf \in Placements /\ unfilled \in BOOLEAN

Init ==
    /\ source = 0
    /\ cached = None
    /\ flight = [p \in Processes |-> None]
    /\ reader = [r \in Readers |-> [pc |-> "idle", res |-> None, floor |-> 0]]
    /\ processOf \in Placements /\ unfilled = FALSE

At(r, pc) == reader[r].pc = pc
Goto(r, pc, res) == reader' = [reader EXCEPT ![r].pc = pc, ![r].res = res]

\* What readers have been given so far, or had when they started.
Given == {reader[r].floor : r \in Readers} \cup
         {v \in Versions : \E r \in Readers : At(r, "idle") /\ reader[r].res = v}

NewestGiven == CHOOSE v \in Given : \A w \in Given : w <= v

----------------------------------------------------------------------------
\* An editor or an import writes the row.
Write ==
    /\ source < MaxVersion
    /\ source' = source + 1
    /\ UNCHANGED <<cached, flight, reader, processOf, unfilled>>

\* Mutant: reading the entry prolongs its life.
ExpireUnread ==
    /\ cached # None /\ \A r \in Readers : At(r, "idle")
    /\ cached' = None
    /\ UNCHANGED <<source, flight, reader, processOf, unfilled>>

\* The entry's time to live is over.
Expire ==
    /\ cached # None
    /\ cached' = None
    /\ UNCHANGED <<source, flight, reader, processOf, unfilled>>

Begin(r) ==
    /\ At(r, "idle")
    /\ reader' = [reader EXCEPT ![r] =
          [pc |-> "get", res |-> None, floor |-> NewestGiven]]
    /\ UNCHANGED <<source, cached, flight, processOf, unfilled>>

\* A Get that fails, or whose bytes do not decode, counts as a miss.
Get(r) ==
    /\ At(r, "get")
    /\ \/ cached # None /\ Goto(r, "idle", cached)
       \/ (cached = None \/ GetFails) /\ Goto(r, "do", None)
    /\ UNCHANGED <<source, cached, flight, processOf, unfilled>>

\* Mutant: every miss loads.
DoEach(r) ==
    /\ At(r, "do")
    /\ Goto(r, "load", None)
    /\ flight' = [flight EXCEPT ![processOf[r]] = r]
    /\ UNCHANGED <<source, cached, processOf, unfilled>>

\* group.Do: join the flight of the key, or lead one.
Do(r) ==
    /\ At(r, "do")
    /\ IF flight[processOf[r]] = None
       THEN Goto(r, "load", None) /\ flight' = [flight EXCEPT ![processOf[r]] = r]
       ELSE Goto(r, "wait", None) /\ UNCHANGED flight
    /\ UNCHANGED <<source, cached, processOf, unfilled>>

\* Mutant: a row that is not published is given too.
LoadAny(r) ==
    /\ At(r, "load")
    /\ \/ Goto(r, "set", source)
       \/ r \in Unreliable /\ Goto(r, "finish", Cut)
    /\ UNCHANGED <<source, cached, flight, processOf, unfilled>>

\* An error is not cached; the leader's context may end during the load.
Load(r) ==
    /\ At(r, "load")
    /\ \/ IF source \in Hidden THEN Goto(r, "finish", NotFound)
                               ELSE Goto(r, "set", source)
       \/ r \in Unreliable /\ Goto(r, "finish", Cut)
    /\ UNCHANGED <<source, cached, flight, processOf, unfilled>>

\* A Set that fails, as it may when the leader's context ends, is logged only.
Set(r) ==
    /\ At(r, "set")
    /\ Goto(r, "finish", reader[r].res)
    /\ \/ cached' = reader[r].res /\ UNCHANGED unfilled
       \/ (SetFails \/ r \in Unreliable) /\ UNCHANGED cached /\ unfilled' = TRUE
    /\ UNCHANGED <<source, flight, processOf>>

\* The readers that get the outcome of r's flight.
Party(r) == {r} \cup {q \in Readers : processOf[q] = processOf[r] /\ At(q, "wait")}

\* Mutant: a flight whose load failed is not taken out of the group.
FinishKeeps(r) ==
    /\ At(r, "finish")
    /\ flight' = [flight EXCEPT ![processOf[r]] =
                     IF reader[r].res \in Versions THEN None ELSE @]
    /\ reader' = [q \in Readers |->
          IF q \in Party(r) THEN [reader[q] EXCEPT !.pc = "idle", !.res = reader[r].res]
                            ELSE reader[q]]
    /\ UNCHANGED <<source, cached, processOf, unfilled>>

\* The flight ends: the leader and all that joined it have its outcome.
Finish(r) ==
    /\ At(r, "finish")
    /\ flight' = [flight EXCEPT ![processOf[r]] = None]
    /\ reader' = [q \in Readers |->
          IF q \in Party(r) THEN [reader[q] EXCEPT !.pc = "idle", !.res = reader[r].res]
                            ELSE reader[q]]
    /\ UNCHANGED <<source, cached, processOf, unfilled>>

Serve(r) == Get(r) \/ Do(r) \/ Load(r) \/ Set(r) \/ Finish(r)

Next == Write \/ Expire \/ \E r \in Readers : Begin(r) \/ Serve(r)

Spec == Init /\ [][Next]_vars

(* Requests are served: the cache and the store answer, if with an error.  *)
(* An entry expires when it is old.  Nothing is assumed of editors, nor    *)
(* that anyone reads.                                                      *)
FairSpec == Spec /\ WF_vars(Expire) /\ \A r \in Readers : WF_vars(Serve(r))

----------------------------------------------------------------------------
(* Singleflight as Remember relies on it: in a process at most one reader  *)
(* loads, and who waits waits for a flight that someone leads.             *)
FlightsLed ==
    \A r \in Readers :
        /\ reader[r].pc \in {"load", "set", "finish"} <=> flight[processOf[r]] = r
        /\ At(r, "wait") => flight[processOf[r]] # None

(* With one process, reads never go back: once a reader was given a        *)
(* version, no request begun later is given an older one, although old     *)
(* loads, fills and expiries are under way.  A second process, or a fill   *)
(* that failed, may leave an older entry in the cache.                     *)
ReadsNeverGoBack ==
    (~unfilled /\ \A r, q \in Readers : processOf[r] = processOf[q]) =>
        \A r \in Readers :
            At(r, "idle") /\ reader[r].res \in Versions =>
                reader[r].res >= reader[r].floor

(* Nothing that is not published is given or cached.                       *)
OnlyPublished ==
    /\ cached \notin Hidden
    /\ \A r \in Readers : reader[r].res \notin Hidden

(* Every request returns, also those that wait for a flight that is cut.   *)
ReadsReturn == \A r \in Readers : ~At(r, "idle") ~> At(r, "idle")

(* Edits become visible: when the row changes no more, the cache is in the *)
(* end free of old versions, whatever calls of it fail.                    *)
OldVersionsGo == <>[](cached \in {None, source})
=============================================================================
