----------------------------- MODULE MCReadCache -----------------------------
(* Small instances of ReadCache: a row that is a draft, is published, is   *)
(* taken down by a stale write, and is published and edited again.         *)
EXTENDS ReadCache, TLC

CONSTANTS r1, r2, r3, p1, p2

MCReaders == {r1, r2, r3}

\* All requests to one process, or one of them to another.
MCPlacements == {[r \in MCReaders |-> p1], r1 :> p1 @@ r2 :> p1 @@ r3 :> p2}

MCHidden == {0, 2}
=============================================================================
