---------------------------- MODULE MCMemoryStore ----------------------------
(* Small instances of MemoryStore: ids spread over two shards; the keys    *)
(* are those of episodes of one show: a1 and a2 share the slug a.          *)
EXTENDS MemoryStore, TLC

CONSTANTS c1, c2, i1, i2

MCCallers == {c1, c2}
\* Copies are written over each other in the two catalog repositories, next
\* to creates in the one and to look-ups and lists in the other.
MCAsks ==
    "shows" :> (c1 :> {"create", "update"} @@ c2 :> {"create", "update"})
    @@ "episodes" :> (c1 :> {"create", "find", "update"} @@ c2 :> {"update", "list"})
    @@ "single" :> (c1 :> {"create", "find"} @@ c2 :> {"create"})
Creators == [k \in AllKinds |-> [c \in MCCallers |-> {"create", "list"}]]

MCIds == {i1, i2}
MCShardOf == i1 :> 1 @@ i2 :> 2

MCKeys == {"a1", "b2"}
MCClash == {<<k, k>> : k \in MCKeys}
SlugKeys == {"a1", "a2"}
SlugClash == SlugKeys \X SlugKeys
=============================================================================
