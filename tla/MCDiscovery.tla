---------------------------- MODULE MCDiscovery ----------------------------
(* A small instance of Discovery: an editor, an import and a reader, and   *)
(* one slug that is asked for, which shows and episodes may have.          *)
EXTENDS Discovery, MCWritePath

\* The feed and its item have the slug g1; the title has another.
AskedSlugify == [x \in FewNames |-> IF x = "t1" THEN "t1" ELSE "g1"]
=============================================================================
