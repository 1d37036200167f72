----------------------------- MODULE MCLifecycle -----------------------------
(* Three processes, two of which are configured for one address, and a     *)
(* client whose account may be any.                                        *)
EXTENDS Lifecycle

CONSTANTS p1, p2, p3

MCProcesses == {p1, p2, p3}
MCAddress == [p \in MCProcesses |-> IF p = p3 THEN 2 ELSE 1]
MCScopes == {{}, {"users:manage"}, {"shows:read", "imports:run"}}
=============================================================================
