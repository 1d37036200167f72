------------------------------ MODULE Lifecycle ------------------------------
(***************************************************************************)
(* CMS processes from their start to their end (cmd/cms, internal/server), *)
(* on top of Bootstrap: main starts the server, which listens in a         *)
(* goroutine of its own, waits for a signal, gives the requests under way  *)
(* some time, closes the store and returns.  Clients log in at one process *)
(* and use the token at any, for no process looks up the user again.       *)
(*                                                                         *)
(* Discovery ends in the same way, its cache with the store.               *)
(***************************************************************************)
EXTENDS Bootstrap, Access

CONSTANTS
    Clients,        \* each with one account, token and request at a time
    Scopes,         \* the sets of scopes that tokens may carry
    Routes,         \* the routes asked for
    Address         \* Address[p]: where p is configured to listen

ASSUME LifecycleAssumption ==
    /\ Routes \subseteq AllRoutes
    /\ Scopes \subseteq SUBSET Permissions
    /\ None \notin Clients /\ Clients \cap Processes = {}

VARIABLES
    phase,      \* phase[p]: where p is once it is up, "new" when it is not
    overdue,    \* the processes whose Shutdown ran out of time
    account,    \* account[c]: the role and the scopes of c's tokens
    token,      \* token[c]: the row of the user that c's token names, or None
    request     \* request[c]: the request of c that a handler is serving

serverVars == <<phase, overdue>>
clientVars == <<account, token, request>>
allVars == <<vars, serverVars, clientVars>>

(* The row of the administrator is named by the process that made it; the  *)
(* rows of other users, which no process makes, by their client.           *)
Users == Processes \cup Clients

Request == [at : Processes, route : Routes, user : Users]

LifeTypeOK ==
    /\ TypeOK
    /\ phase \in [Processes -> {"new", "serving", "deaf", "draining", "closed"}]
    /\ overdue \subseteq Processes
    /\ account \in [Clients -> [role : Roles, scopes : Scopes]]
    /\ token \in [Clients -> Users \cup {None}]
    /\ request \in [Clients -> Request \cup {None}]

LifeInit ==
    /\ Init
    /\ phase = [p \in Processes |-> "new"]
    /\ overdue = {}
    /\ account \in [Clients -> [role : Roles, scopes : Scopes]]
    /\ token = [c \in Clients |-> None]
    /\ request = [c \in Clients |-> None]

Busy(p) == \E c \in Clients : request[c] # None /\ request[c].at = p

UpIn(p, ph) == proc[p] = "up" /\ phase[p] = ph

Serving(p) == UpIn(p, "serving")

Become(p, ph) == phase' = [phase EXCEPT ![p] = ph]

----------------------------------------------------------------------------
\* main, until the server is started.
BootStep(p) ==
    /\ Start(p) \/ Boot(p)
    /\ UNCHANGED <<serverVars, clientVars>>

BootFails(p) == CallFails(p) /\ UNCHANGED <<serverVars, clientVars>>

\* An error of ListenAndServe is logged, and main goes on without it.
Listen(p) ==
    /\ UpIn(p, "new")
    /\ Become(p, IF \E q \in Processes : Serving(q) /\ Address[q] = Address[p]
                 THEN "deaf" ELSE "serving")
    /\ UNCHANGED <<vars, overdue, clientVars>>

\* A signal; Shutdown closes the listener first, if there is one.
Shutdown(p) ==
    /\ \E ph \in {"new", "serving", "deaf"} : UpIn(p, ph)
    /\ Become(p, "draining")
    /\ UNCHANGED <<vars, overdue, clientVars>>

\* Shutdown returns after 5 s although handlers are running.
GraceEnds(p) ==
    /\ UpIn(p, "draining") /\ Busy(p)
    /\ overdue' = overdue \cup {p}
    /\ UNCHANGED <<vars, phase, clientVars>>

\* Mutants: Shutdown has no time limit; the store is closed before it.
CloseStoreWaits(p) ==
    /\ UpIn(p, "draining") /\ ~Busy(p)
    /\ Become(p, "closed")
    /\ UNCHANGED <<vars, overdue, clientVars>>

CloseStoreFirst(p) ==
    /\ UpIn(p, "draining")
    /\ Become(p, "closed")
    /\ UNCHANGED <<vars, overdue, clientVars>>

\* Shutdown has returned.
CloseStore(p) ==
    /\ UpIn(p, "draining") /\ (~Busy(p) \/ p \in overdue)
    /\ Become(p, "closed")
    /\ UNCHANGED <<vars, overdue, clientVars>>

\* The process ends, and with it the requests it was serving.
End(p) ==
    /\ Crash(p)
    /\ Become(p, "new")
    /\ overdue' = overdue \ {p}
    /\ request' = [c \in Clients |->
          IF request[c] # None /\ request[c].at = p THEN None ELSE request[c]]
    /\ UNCHANGED <<account, token>>

Exit(p) == UpIn(p, "closed") /\ End(p)
Kill(p) == ~UpIn(p, "closed") /\ End(p)

----------------------------------------------------------------------------
\* GetByEmail finds the row, and the password is right.
Login(c, p) ==
    /\ Serving(p) /\ token[c] = None
    /\ token' = [token EXCEPT ![c] = IF account[c].role = "admin" THEN admin ELSE c]
    /\ UNCHANGED <<vars, serverVars, account, request>>

TokenExpires(c) ==
    /\ token[c] # None
    /\ token' = [token EXCEPT ![c] = None]
    /\ UNCHANGED <<vars, serverVars, account, request>>

\* Authenticate and RequirePermission let the request pass to its handler.
Serve(c, p) ==
    /\ Serving(p) /\ token[c] # None /\ request[c] = None
    /\ \E route \in Routes :
          /\ May(account[c].role, account[c].scopes, route)
          /\ request' = [request EXCEPT ![c] =
                [at |-> p, route |-> route, user |-> token[c]]]
    /\ UNCHANGED <<vars, serverVars, account, token>>

\* The handler returns, whatever it answers.
Answered(c) ==
    /\ request[c] # None
    /\ request' = [request EXCEPT ![c] = None]
    /\ UNCHANGED <<vars, serverVars, account, token>>

LifeNext ==
    \/ \E p \in Processes :
          \/ BootStep(p) \/ BootFails(p) \/ Listen(p) \/ Shutdown(p)
          \/ GraceEnds(p) \/ CloseStore(p) \/ Exit(p) \/ Kill(p)
    \/ \E c \in Clients :
          \/ TokenExpires(c) \/ Answered(c)
          \/ \E p \in Processes : Login(c, p) \/ Serve(c, p)

LifeSpec == LifeInit /\ [][LifeNext]_allVars

(* Who runs the service starts a process that has ended; main goes on, and *)
(* the timer of Shutdown runs out.  Handlers may take as long as they like. *)
FairLifeSpec ==
    /\ LifeSpec
    /\ \A p \in Processes :
          /\ WF_allVars(BootStep(p)) /\ WF_allVars(Listen(p))
          /\ WF_allVars(GraceEnds(p)) /\ WF_allVars(CloseStore(p)) /\ WF_allVars(Exit(p))

----------------------------------------------------------------------------
(* The store is closed under a running handler only if that had the whole  *)
(* grace of Shutdown: nothing is let in once the listener is closed.       *)
HandlersHaveStore ==
    \A c \in Clients :
        request[c] # None /\ phase[request[c].at] = "closed"
            => request[c].at \in overdue

(* A token outlives the process that issued it: who acts with it, at any   *)
(* process and after any restarts, is still a row of the table.            *)
ActorsAreUsers ==
    \A c \in Clients : request[c] # None => request[c].user \in {admin, c}

(* The matrix of roles: what changes the catalog is done by admins and     *)
(* editors, and with scopes only by those that name a right to change.     *)
ChangesByEditors ==
    \A c \in Clients :
        (request[c] # None /\ request[c].route \notin
            {"listShows", "getShow", "listEpisodes", "getEpisode"}) =>
                /\ account[c].role # "viewer"
                /\ account[c].scopes # {} =>
                      \E s \in account[c].scopes :
                          s \notin {"shows:read", "episodes:read", "users:manage"}

(* A process that is told to stop ends, although handlers may never return *)
(* and main takes no second signal.                                        *)
StopsWhenTold == \A p \in Processes : phase[p] = "draining" ~> proc[p] # "up"

(* A process that found its address taken stays up and never tries again.  *)
(* Still, when failures and signals have ended, each address is listened   *)
(* at: by the process that had it, or by its next start.                   *)
AddressesServed ==
    <>[][~\E p \in Processes : BootFails(p) \/ Kill(p) \/ Shutdown(p)]_allVars
        => \A p \in Processes :
              <>[](\E q \in Processes : Serving(q) /\ Address[q] = Address[p])
=============================================================================
