--------------------------- MODULE LifecycleProofs ---------------------------
(***************************************************************************)
(* Theorems about Bootstrap and Lifecycle, for any processes, addresses,   *)
(* clients, scopes and routes.                                             *)
(***************************************************************************)
EXTENDS Lifecycle, TLAPS

\* The row is made before a process is up, and no step unmakes it.
BootInv == TypeOK /\ ServesWithAdmin

LEMMA BootInductive == Spec => []BootInv
<1>1. Init => BootInv
  BY DEF Init, BootInv, TypeOK, ServesWithAdmin, Ended
<1>2. BootInv /\ [Next]_vars => BootInv'
  <2> SUFFICES ASSUME BootInv, [Next]_vars PROVE BootInv'
    OBVIOUS
  <2> USE BootstrapAssumption DEF BootInv, TypeOK, ServesWithAdmin, Starting, Ended
  <2>1. CASE UNCHANGED vars
    BY <2>1 DEF vars
  <2>2. ASSUME NEW p \in Processes, Start(p) PROVE BootInv'
    BY <2>2 DEF Start, Goto
  <2>3. ASSUME NEW p \in Processes, Lookup(p) PROVE BootInv'
    BY <2>3 DEF Lookup, Goto
  <2>4. ASSUME NEW p \in Processes, Create(p) PROVE BootInv'
    BY <2>4 DEF Create, Goto
  <2>5. ASSUME NEW p \in Processes, CallFails(p) PROVE BootInv'
    BY <2>5 DEF CallFails, Goto
  <2>6. ASSUME NEW p \in Processes, Crash(p) PROVE BootInv'
    BY <2>6 DEF Crash, Goto
  <2> QED
    BY <2>1, <2>2, <2>3, <2>4, <2>5, <2>6 DEF Next, Boot
<1> QED
  BY <1>1, <1>2, PTL DEF Spec

(* However many processes start, crash and fail at once, one that serves   *)
(* finds the administrator in the table.                                   *)
THEOREM AdminWhenServing == Spec => []ServesWithAdmin
<1>1. BootInv => ServesWithAdmin
  BY DEF BootInv
<1> QED
  BY <1>1, BootInductive, PTL

LEMMA AdminRowStays == [Next]_vars /\ admin # None => admin' = admin
<1> SUFFICES ASSUME [Next]_vars, admin # None PROVE admin' = admin
  OBVIOUS
<1>1. CASE UNCHANGED vars
  BY <1>1 DEF vars
<1>2. ASSUME NEW p \in Processes, Start(p) \/ Crash(p) PROVE admin' = admin
  BY <1>2 DEF Start, Crash
<1>3. ASSUME NEW p \in Processes, Boot(p) PROVE admin' = admin
  BY <1>3 DEF Boot, Lookup, Create
<1>4. ASSUME NEW p \in Processes, CallFails(p) PROVE admin' = admin
  BY <1>4 DEF CallFails
<1> QED
  BY <1>1, <1>2, <1>3, <1>4 DEF Next

(* The row of the administrator is made once and by one process: the       *)
(* second of two concurrent inserts is refused and replaces nothing.       *)
THEOREM AdminMadeOnce == Spec => AdminStays
<1>1. [Next]_vars => [admin # None => admin' = admin]_admin
  BY AdminRowStays
<1> QED
  BY <1>1, PTL DEF Spec, AdminStays

----------------------------------------------------------------------------
(* The steps of Lifecycle at which Bootstrap takes one, and those at which  *)
(* it does not.                                                             *)
LEMMA LifeStep == [LifeNext]_allVars => [Next]_vars
<1> SUFFICES ASSUME [LifeNext]_allVars PROVE [Next]_vars
  OBVIOUS
<1>1. CASE UNCHANGED allVars
  BY <1>1 DEF allVars
<1>2. ASSUME NEW p \in Processes, BootStep(p) \/ BootFails(p) PROVE [Next]_vars
  BY <1>2 DEF BootStep, BootFails, Next
<1>3. ASSUME NEW p \in Processes, Listen(p) \/ Shutdown(p) \/ GraceEnds(p) \/ CloseStore(p)
      PROVE  UNCHANGED vars
  BY <1>3 DEF Listen, Shutdown, GraceEnds, CloseStore
<1>4. ASSUME NEW p \in Processes, Exit(p) \/ Kill(p) PROVE [Next]_vars
  BY <1>4 DEF Exit, Kill, End, Next
<1>5. ASSUME NEW c \in Clients, TokenExpires(c) \/ Answered(c) PROVE UNCHANGED vars
  BY <1>5 DEF TokenExpires, Answered
<1>6. ASSUME NEW c \in Clients, NEW p \in Processes, Login(c, p) \/ Serve(c, p)
      PROVE  UNCHANGED vars
  BY <1>6 DEF Login, Serve
<1> QED
  BY <1>1, <1>2, <1>3, <1>4, <1>5, <1>6 DEF LifeNext

(* The life cycle of the processes implements their start: a process is up  *)
(* and down there as it is here, and what happens while it is up is a       *)
(* stutter.                                                                 *)
THEOREM LifeImplementsBootstrap == LifeSpec => Spec
<1>1. LifeInit => Init
  BY DEF LifeInit
<1> QED
  BY <1>1, LifeStep, PTL DEF LifeSpec, Spec

(* So what was shown of the start holds through the whole life: a process   *)
(* that serves has the administrator, ...                                   *)
THEOREM LifeServesWithAdmin == LifeSpec => []ServesWithAdmin
  BY LifeImplementsBootstrap, AdminWhenServing, PTL

(* ... and no restart makes the account anew.                               *)
THEOREM LifeAdminStays == LifeSpec => AdminStays
  BY LifeImplementsBootstrap, AdminMadeOnce, PTL

----------------------------------------------------------------------------
LEMMA LifeInitType == LifeInit => LifeTypeOK
  BY DEF LifeInit, LifeTypeOK, Init, TypeOK, Ended

\* What starts and ends a process keeps the types, by the lemma on Bootstrap.
LEMMA BootNextType == TypeOK /\ [Next]_vars => TypeOK'
<1> SUFFICES ASSUME TypeOK, [Next]_vars PROVE TypeOK'
  OBVIOUS
<1> USE DEF TypeOK, Starting, Ended
<1>1. CASE UNCHANGED vars
  BY <1>1 DEF vars
<1>2. ASSUME NEW p \in Processes, Start(p) \/ Crash(p) PROVE TypeOK'
  BY <1>2 DEF Start, Crash, Goto
<1>3. ASSUME NEW p \in Processes, Boot(p) PROVE TypeOK'
  BY <1>3 DEF Boot, Lookup, Create, Goto
<1>4. ASSUME NEW p \in Processes, CallFails(p) PROVE TypeOK'
  BY <1>4 DEF CallFails, Goto
<1> QED
  BY <1>1, <1>2, <1>3, <1>4 DEF Next

LEMMA LifeNextType == LifeTypeOK /\ [LifeNext]_allVars => LifeTypeOK'
<1> SUFFICES ASSUME LifeTypeOK, [LifeNext]_allVars PROVE LifeTypeOK'
  OBVIOUS
<1>0. TypeOK'
  BY LifeStep, BootNextType DEF LifeTypeOK
<1> USE <1>0 DEF LifeTypeOK, serverVars, clientVars
<1>1. CASE UNCHANGED allVars
  BY <1>1 DEF allVars
<1>2. ASSUME NEW p \in Processes, BootStep(p) \/ BootFails(p) PROVE LifeTypeOK'
  BY <1>2 DEF BootStep, BootFails
<1>3. ASSUME NEW p \in Processes, Listen(p) \/ Shutdown(p) \/ GraceEnds(p) \/ CloseStore(p)
      PROVE  LifeTypeOK'
  BY <1>3 DEF Listen, Shutdown, GraceEnds, CloseStore, Become
<1>4. ASSUME NEW p \in Processes, Exit(p) \/ Kill(p) PROVE LifeTypeOK'
  BY <1>4 DEF Exit, Kill, End, Become
<1>5. ASSUME NEW c \in Clients, TokenExpires(c) \/ Answered(c) PROVE LifeTypeOK'
  BY <1>5 DEF TokenExpires, Answered
<1>6. ASSUME NEW c \in Clients, NEW p \in Processes, Login(c, p) PROVE LifeTypeOK'
  BY <1>6 DEF Login, TypeOK, Users
<1>7. ASSUME NEW c \in Clients, NEW p \in Processes, Serve(c, p) PROVE LifeTypeOK'
  BY <1>7 DEF Serve, Request
<1> QED
  BY <1>1, <1>2, <1>3, <1>4, <1>5, <1>6, <1>7 DEF LifeNext

LEMMA LifeTyped == LifeSpec => []LifeTypeOK
  BY LifeInitType, LifeNextType, PTL DEF LifeSpec

----------------------------------------------------------------------------
LEMMA StoreNext == LifeTypeOK /\ HandlersHaveStore /\ [LifeNext]_allVars => HandlersHaveStore'
<1> SUFFICES ASSUME LifeTypeOK, HandlersHaveStore, [LifeNext]_allVars
             PROVE  HandlersHaveStore'
  OBVIOUS
<1> USE DEF HandlersHaveStore, LifeTypeOK, Request, serverVars, clientVars
<1>1. CASE UNCHANGED allVars
  BY <1>1 DEF allVars
<1>2. ASSUME NEW p \in Processes, BootStep(p) \/ BootFails(p) PROVE HandlersHaveStore'
  BY <1>2 DEF BootStep, BootFails
<1>3. ASSUME NEW p \in Processes, Listen(p) \/ Shutdown(p) PROVE HandlersHaveStore'
  BY <1>3 DEF Listen, Shutdown, Become
<1>4. ASSUME NEW p \in Processes, GraceEnds(p) PROVE HandlersHaveStore'
  BY <1>4 DEF GraceEnds
<1>5. ASSUME NEW p \in Processes, CloseStore(p) PROVE HandlersHaveStore'
  BY <1>5 DEF CloseStore, Become, Busy
<1>6. ASSUME NEW p \in Processes, Exit(p) \/ Kill(p) PROVE HandlersHaveStore'
  BY <1>6 DEF Exit, Kill, End, Become
<1>7. ASSUME NEW c \in Clients, TokenExpires(c) \/ Answered(c) PROVE HandlersHaveStore'
  BY <1>7 DEF TokenExpires, Answered
<1>8. ASSUME NEW c \in Clients, NEW p \in Processes, Login(c, p) PROVE HandlersHaveStore'
  BY <1>8 DEF Login
<1>9. ASSUME NEW c \in Clients, NEW p \in Processes, Serve(c, p) PROVE HandlersHaveStore'
  BY <1>9 DEF Serve, Serving, UpIn
<1> QED
  BY <1>1, <1>2, <1>3, <1>4, <1>5, <1>6, <1>7, <1>8, <1>9 DEF LifeNext

(* The store is closed under a running handler only if Shutdown gave up on  *)
(* it: the listener is closed first, and lets no request in afterwards.     *)
THEOREM StoreOutlivesHandlers == LifeSpec => []HandlersHaveStore
<1>1. LifeInit => HandlersHaveStore
  BY DEF LifeInit, HandlersHaveStore
<1> QED
  BY <1>1, StoreNext, LifeTyped, PTL DEF LifeSpec

----------------------------------------------------------------------------
(* Tokens name a row that is there: the administrator's once it is made, as *)
(* it is before any login, or that of the client.  Requests took it over.   *)
TokensNameUsers ==
    /\ \A c \in Clients : token[c] \in {None, admin, c}
    /\ \A c \in Clients : request[c] # None =>
           request[c].user # None /\ request[c].user \in {admin, c}

LEMMA ActorNext ==
    LifeTypeOK /\ ServesWithAdmin /\ TokensNameUsers /\ [LifeNext]_allVars => TokensNameUsers'
<1> SUFFICES ASSUME LifeTypeOK, ServesWithAdmin, TokensNameUsers, [LifeNext]_allVars
             PROVE  TokensNameUsers'
  OBVIOUS
<1>0. admin # None => admin' = admin
  <2>1. [Next]_vars
    BY LifeStep
  <2> QED
    BY <2>1, AdminRowStays DEF vars
<1> USE LifecycleAssumption DEF TokensNameUsers, LifeTypeOK, Request, serverVars, clientVars
<1>1. CASE UNCHANGED allVars
  BY <1>1 DEF allVars, vars
<1>2. ASSUME NEW p \in Processes, BootStep(p) \/ BootFails(p) PROVE TokensNameUsers'
  BY <1>0, <1>2 DEF BootStep, BootFails
<1>3. ASSUME NEW p \in Processes, Listen(p) \/ Shutdown(p) \/ GraceEnds(p) \/ CloseStore(p)
      PROVE  TokensNameUsers'
  BY <1>3 DEF Listen, Shutdown, GraceEnds, CloseStore, vars
<1>4. ASSUME NEW p \in Processes, Exit(p) \/ Kill(p) PROVE TokensNameUsers'
  BY <1>4 DEF Exit, Kill, End, Crash
<1>5. ASSUME NEW c \in Clients, TokenExpires(c) \/ Answered(c) PROVE TokensNameUsers'
  BY <1>5 DEF TokenExpires, Answered, vars
<1>6. ASSUME NEW c \in Clients, NEW p \in Processes, Login(c, p) PROVE TokensNameUsers'
  BY <1>6 DEF Login, vars, Serving, UpIn, ServesWithAdmin
<1>7. ASSUME NEW c \in Clients, NEW p \in Processes, Serve(c, p) PROVE TokensNameUsers'
  BY <1>7 DEF Serve, vars
<1> QED
  BY <1>1, <1>2, <1>3, <1>4, <1>5, <1>6, <1>7 DEF LifeNext

(* Who acts, at any process and after any restarts, is a row of the table:  *)
(* the one administrator that was ever made, or the client's own.           *)
THEOREM ActorsStayUsers == LifeSpec => []ActorsAreUsers
<1>1. LifeInit => TokensNameUsers
  BY DEF LifeInit, TokensNameUsers
<1>2. TokensNameUsers => ActorsAreUsers
  BY DEF TokensNameUsers, ActorsAreUsers
<1> QED
  BY <1>1, <1>2, ActorNext, LifeTyped, LifeServesWithAdmin, PTL DEF LifeSpec

----------------------------------------------------------------------------
\* Scopes only narrow the role, and a viewer's role changes nothing.
LEMMA MayChange ==
    ASSUME NEW role \in Roles, NEW scopes \in SUBSET Permissions, NEW route \in AllRoutes,
           May(role, scopes, route),
           route \notin {"listShows", "getShow", "listEpisodes", "getEpisode"}
    PROVE  /\ role # "viewer"
           /\ scopes # {} =>
                 \E s \in scopes : s \notin {"shows:read", "episodes:read", "users:manage"}
<1>1. Requires[route] \notin {"shows:read", "episodes:read", "users:manage"}
  BY DEF AllRoutes, Requires
<1>2. Requires[route] \in RolePermissions[role] /\ (scopes # {} => Requires[route] \in scopes)
  BY DEF May, Effective
<1>3. RolePermissions["viewer"] = {"shows:read", "episodes:read"}
  BY DEF RolePermissions
<1> QED
  BY <1>1, <1>2, <1>3

\* The handler runs with what the middleware let pass.
LetPass == \A c \in Clients : request[c] # None =>
    May(account[c].role, account[c].scopes, request[c].route)

LEMMA LetPassNext == LifeTypeOK /\ LetPass /\ [LifeNext]_allVars => LetPass'
<1> SUFFICES ASSUME LifeTypeOK, LetPass, [LifeNext]_allVars PROVE LetPass'
  OBVIOUS
<1> USE DEF LetPass, LifeTypeOK, Request, serverVars, clientVars
<1>1. CASE UNCHANGED clientVars
  BY <1>1
<1>2. ASSUME NEW p \in Processes, Exit(p) \/ Kill(p) PROVE LetPass'
  BY <1>2 DEF Exit, Kill, End
<1>3. ASSUME NEW c \in Clients, TokenExpires(c) \/ Answered(c) PROVE LetPass'
  BY <1>3 DEF TokenExpires, Answered
<1>4. ASSUME NEW c \in Clients, NEW p \in Processes, Login(c, p) \/ Serve(c, p) PROVE LetPass'
  BY <1>4 DEF Login, Serve
<1> QED
  BY <1>1, <1>2, <1>3, <1>4 DEF LifeNext, allVars, BootStep, BootFails, Listen, Shutdown,
                                GraceEnds, CloseStore

(* What changes the catalog is done by admins and editors, and with scopes  *)
(* only by those that name a right to change, whatever roles, scopes and    *)
(* routes there are.                                                        *)
THEOREM OnlyEditorsChange == LifeSpec => []ChangesByEditors
<1>1. LifeInit => LetPass
  BY DEF LifeInit, LetPass
<1>2. LifeTypeOK /\ LetPass => ChangesByEditors
  <2> SUFFICES ASSUME LifeTypeOK, LetPass, NEW c \in Clients, request[c] # None,
                      request[c].route \notin
                          {"listShows", "getShow", "listEpisodes", "getEpisode"}
               PROVE  /\ account[c].role # "viewer"
                      /\ account[c].scopes # {} =>
                            \E s \in account[c].scopes :
                                s \notin {"shows:read", "episodes:read", "users:manage"}
    BY DEF ChangesByEditors
  <2>1. /\ account[c].role \in Roles /\ account[c].scopes \in SUBSET Permissions
        /\ request[c].route \in AllRoutes
    BY LifecycleAssumption DEF LifeTypeOK, Request
  <2> QED
    BY <2>1, MayChange DEF LetPass
<1> QED
  BY <1>1, <1>2, LetPassNext, LifeTyped, PTL DEF LifeSpec
=============================================================================
