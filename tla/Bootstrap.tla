------------------------------ MODULE Bootstrap ------------------------------
(***************************************************************************)
(* The start of CMS processes on one table of users (cmd/cms, factory.go): *)
(* each ensures that the configured administrator exists before it serves, *)
(* and exits if that fails.  Processes crash and are started again at any  *)
(* time.                                                                   *)
(***************************************************************************)
CONSTANTS
    Processes,
    None

ASSUME BootstrapAssumption == None \notin Processes

VARIABLES
    admin,      \* the process that made the row of the administrator, or None
    proc        \* proc[p]: where p is in its start, and why it ended if it did

vars == <<admin, proc>>

Starting == {"lookup", "create"}
Ended == {"off", "failed", "conflict"}

TypeOK ==
    /\ admin \in Processes \cup {None}
    /\ proc \in [Processes -> Starting \cup Ended \cup {"up"}]

Init == admin = None /\ proc = [p \in Processes |-> "off"]

Goto(p, pc) == proc' = [proc EXCEPT ![p] = pc]

----------------------------------------------------------------------------
\* main: also after an exit, the process is started again.
Start(p) ==
    /\ proc[p] \in Ended
    /\ Goto(p, "lookup")
    /\ UNCHANGED admin

\* Mutant: the row is not looked up.
LookupNot(p) == proc[p] = "lookup" /\ Goto(p, "create") /\ UNCHANGED admin

\* Mutant: any error of the look-up counts as a row that is there.
LookupTrusts(p) == proc[p] = "lookup" /\ Goto(p, "up") /\ UNCHANGED admin

\* GetByEmail; without a row the password is hashed and the row prepared.
Lookup(p) ==
    /\ proc[p] = "lookup"
    /\ Goto(p, IF admin = None THEN "create" ELSE "up")
    /\ UNCHANGED admin

\* Mutant: users are written over.
CreateOver(p) ==
    /\ proc[p] = "create"
    /\ admin' = p
    /\ Goto(p, "up")

\* Create: the e-mail is unique, and a conflict ends the process.
Create(p) ==
    /\ proc[p] = "create"
    /\ IF admin = None THEN admin' = p /\ Goto(p, "up")
                       ELSE Goto(p, "conflict") /\ UNCHANGED admin

\* A call of the store fails; an insert may have been done.
CallFails(p) ==
    /\ proc[p] \in Starting
    /\ Goto(p, "failed")
    /\ \/ UNCHANGED admin
       \/ proc[p] = "create" /\ admin = None /\ admin' = p

\* The process is stopped or killed.
Crash(p) ==
    /\ proc[p] \in Starting \cup {"up"}
    /\ Goto(p, "off")
    /\ UNCHANGED admin

Boot(p) == Lookup(p) \/ Create(p)

Next == \E p \in Processes : Start(p) \/ Boot(p) \/ CallFails(p) \/ Crash(p)

Spec == Init /\ [][Next]_vars

\* Who runs the service starts a process that has ended; calls return.
FairSpec == Spec /\ \A p \in Processes : WF_vars(Start(p)) /\ WF_vars(Boot(p))

----------------------------------------------------------------------------
(* Logins need the administrator: no process serves before the row exists, *)
(* although another one, which may have crashed since, was to make it.     *)
ServesWithAdmin == \A p \in Processes : proc[p] = "up" => admin # None

(* The account that tokens name stays: no start makes it anew.             *)
AdminStays == [][admin # None => admin' = admin]_admin

(* When calls fail no more and nothing crashes, all processes get up, also *)
(* those whose earlier starts ended in a conflict or half-way.             *)
AllGetUp ==
    <>[][~\E p \in Processes : CallFails(p) \/ Crash(p)]_vars
        => <>[](\A p \in Processes : proc[p] = "up")
=============================================================================
