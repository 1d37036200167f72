-------------------------- MODULE ProvenanceLedger --------------------------
(***************************************************************************)
(* What external_refs promises its readers, whatever the import runs do:   *)
(* a ledger in which a key (source, external id) is bound once, for good,  *)
(* to a row that exists and that no other key is bound to.  Rows are never *)
(* removed, so a key once found stays found.                               *)
(***************************************************************************)
CONSTANTS Keys, Rows, NoRow

VARIABLES
    rows,       \* the rows that exist
    bound       \* bound[k]: the row of key k, or NoRow

Init == rows = {} /\ bound = [k \in Keys |-> NoRow]

Create(row) ==
    /\ row \notin rows
    /\ rows' = rows \cup {row}
    /\ UNCHANGED bound

Bind(k, row) ==
    /\ bound[k] = NoRow
    /\ row \in rows
    /\ \A other \in Keys : bound[other] # row
    /\ bound' = [bound EXCEPT ![k] = row]
    /\ UNCHANGED rows

Next ==
    \/ \E row \in Rows : Create(row)
    \/ \E k \in Keys, row \in Rows : Bind(k, row)

Ledger == Init /\ [][Next]_<<rows, bound>>
=============================================================================
