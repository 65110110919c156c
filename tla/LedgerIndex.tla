----------------------------- MODULE LedgerIndex -----------------------------
(***************************************************************************)
(* What the indexer promises to the readers of its tables, whoever writes   *)
(* them and however often: a ledger's row is there before its events,       *)
(* nothing persisted is taken back, and the cursor is never put behind a    *)
(* ledger whose events are missing.                                         *)
(***************************************************************************)
EXTENDS Integers

CONSTANTS StartLedger, Ledgers

VARIABLES
    rows,     \* ledgers that have a row
    indexed,  \* ledgers whose events have been persisted
    cursor    \* the ledger the index claims to be complete up to

Init == rows = {} /\ indexed = {} /\ cursor = StartLedger

StoreRow(n) == rows' = rows \cup {n} /\ UNCHANGED <<indexed, cursor>>

StoreEvents(a, b) == /\ a .. b \subseteq rows
                     /\ indexed' = indexed \cup (a .. b)
                     /\ UNCHANGED <<rows, cursor>>

MoveCursor(n) == /\ StartLedger + 1 .. n \subseteq indexed
                 /\ cursor' = n
                 /\ UNCHANGED <<rows, indexed>>

Next == \E n \in Ledgers : \/ StoreRow(n) \/ MoveCursor(n)
                           \/ \E m \in Ledgers : StoreEvents(n, m)

Spec == Init /\ [][Next]_<<rows, indexed, cursor>>
=============================================================================
