-------------------------------- MODULE Fleet --------------------------------
(***************************************************************************)
(* What scaling promises of the trays of one type, whoever does it: trays  *)
(* are promised before they are there, all at once and within MaxTrays,    *)
(* and nothing new is promised before the last promise is kept or broken.  *)
(***************************************************************************)
EXTENDS Integers, FiniteSets

CONSTANTS Trays, MaxTrays

VARIABLES
    row,        \* the status of each tray's row
    promised,   \* trays that whoever is scaling has yet to insert
    revived     \* deleting rows that a late update has made active

vars == <<row, promised, revived>>

Active == {t \in Trays : row[t] = "active"}

Init ==
    /\ row = [t \in Trays |-> "none"]
    /\ promised = 0 /\ revived = 0

\* As many as are missing, of what MaxTrays leaves room for.
Promise ==
    /\ promised = 0
    /\ \E n \in 1..(MaxTrays - Cardinality(Active)) : promised' = n
    /\ UNCHANGED <<row, revived>>

Insert(t) ==
    /\ promised > 0 /\ row[t] = "none"
    /\ row' = [row EXCEPT ![t] = "active"]
    /\ promised' = promised - 1
    /\ UNCHANGED revived

\* A creation fails, or whoever is scaling is gone, and its promises with it.
Break ==
    /\ \E n \in 0..promised : promised' = n
    /\ UNCHANGED <<row, revived>>

Mark(t) ==
    /\ row[t] = "active"
    /\ row' = [row EXCEPT ![t] = "deleting"]
    /\ UNCHANGED <<promised, revived>>

Remove(t) ==
    /\ row[t] # "none"
    /\ row' = [row EXCEPT ![t] = "none"]
    /\ UNCHANGED <<promised, revived>>

Revive(t) ==
    /\ row[t] = "deleting"
    /\ row' = [row EXCEPT ![t] = "active"]
    /\ revived' = revived + 1
    /\ UNCHANGED promised

Next ==
    \/ Promise \/ Break
    \/ \E t \in Trays : Insert(t) \/ Mark(t) \/ Remove(t) \/ Revive(t)

Spec == Init /\ [][Next]_vars

----------------------------------------------------------------------------
FleetTypeOK ==
    /\ row \in [Trays -> {"none", "active", "deleting"}]
    /\ promised \in Nat /\ revived \in Nat

\* What the promise comes to: trays and promised trays stay within MaxTrays, but
\* for those that a late update revives.
WithinMax == Cardinality(Active) + promised <= MaxTrays + revived
=============================================================================
