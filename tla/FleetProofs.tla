----------------------------- MODULE FleetProofs -----------------------------
(***************************************************************************)
(* What Fleet comes to, for any finite set of trays and any MaxTrays: the  *)
(* trays that are active and those that are promised stay within MaxTrays, *)
(* but for the revived.  WithinMax is inductive with the types.            *)
(***************************************************************************)
EXTENDS Fleet, FiniteSetTheorems, TLAPS

FleetInv == FleetTypeOK /\ WithinMax

LEMMA ActiveCounted ==
    ASSUME IsFiniteSet(Trays)
    PROVE  IsFiniteSet(Active) /\ Cardinality(Active) \in Nat
PROOF
  <1>1. Active \in SUBSET Trays
    BY DEF Active
  <1>. QED
    BY <1>1, FS_Subset, FS_CardinalityType

\* One row that becomes active adds one tray, and one that stops being so takes
\* one away.
LEMMA RowBecomes ==
    ASSUME IsFiniteSet(Trays), FleetTypeOK,
           NEW t \in Trays, NEW s \in {"none", "active", "deleting"},
           row' = [row EXCEPT ![t] = s]
    PROVE  /\ s = "active" /\ row[t] # "active"
                => Cardinality(Active') = Cardinality(Active) + 1
           /\ s # "active" => Cardinality(Active') <= Cardinality(Active)
PROOF
  <1>1. row \in [Trays -> {"none", "active", "deleting"}]
    BY DEF FleetTypeOK
  <1>2. CASE s = "active"
    <2>1. Active' = Active \cup {t}
      BY <1>1, <1>2 DEF Active
    <2>2. row[t] # "active" => t \notin Active
      BY DEF Active
    <2>. QED
      BY <1>2, <2>1, <2>2, ActiveCounted, FS_AddElement
  <1>3. CASE s # "active"
    <2>1. Active' = Active \ {t}
      BY <1>1, <1>3 DEF Active
    <2>2. Cardinality(Active \ {t}) = IF t \in Active THEN Cardinality(Active) - 1
                                                    ELSE Cardinality(Active)
      BY ActiveCounted, FS_RemoveElement
    <2>. QED
      BY <1>3, <2>1, <2>2, ActiveCounted
  <1>. QED
    BY <1>2, <1>3

LEMMA FleetInitInv ==
    ASSUME MaxTrays \in Nat, Init
    PROVE  FleetInv
PROOF
  <1>1. Active = {}
    BY DEF Init, Active
  <1>2. Cardinality(Active) = 0
    BY <1>1, FS_EmptySet
  <1>. QED
    BY <1>2 DEF Init, FleetInv, FleetTypeOK, WithinMax

LEMMA FleetStepInv ==
    ASSUME IsFiniteSet(Trays), MaxTrays \in Nat, FleetInv, [Next]_vars
    PROVE  FleetInv'
PROOF
  <1>. USE DEF FleetInv, FleetTypeOK, WithinMax
  <1>1. Cardinality(Active) \in Nat
    BY ActiveCounted
  <1>2. CASE Promise
    <2>1. Active' = Active
      BY <1>2 DEF Promise, Active
    <2>. QED
      BY <1>1, <1>2, <2>1 DEF Promise
  <1>3. CASE Break
    <2>1. Active' = Active
      BY <1>3 DEF Break, Active
    <2>. QED
      BY <1>1, <1>3, <2>1 DEF Break
  <1>4. ASSUME NEW t \in Trays, Insert(t)
        PROVE  FleetInv'
    <2>1. Cardinality(Active') = Cardinality(Active) + 1
      BY <1>4, RowBecomes DEF Insert
    <2>. QED
      BY <1>1, <1>4, <2>1 DEF Insert
  <1>5. ASSUME NEW t \in Trays, Mark(t) \/ Remove(t)
        PROVE  FleetInv'
    <2>1. Cardinality(Active') <= Cardinality(Active) /\ Cardinality(Active') \in Nat
      <3>1. Cardinality(Active') <= Cardinality(Active)
        BY <1>5, RowBecomes DEF Mark, Remove
      <3>2. Active' \in SUBSET Trays
        BY DEF Active
      <3>. QED
        BY <3>1, <3>2, FS_Subset, FS_CardinalityType
    <2>. QED
      BY <1>1, <1>5, <2>1 DEF Mark, Remove
  <1>6. ASSUME NEW t \in Trays, Revive(t)
        PROVE  FleetInv'
    <2>1. Cardinality(Active') = Cardinality(Active) + 1
      BY <1>6, RowBecomes DEF Revive
    <2>. QED
      BY <1>1, <1>6, <2>1 DEF Revive
  <1>7. CASE UNCHANGED vars
    <2>1. Active' = Active
      BY <1>7 DEF vars, Active
    <2>. QED
      BY <1>7, <2>1 DEF vars
  <1>. QED
    BY <1>2, <1>3, <1>4, <1>5, <1>6, <1>7 DEF Next

\* Whatever implements Fleet keeps its trays within MaxTrays, but for the ones
\* that late updates revive.
THEOREM FleetWithinMax ==
    ASSUME IsFiniteSet(Trays), MaxTrays \in Nat
    PROVE  Spec => []WithinMax
PROOF
  <1>1. Init => FleetInv
    BY FleetInitInv
  <1>2. FleetInv /\ [Next]_vars => FleetInv'
    BY FleetStepInv
  <1>3. FleetInv => WithinMax
    BY DEF FleetInv
  <1>. QED
    BY <1>1, <1>2, <1>3, PTL DEF Spec
=============================================================================
