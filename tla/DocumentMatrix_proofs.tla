------------------------ MODULE DocumentMatrix_proofs ------------------------
(***************************************************************************)
(* What every implementation of the document matrix inherits.              *)
(***************************************************************************)
EXTENDS DocumentMatrix, TLAPS

MInv == TypeOK /\ OneAtCoordinate

LEMMA InitMInv == Init => MInv
BY DEF Init, MInv, TypeOK, OneAtCoordinate

LEMMA EnterKeeps ==
    ASSUME MInv, issued \subseteq issued', issued' \subseteq Ids,
           NEW d \in Ids, NEW p \in Coordinates \cup {Aside}, Enter(d, p)
    PROVE  MInv'
<1>1. DOMAIN at' = DOMAIN at \cup {d} /\ d \notin DOMAIN at
    BY DEF Enter, MInv, TypeOK
<1>2. at'[d] = p /\ \A e \in DOMAIN at : at'[e] = at[e]
    BY <1>1 DEF Enter
<1>3. TypeOK'
    BY <1>1, <1>2 DEF Enter, MInv, TypeOK
<1>4. OneAtCoordinate'
    BY <1>1, <1>2 DEF Enter, Free, MInv, OneAtCoordinate
<1> QED
    BY <1>3, <1>4 DEF MInv

LEMMA GoKeeps ==
    ASSUME MInv, issued \subseteq issued', issued' \subseteq Ids,
           NEW d \in DOMAIN at, NEW p \in Coordinates \cup {Aside}, Go(d, p)
    PROVE  MInv'
<1>1. DOMAIN at' = DOMAIN at
    BY DEF Go
<1>2. at'[d] = p /\ \A e \in DOMAIN at \ {d} : at'[e] = at[e]
    BY DEF Go
<1>3. TypeOK'
    BY <1>1, <1>2 DEF Go, MInv, TypeOK
<1>4. OneAtCoordinate'
    BY <1>1, <1>2 DEF Go, Free, MInv, OneAtCoordinate
<1> QED
    BY <1>3, <1>4 DEF MInv

LEMMA RemoveKeeps ==
    ASSUME MInv, issued \subseteq issued', issued' \subseteq Ids,
           NEW d \in DOMAIN at, Remove(d)
    PROVE  MInv'
<1>1. DOMAIN at' = DOMAIN at \ {d} /\ \A e \in DOMAIN at \ {d} : at'[e] = at[e]
    BY DEF Remove
<1>2. TypeOK'
    BY <1>1 DEF Remove, MInv, TypeOK
<1>3. OneAtCoordinate'
    BY <1>1 DEF MInv, OneAtCoordinate
<1> QED
    BY <1>2, <1>3 DEF MInv

LEMMA NextMInv == MInv /\ [Next]_vars => MInv'
<1> SUFFICES ASSUME MInv, [Next]_vars PROVE MInv'
    OBVIOUS
<1>1. CASE Next
    <2>1. issued \subseteq issued' /\ issued' \subseteq Ids
        BY <1>1 DEF Next
    <2>2. CASE UNCHANGED at
        BY <2>1, <2>2 DEF MInv, TypeOK, OneAtCoordinate
    <2> QED
        BY <1>1, <2>1, <2>2, EnterKeeps, GoKeeps, RemoveKeeps DEF Next
<1>2. CASE UNCHANGED vars
    BY <1>2 DEF vars, MInv, TypeOK, OneAtCoordinate
<1> QED
    BY <1>1, <1>2

\* A coordinate never shows two documents.
THEOREM OneDocumentPerCoordinate == Spec => []OneAtCoordinate
<1>1. MInv => OneAtCoordinate
    BY DEF MInv
<1> QED
    BY <1>1, InitMInv, NextMInv, PTL DEF Spec

\* A document that was erased never comes back under its identifier.
THEOREM ErasedStaysErased == Spec => NeverReused
<1>1. MInv /\ [Next]_vars => [\A d \in DOMAIN at' : d \in DOMAIN at \/ d \notin issued]_vars
    BY DEF Next, Enter, Go, Remove, vars
<1> QED
    BY <1>1, InitMInv, NextMInv, PTL DEF Spec, NeverReused
=============================================================================
