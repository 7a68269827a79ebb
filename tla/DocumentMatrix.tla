--------------------------- MODULE DocumentMatrix ---------------------------
(***************************************************************************)
(* What the document matrix promises, whoever keeps it: a document is at   *)
(* one coordinate or aside (detached, in the trash); a step moves at most  *)
(* one document, and only to a coordinate that nobody holds; a document    *)
(* that was removed does not come back under its identifier.               *)
(*                                                                         *)
(* SlotStore, the tables of the server, implements it.                     *)
(***************************************************************************)
EXTENDS Naturals

CONSTANTS Coordinates,  \* period and slot
          Ids,          \* identifiers of documents
          Aside         \* no coordinate

VARIABLES at,      \* where each document is: id -> coordinate or Aside
          issued   \* identifiers that were ever given out

vars == <<at, issued>>

TypeOK ==
    /\ DOMAIN at \subseteq issued
    /\ at \in [DOMAIN at -> Coordinates \cup {Aside}]
    /\ issued \subseteq Ids

Init ==
    /\ at = [d \in {} |-> Aside]
    /\ issued = {}

\* A coordinate can be taken when no document is there; Aside always
Free(p) == p # Aside => \A d \in DOMAIN at : at[d] # p

\* A new document
Enter(d, p) ==
    /\ d \in issued' \ issued
    /\ Free(p)
    /\ at' = [e \in DOMAIN at \cup {d} |-> IF e = d THEN p ELSE at[e]]

\* A document goes to another coordinate, or aside, or comes back
Go(d, p) ==
    /\ Free(p)
    /\ at' = [at EXCEPT ![d] = p]

\* A document is erased
Remove(d) == at' = [e \in DOMAIN at \ {d} |-> at[e]]

Next ==
    /\ issued \subseteq issued' /\ issued' \subseteq Ids
    /\ \/ UNCHANGED at
       \/ \E d \in Ids, p \in Coordinates \cup {Aside} : Enter(d, p)
       \/ \E d \in DOMAIN at, p \in Coordinates \cup {Aside} : Go(d, p)
       \/ \E d \in DOMAIN at : Remove(d)

Spec == Init /\ [][Next]_vars

-----------------------------------------------------------------------------
\* A coordinate shows one document: opening a slot is unambiguous.
OneAtCoordinate ==
    \A d, e \in DOMAIN at : at[d] = at[e] /\ at[d] # Aside => d = e

\* An identifier that was given out and erased names nothing ever after: a
\* request that still carries it cannot reach another document.
NeverReused == [][\A d \in DOMAIN at' : d \in DOMAIN at \/ d \notin issued]_vars
=============================================================================
