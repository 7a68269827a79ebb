---------------------------- MODULE MCClientMaster ----------------------------
(***************************************************************************)
(* An instance of ClientMaster for TLC: two firms.                         *)
(***************************************************************************)
EXTENDS ClientMaster, TLC

CONSTANTS a, b, x, ours, theirs

HomeOf   == (a :> ours) @@ (b :> ours) @@ (x :> theirs)
StoredIn == [c \in Clients |-> ""]

Symmetry == Permutations(Screens) \cup Permutations({a, b})
=============================================================================
