----------------------------- MODULE MCSlotStore -----------------------------
(***************************************************************************)
(* Instances of SlotStore for TLC.  The whole specification is checked     *)
(* with few identifiers; each slice below leaves operations out of Next so *)
(* that the ones left can be followed through more of them.                *)
(***************************************************************************)
EXTENDS SlotStore, TLC

CONSTANTS p1, p2, s1, s2

MatrixSymmetry == Permutations({s1, s2}) \cup Permutations({p1, p2})

\* No action and no property asks for a file that was left behind without its
\* version: an identifier is drawn once.
FilesOfVersions == <<rows, logicals, versions, stored \cap DOMAIN versions, lastId>>

\* The matrix: rows leave their coordinate, come back, move and make way.
PlacesNext ==
    \/ \E p \in Coordinate : Upload(p, "pdf", FALSE)
    \/ \E d \in DOMAIN rows :
        \/ Detach(d)
        \/ SoftDelete(d)
        \/ Purge(d)
        \/ Restore(d)
        \/ \E p \in Period \X (Slot \cup {rows[d].place[2]}) : Move(d, p)
    \/ \E v \in DOMAIN versions : LinkStamp(v) \/ DeleteVersion(v)

PlacesSpec == Init /\ [][PlacesNext]_vars

\* The versions of a document and its review.
VersionsNext ==
    \/ \E p \in Coordinate :
        \/ Upload(p, "pdf", FALSE)
        \/ \E bump \in Bumps : PostVersion(p, bump)
        \/ Classify(p)
    \/ \E d \in DOMAIN rows : SoftDelete(d) \/ Restore(d)
    \/ \E v \in DOMAIN versions : LinkStamp(v) \/ QueuedStamp(v) \/ DeleteVersion(v)
    \/ \E l \in DOMAIN logicals : Review(l)

VersionsSpec == Init /\ [][VersionsNext]_vars
=============================================================================
