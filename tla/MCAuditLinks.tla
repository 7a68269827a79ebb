--------------------------- MODULE MCAuditLinks ---------------------------
(* Instance of AuditLinks for TLC.  The two halves of the state are mostly *)
(* independent, so they are explored to different depths: the history      *)
(* alone with every step within the bounds, and together with links as     *)
(* long as the effort is small.                                            *)
(* The sides are interchangeable: the first click is on the left.  A       *)
(* disturbed state satisfies the four properties of links and stays        *)
(* disturbed; the history does not depend on the links.                    *)
EXTENDS AuditLinks

CONSTANT MaxEffort  \* bound: tasks, clicks, posts and deleted versions once there are links

Removed   == {i \in 1..Len(rows) : rows[i] = Meta}
Effort    == asked + clicked + posted + Cardinality(Removed)
LeftFirst == \A c \in clicks : c.n = 1 => c.side = "left"
Explored  == /\ ~disturbed /\ LeftFirst
             /\ clicked + posted > 0 => asked <= 1 /\ Effort <= MaxEffort
===========================================================================
