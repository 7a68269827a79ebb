------------------------- MODULE WorkspaceFindings -------------------------
(* What a comment of the code says of the workspaces and the code does not *)
(* do; each property is refuted by a run.                                  *)
EXTENDS WorkspaceSync

\* Leaving an open slot hands its unsaved pages to a save of that slot. The
\* comment of the second effect of useDocugridAutoSync says that they are
\* flushed; the store has been emptied, or refilled for the next slot, before
\* the effect looks at it.
UnsavedIsFlushed ==
    [][ (store.status = "dirty" /\ active # Nothing /\ active' # active) =>
          \E r \in saves' : r.scope = active /\ r.pages = store.pages ]_vars
=============================================================================
