----------------------------- MODULE PdfEditor -----------------------------
(***************************************************************************)
(* Editing the PDF of a slot in the viewer.                                *)
(*                                                                         *)
(* Every edit is a request that carries a whole file and is answered by a  *)
(* whole file (useMatrixPdfOperations); the answer becomes the file on the *)
(* screen, the working file of the slot it was asked for and an entry of   *)
(* the undo stack (usePdfEditor).  Annotations are saved as a version      *)
(* eight seconds after the last one, page operations and the save button   *)
(* at once; the answer of a save sets the file once more                   *)
(* (useMatrixActiveSlotMeta.onVersionCreated).                             *)
(*                                                                         *)
(* A file is abstracted to the document it belongs to and the set of edits *)
(* it contains.  The editor is mounted only while the viewer is open, the  *)
(* requests and the timer live outside of it.                              *)
(***************************************************************************)
EXTENDS Naturals, Sequences

CONSTANTS Docs,        \* keys of the slots that hold a document
          Nothing,     \* no slot, no file, no timer
          MaxEdits,    \* bound: edits and saves ever asked for
          UndoLimit    \* EDIT_UNDO_LIMIT

ASSUME BoundsAreNatural == MaxEdits \in Nat /\ UndoLimit \in Nat
ASSUME NothingIsOutside == Nothing \notin Docs

VARIABLES
    active,     \* activeSlotKey
    isOpen,     \* the viewer is mounted
    opening,    \* the file that activateDoc will show once the workspace is loaded
    file,       \* the file on the screen
    working,    \* slotDocs[key].file
    undo, redo, \* editUndoStack, editRedoStack
    log,        \* actionsLog, latest first
    calls,      \* edits asked for
    timer,      \* the annotation snapshot that waits for its eight seconds
    snaps,      \* snapshots on their way to the server
    reload,     \* the list of versions is being read again
    versions,   \* the server's versions of each document
    made,       \* edits and saves so far
    disturbed   \* history: an answer replaced a file it does not build on, a
                \* document was shown under the slot of another, a file was left
                \* without a save (its save failed, or another document took
                \* over its timer), an edit without its undo entry, or an edit was
                \* undone or redone past a merge that still had to push its own

editor == <<undo, redo, log>>
vars == <<active, isOpen, opening, file, working, editor, calls, timer, snaps, reload,
          versions, made, disturbed>>

Numbers == 1..MaxEdits
File    == [of : Docs, edits : SUBSET Numbers]
Entry   == [before : File, after : File, n : Numbers]
Kinds   == {"annotate", "reorder", "merge"}
Call    == [n : Numbers, doc : Docs, base : File, kind : Kinds, mounted : BOOLEAN,
            phase : {"asked", "saving", "saved", "thumbs"}]
Snap    == [n : Numbers, doc : Docs, file : File, stored : BOOLEAN]

ASSUME NothingIsNoRecord ==
    /\ Nothing \notin File
    /\ Nothing \notin [doc : Docs, file : File]
    /\ Nothing \notin [n : Numbers, doc : Docs, file : File]

TypeOK ==
    /\ active \in Docs \cup {Nothing}
    /\ isOpen \in BOOLEAN
    /\ opening \in [doc : Docs, file : File] \cup {Nothing}
    /\ file \in File \cup {Nothing}
    /\ working \in [Docs -> File]
    /\ undo \in Seq(Entry) /\ redo \in Seq(Entry) /\ log \in Seq(Numbers)
    /\ calls \subseteq Call
    /\ timer \in [n : Numbers, doc : Docs, file : File] \cup {Nothing}
    /\ snaps \subseteq Snap
    /\ reload \in BOOLEAN
    /\ versions \in [Docs -> SUBSET File]
    /\ made \in 0..MaxEdits
    /\ disturbed \in BOOLEAN

Original(d) == [of |-> d, edits |-> {}]

Init ==
    /\ active = Nothing
    /\ isOpen = FALSE
    /\ opening = Nothing
    /\ file = Nothing
    /\ working = [d \in Docs |-> Original(d)]
    /\ undo = <<>> /\ redo = <<>> /\ log = <<>>
    /\ calls = {}
    /\ timer = Nothing
    /\ snaps = {}
    /\ reload = FALSE
    /\ versions = [d \in Docs |-> {Original(d)}]
    /\ made = 0
    /\ disturbed = FALSE

-----------------------------------------------------------------------------
(* The file on the screen and the working files *)

\* What a call answers with
Result(c) == [c.base EXCEPT !.edits = @ \cup {c.n}]

\* rememberWorkingFile of the slot d, and the effect that gives the file on
\* the screen to the active slot
Remember(d, f) ==
    working' = [x \in Docs |-> IF x = d \/ x = active THEN f ELSE working[x]]

\* The slot of the answer is not the one on the screen, or the file there is
\* not the one the answer was computed from
Misplaced(d, base) == active # d \/ file \notin {Nothing, base}

\* The editor that asked was closed and another one is open
Orphan(c) == isOpen /\ ~c.mounted

\* setFile, assignPreviewFromFile, rememberWorkingFile
Show(d, f) ==
    /\ file' = f
    /\ Remember(d, f)

\* pushEditSnapshot
LastOf(s, n) == IF Len(s) > n THEN SubSeq(s, Len(s) - n + 1, Len(s)) ELSE s

\* Mutants: an edit is pushed without the limit; it remembers the file that is on
\* the screen when it is recorded.
PushEditUnbounded(c, f) ==
    /\ undo' = Append(undo, [before |-> c.base, after |-> f, n |-> c.n])
    /\ redo' = <<>>

PushEditOnScreen(c, f) ==
    /\ undo' = LastOf(Append(undo, [before |-> file, after |-> f, n |-> c.n]), UndoLimit)
    /\ redo' = <<>>

PushEdit(c, f) ==
    /\ undo' = LastOf(Append(undo, [before |-> c.base, after |-> f, n |-> c.n]), UndoLimit)
    /\ redo' = <<>>

\* recordAction and pushEditSnapshot, if the editor that asked is still there
Record(c, f) ==
    IF c.mounted
    THEN PushEdit(c, f) /\ log' = <<c.n>> \o log
    ELSE UNCHANGED editor

\* The editor starts anew with another editorKey
ForgetEdits == undo' = <<>> /\ redo' = <<>>

-----------------------------------------------------------------------------
(* Opening and closing *)

\* onOpenSlot for a slot that is active, or has no stored workspace
Open(d) ==
    /\ ~isOpen /\ opening = Nothing
    /\ isOpen' = TRUE
    /\ active' = d
    /\ file' = working[d]
    /\ reload' = TRUE
    /\ UNCHANGED <<opening, working, editor, calls, timer, snaps, versions, made, disturbed>>

\* onOpenSlot for one with a stored workspace: the viewer shows its file at
\* once, the slot that was active stays active until the workspace is loaded
OpenStored(d) ==
    /\ ~isOpen /\ opening = Nothing
    /\ d # active
    /\ isOpen' = TRUE
    /\ opening' = [doc |-> d, file |-> working[d]]
    /\ file' = working[d]
    /\ Remember(active, working[d])
    /\ reload' = TRUE
    /\ disturbed' = (disturbed \/ active # Nothing)
    /\ UNCHANGED <<active, editor, calls, timer, snaps, versions, made>>

\* The workspace is loaded, or was not: activateDoc goes on
Activate ==
    /\ opening # Nothing
    /\ active' = opening.doc
    /\ file' = opening.file
    /\ working' = [working EXCEPT ![opening.doc] = opening.file]
    /\ opening' = Nothing
    /\ disturbed' = (disturbed \/ file # opening.file)
    /\ UNCHANGED <<isOpen, editor, calls, timer, snaps, reload, versions, made>>

\* closeViewer; the editor unmounts with its stacks, the requests go on
Close ==
    /\ isOpen
    /\ isOpen' = FALSE
    /\ working' = [x \in Docs |-> IF x = active /\ file # Nothing THEN file ELSE working[x]]
    /\ file' = Nothing
    /\ ForgetEdits /\ log' = <<>>
    /\ calls' = {[c EXCEPT !.mounted = FALSE] : c \in calls}
    /\ reload' = FALSE
    /\ UNCHANGED <<active, opening, timer, snaps, versions, made, disturbed>>

\* The list of versions arrives: when it has a version the editor does not
\* show, editorKey changes
HistoryArrives ==
    /\ reload
    /\ reload' = FALSE
    /\ ForgetEdits
    /\ UNCHANGED <<active, isOpen, opening, file, working, log, calls, timer, snaps, versions,
                   made, disturbed>>

-----------------------------------------------------------------------------
(* Annotations *)

\* isLoading is set while the pages are rearranged or merged, but no longer
\* while onDropAppend reads the thumbnails of the merged file
Idle == \A c \in calls : c.kind = "annotate" \/ c.phase = "thumbs"

\* A merge of this editor shows its file and has no entry yet (mergeInflightRef)
MergePending == \E c \in calls : c.phase = "thumbs" /\ c.mounted

\* applyAnnotation, handleSaveReorder, onDropAppend: nothing keeps a second
\* annotation from starting before the first is answered
Ask(kind) ==
    /\ isOpen /\ active # Nothing /\ file # Nothing
    /\ kind # "annotate" => Idle
    /\ kind = "merge" => ~MergePending
    /\ made < MaxEdits
    /\ made' = made + 1
    /\ calls' = calls \cup {[n |-> made + 1, doc |-> active, base |-> file, kind |-> kind,
                             mounted |-> TRUE, phase |-> "asked"]}
    /\ UNCHANGED <<active, isOpen, opening, file, working, editor, timer, snaps, reload,
                   versions, disturbed>>

\* Mutant: an annotation does not start the timer.
AnnotatedUntimed(c) ==
    /\ c.kind = "annotate"
    /\ calls' = calls \ {c}
    /\ Show(c.doc, Result(c))
    /\ Record(c, Result(c))
    /\ disturbed' = (disturbed \/ Misplaced(c.doc, c.base) \/ Orphan(c))
    /\ UNCHANGED <<active, isOpen, opening, timer, snaps, reload, versions, made>>

\* handleHighlight and the rest of applyAnnotation; the timer is the only one
Annotated(c) ==
    /\ c.kind = "annotate"
    /\ calls' = calls \ {c}
    /\ Show(c.doc, Result(c))
    /\ Record(c, Result(c))
    /\ timer' = [n |-> c.n, doc |-> c.doc, file |-> Result(c)]
    /\ disturbed' = (disturbed \/ Misplaced(c.doc, c.base) \/ Orphan(c)
                               \/ (timer # Nothing /\ timer.doc # c.doc))
    /\ UNCHANGED <<active, isOpen, opening, snaps, reload, versions, made>>

EditFails(c) ==
    /\ c.phase = "asked"
    /\ calls' = calls \ {c}
    /\ UNCHANGED <<active, isOpen, opening, file, working, editor, timer, snaps, reload,
                   versions, made, disturbed>>

\* Mutant: the timer does nothing once the viewer is closed.
TimerFiresOpen ==
    /\ timer # Nothing /\ isOpen
    /\ timer' = Nothing
    /\ snaps' = snaps \cup {[n |-> timer.n, doc |-> timer.doc, file |-> timer.file,
                             stored |-> FALSE]}
    /\ UNCHANGED <<active, isOpen, opening, file, working, editor, calls, reload, versions,
                   made, disturbed>>

TimerFires ==
    /\ timer # Nothing
    /\ timer' = Nothing
    /\ snaps' = snaps \cup {[n |-> timer.n, doc |-> timer.doc, file |-> timer.file,
                             stored |-> FALSE]}
    /\ UNCHANGED <<active, isOpen, opening, file, working, editor, calls, reload, versions,
                   made, disturbed>>

-----------------------------------------------------------------------------
(* Page operations: handleReorder, handleMerge *)

\* The first answer: the file is shown and the timer stopped
Arranged(c) ==
    /\ c.kind # "annotate" /\ c.phase = "asked"
    /\ calls' = (calls \ {c}) \cup {[c EXCEPT !.phase = "saving"]}
    /\ Show(c.doc, Result(c))
    /\ timer' = Nothing
    /\ disturbed' = (disturbed \/ Misplaced(c.doc, c.base) \/ Orphan(c)
                               \/ (timer # Nothing /\ timer.doc # c.doc))
    /\ UNCHANGED <<active, isOpen, opening, editor, snaps, reload, versions, made>>

ArrangedStored(c) ==
    /\ c.phase = "saving"
    /\ calls' = (calls \ {c}) \cup {[c EXCEPT !.phase = "saved"]}
    /\ versions' = [versions EXCEPT ![c.doc] = @ \cup {Result(c)}]
    /\ UNCHANGED <<active, isOpen, opening, file, working, editor, timer, snaps, reload, made,
                   disturbed>>

\* The version is there: the slot gets the file.  A reorder is recorded at once;
\* a merge runs onVersionCreated, and goes on to its thumbnails with isLoading
\* taken back.
ArrangedSaved(c) ==
    /\ c.phase = "saved"
    /\ \/ /\ c.kind = "reorder"
          /\ calls' = calls \ {c}
          /\ working' = [working EXCEPT ![c.doc] = Result(c)]
          /\ Record(c, Result(c))
          /\ UNCHANGED file
       \/ /\ c.kind = "merge"
          /\ calls' = (calls \ {c}) \cup {[c EXCEPT !.phase = "thumbs"]}
          /\ Show(c.doc, Result(c))
          /\ UNCHANGED editor
    /\ disturbed' = (disturbed \/ Misplaced(c.doc, Result(c)) \/ Orphan(c))
    /\ reload' = isOpen
    /\ UNCHANGED <<active, isOpen, opening, timer, snaps, versions, made>>

\* onDropAppend has the thumbnails: onReplaceFile of the editor as it is now,
\* recordAction, pushEditSnapshot
MergeShown(c) ==
    /\ c.phase = "thumbs"
    /\ calls' = calls \ {c}
    /\ Show(IF c.mounted THEN active ELSE c.doc, Result(c))
    /\ Record(c, Result(c))
    /\ disturbed' = (disturbed \/ Misplaced(c.doc, Result(c)) \/ Orphan(c))
    /\ UNCHANGED <<active, isOpen, opening, timer, snaps, reload, versions, made>>

\* They were asked for again meanwhile (thumbGenRef): the merge has no entry
MergeOvertaken(c) ==
    /\ c.phase = "thumbs"
    /\ calls' = calls \ {c}
    /\ disturbed' = (disturbed \/ c.mounted)
    /\ UNCHANGED <<active, isOpen, opening, file, working, editor, timer, snaps, reload,
                   versions, made>>

\* The save, or the review event after it, failed: the file stays on the
\* screen without undo entry
ArrangedFails(c) ==
    /\ c.phase \in {"saving", "saved"}
    /\ calls' = calls \ {c}
    /\ disturbed' = TRUE
    /\ UNCHANGED <<active, isOpen, opening, file, working, editor, timer, snaps, reload,
                   versions, made>>

-----------------------------------------------------------------------------
(* Undo and redo *)

Last(s)  == s[Len(s)]
Front(s) == SubSeq(s, 1, Len(s) - 1)

\* undoEdit, popLastAction, onReplaceFile
Undo ==
    /\ isOpen /\ Idle /\ undo # <<>>
    /\ undo' = Front(undo)
    /\ redo' = Append(redo, Last(undo))
    /\ log' = IF log # <<>> THEN Tail(log) ELSE log
    /\ file' = Last(undo).before
    /\ Remember(active, Last(undo).before)
    /\ disturbed' = (disturbed \/ MergePending)
    /\ UNCHANGED <<active, isOpen, opening, calls, timer, snaps, reload, versions, made>>

Redo ==
    /\ isOpen /\ Idle /\ redo # <<>>
    /\ redo' = Front(redo)
    /\ undo' = Append(undo, Last(redo))
    /\ log' = <<Last(redo).n>> \o log
    /\ file' = Last(redo).after
    /\ Remember(active, Last(redo).after)
    /\ disturbed' = (disturbed \/ MergePending)
    /\ UNCHANGED <<active, isOpen, opening, calls, timer, snaps, reload, versions, made>>

-----------------------------------------------------------------------------
(* Saving *)

\* handleWorkSave: createNewVersion puts a new entry into the history, which
\* changes editorKey, and handleWorkflowEvent saves the file
WorkSave ==
    /\ isOpen /\ Idle /\ active # Nothing /\ file # Nothing
    /\ made < MaxEdits
    /\ made' = made + 1
    /\ ForgetEdits /\ log' = <<>>
    /\ snaps' = snaps \cup {[n |-> made + 1, doc |-> active, file |-> file, stored |-> FALSE]}
    /\ UNCHANGED <<active, isOpen, opening, file, working, calls, timer, reload, versions,
                   disturbed>>

\* Mutant: the version is made for the slot that is active now.
SnapServedActive(s) ==
    /\ ~s.stored
    /\ snaps' = (snaps \ {s}) \cup {[s EXCEPT !.stored = TRUE]}
    /\ versions' = [versions EXCEPT ![active] = @ \cup {s.file}]
    /\ UNCHANGED <<active, isOpen, opening, file, working, editor, calls, timer, reload, made,
                   disturbed>>

SnapServed(s) ==
    /\ ~s.stored
    /\ snaps' = (snaps \ {s}) \cup {[s EXCEPT !.stored = TRUE]}
    /\ versions' = [versions EXCEPT ![s.doc] = @ \cup {s.file}]
    /\ UNCHANGED <<active, isOpen, opening, file, working, editor, calls, timer, reload, made,
                   disturbed>>

\* onVersionCreated of the slot the save was asked for
SnapReturns(s) ==
    /\ s.stored
    /\ snaps' = snaps \ {s}
    /\ Show(s.doc, s.file)
    /\ reload' = isOpen
    /\ disturbed' = (disturbed \/ Misplaced(s.doc, s.file))
    /\ UNCHANGED <<active, isOpen, opening, editor, calls, timer, versions, made>>

SnapFails(s) ==
    /\ snaps' = snaps \ {s}
    /\ disturbed' = TRUE
    /\ UNCHANGED <<active, isOpen, opening, file, working, editor, calls, timer, reload,
                   versions, made>>

-----------------------------------------------------------------------------
EditAnswers == \E c \in calls : \/ Annotated(c) \/ EditFails(c) \/ Arranged(c)
                                \/ ArrangedStored(c) \/ ArrangedSaved(c) \/ ArrangedFails(c)
                                \/ MergeShown(c) \/ MergeOvertaken(c)
SnapAnswers == \E s \in snaps : SnapServed(s) \/ SnapReturns(s) \/ SnapFails(s)
User == \/ \E d \in Docs : Open(d) \/ OpenStored(d)
        \/ Close \/ WorkSave \/ Undo \/ Redo
        \/ \E k \in Kinds : Ask(k)

Next == User \/ Activate \/ HistoryArrives \/ TimerFires \/ EditAnswers \/ SnapAnswers

Spec == Init /\ [][Next]_vars

\* Requests are answered or fail, the timer fires
Fairness == WF_vars(EditAnswers) /\ WF_vars(SnapAnswers) /\ WF_vars(TimerFires)
FairSpec == Spec /\ Fairness

-----------------------------------------------------------------------------
(* Properties *)

\* An edit that can be undone is never kept beyond the limit: redoing does not
\* apply the limit, so the two stacks must stay within it together.
StacksBounded == Len(undo) + Len(redo) <= UndoLimit

\* As long as every answer met the file it was computed from, and nobody undid
\* or redid an edit while a merge was still reading its thumbnails, the stacks
\* are one chain through the file on the screen whenever no page operation of
\* this editor has shown its file without its entry: undoing and redoing walk
\* through files the user has seen, and never back over an edit that is not
\* theirs.
Settled == \A c \in calls : c.mounted => c.phase = "asked"

UndoChains ==
    (~disturbed /\ isOpen /\ Settled) =>
        /\ undo # <<>> => Last(undo).after = file
        /\ redo # <<>> => Last(redo).before = file
        /\ \A i \in 1..(Len(undo) - 1) : undo[i].after = undo[i + 1].before
        /\ \A i \in 1..(Len(redo) - 1) : redo[i].before = redo[i + 1].after

\* Under the same condition a file never gets under another slot, neither in
\* the browser nor as a version on the server.
OwnFile ==
    ~disturbed =>
        /\ \A d \in Docs : working[d].of = d /\ \A v \in versions[d] : v.of = d
        /\ isOpen /\ opening = Nothing => file.of = active

\* Under the same condition the edits of a document are in one of its versions
\* or in a file that is on its way to become one; undo, redo, closing and
\* opening another document lose nothing.
OnItsWay(d) == {s.file : s \in {x \in snaps : x.doc = d}}
          \cup {Result(c) : c \in {x \in calls : x.doc = d /\ x.phase # "asked"}}
          \cup IF timer # Nothing /\ timer.doc = d THEN {timer.file} ELSE {}

NothingForgotten ==
    ~disturbed =>
        \A d \in Docs : \E f \in versions[d] \cup OnItsWay(d) : working[d].edits \subseteq f.edits

\* And each of them gets there, unless it is undone.
Holds(n) == \E d \in Docs : n \in working[d].edits
EditsReachServer ==
    \A n \in Numbers :
        Holds(n) ~> \/ \E d \in Docs : \E v \in versions[d] : n \in v.edits
                    \/ ~Holds(n)
                    \/ disturbed
=============================================================================
