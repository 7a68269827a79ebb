-------------------------- MODULE PdfEditor_proofs --------------------------
(***************************************************************************)
(* Theorems about PdfEditor for every number of documents and edits and    *)
(* every limit: its types, whatever the answers meet, and that the undo    *)
(* and redo stacks together never exceed the limit.  And, as long as no    *)
(* answer met another file than its own and nothing failed, that undo and  *)
(* redo are one chain of files, that no file gets under another document   *)
(* and that no edit is forgotten.                                          *)
(*                                                                         *)
(* EditorOK gathers what is said of the undo log, Elsewhere what is said   *)
(* of the rest; most actions change one of the two.  Calm, further down,   *)
(* is what holds besides while nothing is disturbed.                       *)
(***************************************************************************)
EXTENDS PdfEditor, SequenceTheorems, TLAPS

EditorOK ==
    /\ undo \in Seq(Entry) /\ redo \in Seq(Entry) /\ log \in Seq(Numbers)
    /\ StacksBounded

Elsewhere ==
    /\ active \in Docs \cup {Nothing}
    /\ isOpen \in BOOLEAN
    /\ opening \in [doc : Docs, file : File] \cup {Nothing}
    /\ file \in File \cup {Nothing}
    /\ working \in [Docs -> File]
    /\ calls \subseteq Call
    /\ timer \in [n : Numbers, doc : Docs, file : File] \cup {Nothing}
    /\ snaps \subseteq Snap
    /\ reload \in BOOLEAN
    /\ versions \in [Docs -> SUBSET File]
    /\ made \in 0..MaxEdits
    /\ disturbed \in BOOLEAN

Inv == EditorOK /\ Elsewhere

USE BoundsAreNatural, NothingIsOutside

\* The invariant says no more and no less than the two properties
LEMMA InvIsBoth == Inv <=> TypeOK /\ StacksBounded
  BY DEF Inv, EditorOK, Elsewhere, TypeOK

\* Nothing is open at the start
LEMMA InvInit == Init => Inv
  <1> SUFFICES ASSUME Init PROVE Inv
    OBVIOUS
  <1>1. \A d \in Docs : Original(d) \in File
    BY DEF Original, File
  <1>2. working \in [Docs -> File] /\ versions \in [Docs -> SUBSET File]
    BY <1>1 DEF Init
  <1>3. EditorOK
    BY EmptySeq DEF Init, EditorOK, StacksBounded
  <1>4. calls \subseteq Call /\ snaps \subseteq Snap /\ made \in 0..MaxEdits
    BY DEF Init
  <1>5. Elsewhere
    BY <1>2, <1>4 DEF Init, Elsewhere
  <1> QED BY <1>3, <1>5 DEF Inv

-----------------------------------------------------------------------------
(* The helpers *)

\* A call is answered with a file of the same document
LEMMA ResultFits == ASSUME NEW c \in Call PROVE Result(c) \in File
  BY DEF Result, Call, File

\* Giving a file to a slot keeps the types of the working files
LEMMA RememberFits ==
  ASSUME NEW d, NEW f \in File, working \in [Docs -> File], Remember(d, f)
  PROVE  working' \in [Docs -> File]
  BY DEF Remember

\* LastOf keeps the type and cuts the length
LEMMA LastOfFits ==
  ASSUME NEW S, NEW s \in Seq(S), NEW n \in Nat
  PROVE  LastOf(s, n) \in Seq(S) /\ Len(LastOf(s, n)) \in 0..n
  <1>1. Len(s) \in Nat
    BY LenProperties
  <1>2. CASE Len(s) > n
    <2>1. \A i \in (Len(s) - n + 1)..Len(s) : s[i] \in S
      BY <1>1, <1>2, ElementOfSeq
    <2>2. /\ SubSeq(s, Len(s) - n + 1, Len(s)) \in Seq(S)
          /\ Len(SubSeq(s, Len(s) - n + 1, Len(s))) =
               IF Len(s) - n + 1 <= Len(s) THEN Len(s) - (Len(s) - n + 1) + 1 ELSE 0
      BY <1>1, <2>1, SubSeqProperties
    <2> QED BY <1>1, <1>2, <2>2 DEF LastOf
  <1>3. CASE ~(Len(s) > n)
    BY <1>1, <1>3 DEF LastOf
  <1> QED BY <1>2, <1>3

\* Front and Last of a stack that is not empty
LEMMA FrontFits ==
  ASSUME NEW S, NEW s \in Seq(S), s # <<>>
  PROVE  Front(s) \in Seq(S) /\ Last(s) \in S /\ Len(Front(s)) = Len(s) - 1 /\ Len(s) \in Nat
  <1>1. Len(s) \in Nat /\ Len(s) # 0
    BY EmptySeq
  <1>2. PICK k \in Nat : Len(s) = k + 1
    <2>1. Len(s) - 1 \in Nat /\ Len(s) = (Len(s) - 1) + 1
      BY <1>1
    <2> QED BY <2>1, Zenon
  <1>3. Len(s) - 1 = k
    BY <1>2
  <1>4. \A i \in 1..k : s[i] \in S
    BY <1>2, ElementOfSeq
  <1>5. /\ SubSeq(s, 1, k) \in Seq(S)
        /\ Len(SubSeq(s, 1, k)) = IF 1 <= k THEN k - 1 + 1 ELSE 0
    BY <1>4, SubSeqProperties
  <1>6. (IF 1 <= k THEN k - 1 + 1 ELSE 0) = k
    BY <1>2
  <1>7. Last(s) \in S
    BY <1>1, ElementOfSeq DEF Last
  <1>8. Front(s) = SubSeq(s, 1, k)
    BY <1>3 DEF Front
  <1> QED BY <1>1, <1>3, <1>5, <1>6, <1>7, <1>8, Zenon

\* A number goes in front of the log
LEMMA ConsFits ==
  ASSUME NEW n \in Numbers, log \in Seq(Numbers)
  PROVE  <<n>> \o log \in Seq(Numbers)
  <1>1. <<n>> \in Seq(Numbers)
    OBVIOUS
  <1> QED BY <1>1, ConcatProperties

\* Recording an edit pushes it within the limit and empties the redo stack
LEMMA RecordFits ==
  ASSUME EditorOK, NEW c \in Call, NEW f \in File, Record(c, f)
  PROVE  EditorOK'
  <1>1. CASE ~c.mounted
    BY <1>1 DEF Record, editor, EditorOK, StacksBounded
  <1>2. CASE c.mounted
    <2>1. PushEdit(c, f) /\ log' = <<c.n>> \o log
      BY <1>2 DEF Record
    <2> DEFINE e == [before |-> c.base, after |-> f, n |-> c.n]
    <2>2. e \in Entry /\ c.n \in Numbers
      BY DEF Call, Entry
    <2>3. undo' = LastOf(Append(undo, e), UndoLimit) /\ redo' = <<>>
      BY <2>1 DEF PushEdit
    <2> HIDE DEF e
    <2>4. Append(undo, e) \in Seq(Entry)
      BY <2>2, AppendProperties DEF EditorOK
    <2>5. undo' \in Seq(Entry) /\ Len(undo') \in 0..UndoLimit
      BY <2>3, <2>4, LastOfFits
    <2>6. redo' \in Seq(Entry) /\ Len(redo') = 0
      BY <2>3, EmptySeq
    <2>7. log' \in Seq(Numbers)
      BY <2>1, <2>2, ConsFits DEF EditorOK
    <2> QED BY <2>5, <2>6, <2>7 DEF EditorOK, StacksBounded
  <1> QED BY <1>1, <1>2

\* Emptying the stacks is within every limit
LEMMA ForgetFits ==
  ASSUME ForgetEdits, log' \in Seq(Numbers)
  PROVE  EditorOK'
  <1>1. undo' \in Seq(Entry) /\ Len(undo') = 0 /\ redo' \in Seq(Entry) /\ Len(redo') = 0
    BY EmptySeq DEF ForgetEdits
  <1> QED BY <1>1 DEF EditorOK, StacksBounded

LEMMA EditorStays == ASSUME EditorOK, UNCHANGED editor PROVE EditorOK'
  BY DEF editor, EditorOK, StacksBounded

-----------------------------------------------------------------------------
(* What the user does *)

LEMMA OpenKeeps == ASSUME Inv, NEW d \in Docs, Open(d) PROVE Inv'
  <1>1. EditorOK'
    BY EditorStays DEF Open, Inv
  <1>2. Elsewhere'
    BY DEF Open, Inv, Elsewhere
  <1> QED BY <1>1, <1>2 DEF Inv

LEMMA OpenStoredKeeps == ASSUME Inv, NEW d \in Docs, OpenStored(d) PROVE Inv'
  <1>1. EditorOK'
    BY EditorStays DEF OpenStored, Inv
  <1>2. working[d] \in File /\ working' \in [Docs -> File]
    BY RememberFits DEF OpenStored, Inv, Elsewhere
  <1>3. Elsewhere'
    BY <1>2 DEF OpenStored, Inv, Elsewhere
  <1> QED BY <1>1, <1>3 DEF Inv

LEMMA ActivateKeeps == ASSUME Inv, Activate PROVE Inv'
  <1>1. EditorOK'
    BY EditorStays DEF Activate, Inv
  <1>2. opening.doc \in Docs /\ opening.file \in File
    BY DEF Activate, Inv, Elsewhere
  <1>3. Elsewhere'
    BY <1>2 DEF Activate, Inv, Elsewhere
  <1> QED BY <1>1, <1>3 DEF Inv

LEMMA CloseKeeps == ASSUME Inv, Close PROVE Inv'
  <1>1. EditorOK'
    BY ForgetFits, EmptySeq DEF Close, Inv
  <1>2. calls' \subseteq Call
    <2>1. calls' = {[c EXCEPT !.mounted = FALSE] : c \in calls} /\ calls \subseteq Call
      BY DEF Close, Inv, Elsewhere
    <2>2. ASSUME NEW c \in Call PROVE [c EXCEPT !.mounted = FALSE] \in Call
      BY DEF Call
    <2> QED BY <2>1, <2>2
  <1>3. working' \in [Docs -> File]
    BY DEF Close, Inv, Elsewhere
  <1>4. Elsewhere'
    BY <1>2, <1>3 DEF Close, Inv, Elsewhere
  <1> QED BY <1>1, <1>4 DEF Inv

LEMMA AskKeeps == ASSUME Inv, NEW k \in Kinds, Ask(k) PROVE Inv'
  <1> DEFINE c == [n |-> made + 1, doc |-> active, base |-> file, kind |-> k,
                   mounted |-> TRUE, phase |-> "asked"]
  <1>1. EditorOK'
    BY EditorStays DEF Ask, Inv
  <1>2. made + 1 \in Numbers /\ active \in Docs /\ file \in File
    BY DEF Ask, Inv, Elsewhere, Numbers
  <1>3. c \in Call
    BY <1>2 DEF Call
  <1>4. calls' = calls \cup {c} /\ made' = made + 1
    BY DEF Ask
  <1> HIDE DEF c
  <1>5. Elsewhere'
    BY <1>2, <1>3, <1>4 DEF Ask, Inv, Elsewhere, Numbers
  <1> QED BY <1>1, <1>5 DEF Inv

LEMMA UndoKeeps == ASSUME Inv, Undo PROVE Inv'
  <1>1. /\ Front(undo) \in Seq(Entry) /\ Last(undo) \in Entry
        /\ Len(Front(undo)) = Len(undo) - 1 /\ Len(undo) \in Nat
    BY FrontFits DEF Undo, Inv, EditorOK
  <1>2. /\ Append(redo, Last(undo)) \in Seq(Entry)
        /\ Len(Append(redo, Last(undo))) = Len(redo) + 1 /\ Len(redo) \in Nat
    BY <1>1, AppendProperties, LenProperties DEF Inv, EditorOK
  <1>3. log' \in Seq(Numbers)
    BY HeadTailProperties DEF Undo, Inv, EditorOK
  <1>4. EditorOK'
    BY <1>1, <1>2, <1>3 DEF Undo, Inv, EditorOK, StacksBounded
  <1>5. Last(undo).before \in File
    BY <1>1 DEF Entry
  <1>6. working' \in [Docs -> File]
    BY <1>5, RememberFits DEF Undo, Inv, Elsewhere
  <1>7. disturbed' \in BOOLEAN
    BY DEF Undo
  <1>8. Elsewhere'
    BY <1>7, <1>5, <1>6 DEF Undo, Inv, Elsewhere
  <1> QED BY <1>4, <1>8 DEF Inv

LEMMA RedoKeeps == ASSUME Inv, Redo PROVE Inv'
  <1>1. /\ Front(redo) \in Seq(Entry) /\ Last(redo) \in Entry
        /\ Len(Front(redo)) = Len(redo) - 1 /\ Len(redo) \in Nat
    BY FrontFits DEF Redo, Inv, EditorOK
  <1>2. /\ Append(undo, Last(redo)) \in Seq(Entry)
        /\ Len(Append(undo, Last(redo))) = Len(undo) + 1 /\ Len(undo) \in Nat
    BY <1>1, AppendProperties, LenProperties DEF Inv, EditorOK
  <1>3. Last(redo).after \in File /\ Last(redo).n \in Numbers
    BY <1>1 DEF Entry
  <1>4. log' \in Seq(Numbers)
    BY <1>3, ConsFits DEF Redo, Inv, EditorOK
  <1>5. EditorOK'
    BY <1>1, <1>2, <1>4 DEF Redo, Inv, EditorOK, StacksBounded
  <1>6. working' \in [Docs -> File]
    BY <1>3, RememberFits DEF Redo, Inv, Elsewhere
  <1>7. disturbed' \in BOOLEAN
    BY DEF Redo
  <1>8. Elsewhere'
    BY <1>7, <1>3, <1>6 DEF Redo, Inv, Elsewhere
  <1> QED BY <1>5, <1>8 DEF Inv

LEMMA WorkSaveKeeps == ASSUME Inv, WorkSave PROVE Inv'
  <1> DEFINE s == [n |-> made + 1, doc |-> active, file |-> file, stored |-> FALSE]
  <1>1. EditorOK'
    BY ForgetFits, EmptySeq DEF WorkSave, Inv
  <1>2. s \in Snap
    BY DEF WorkSave, Inv, Elsewhere, Snap, Numbers
  <1>3. snaps' = snaps \cup {s} /\ made' = made + 1 /\ made < MaxEdits
    BY DEF WorkSave
  <1> HIDE DEF s
  <1>4. Elsewhere'
    BY <1>2, <1>3 DEF WorkSave, Inv, Elsewhere
  <1> QED BY <1>1, <1>4 DEF Inv

-----------------------------------------------------------------------------
(* Answers and the timer *)

LEMMA HistoryKeeps == ASSUME Inv, HistoryArrives PROVE Inv'
  <1>1. EditorOK'
    BY ForgetFits DEF HistoryArrives, Inv, EditorOK
  <1>2. Elsewhere'
    BY DEF HistoryArrives, Inv, Elsewhere
  <1> QED BY <1>1, <1>2 DEF Inv

LEMMA TimerKeeps == ASSUME Inv, TimerFires PROVE Inv'
  <1> DEFINE s == [n |-> timer.n, doc |-> timer.doc, file |-> timer.file, stored |-> FALSE]
  <1>1. EditorOK'
    BY EditorStays DEF TimerFires, Inv
  <1>2. s \in Snap
    BY DEF TimerFires, Inv, Elsewhere, Snap
  <1>3. snaps' = snaps \cup {s}
    BY DEF TimerFires
  <1> HIDE DEF s
  <1>4. Elsewhere'
    BY <1>2, <1>3 DEF TimerFires, Inv, Elsewhere
  <1> QED BY <1>1, <1>4 DEF Inv

\* A call that goes on to its next phase is still a call
LEMMA PhaseFits ==
  ASSUME NEW c \in Call, NEW p \in {"asked", "saving", "saved", "thumbs"}
  PROVE  [c EXCEPT !.phase = p] \in Call
  BY DEF Call

LEMMA AnnotatedKeeps == ASSUME Inv, NEW c \in calls, Annotated(c) PROVE Inv'
  <1>1. c \in Call /\ Result(c) \in File
    BY ResultFits DEF Inv, Elsewhere
  <1>2. EditorOK'
    BY <1>1, RecordFits DEF Annotated, Inv
  <1>3. file' = Result(c) /\ working' \in [Docs -> File]
    BY <1>1, RememberFits DEF Annotated, Show, Inv, Elsewhere
  <1>4. timer' \in [n : Numbers, doc : Docs, file : File]
    BY <1>1 DEF Annotated, Call
  <1>5. disturbed' \in BOOLEAN
    BY DEF Annotated
  <1>6. UNCHANGED <<active, isOpen, opening, snaps, reload, versions, made>> /\ calls' \subseteq calls
    BY DEF Annotated
  <1>7. Elsewhere'
    BY <1>1, <1>3, <1>4, <1>5, <1>6 DEF Inv, Elsewhere
  <1> QED BY <1>2, <1>7 DEF Inv

LEMMA EditFailsKeeps == ASSUME Inv, NEW c \in calls, EditFails(c) PROVE Inv'
  <1>1. EditorOK'
    BY EditorStays DEF EditFails, Inv
  <1>2. Elsewhere'
    BY DEF EditFails, Inv, Elsewhere
  <1> QED BY <1>1, <1>2 DEF Inv

LEMMA ArrangedKeeps == ASSUME Inv, NEW c \in calls, Arranged(c) PROVE Inv'
  <1>1. c \in Call /\ Result(c) \in File /\ [c EXCEPT !.phase = "saving"] \in Call
    BY ResultFits, PhaseFits DEF Inv, Elsewhere
  <1>2. EditorOK'
    BY EditorStays DEF Arranged, Inv
  <1>3. file' = Result(c) /\ working' \in [Docs -> File]
    BY <1>1, RememberFits DEF Arranged, Show, Inv, Elsewhere
  <1>4. /\ UNCHANGED <<active, isOpen, opening, snaps, reload, versions, made>>
        /\ timer' = Nothing /\ disturbed' \in BOOLEAN
        /\ calls' = (calls \ {c}) \cup {[c EXCEPT !.phase = "saving"]}
    BY DEF Arranged
  <1>5. calls' \subseteq Call
    BY <1>1, <1>4 DEF Inv, Elsewhere
  <1>6. Elsewhere'
    BY <1>1, <1>3, <1>4, <1>5 DEF Inv, Elsewhere
  <1> QED BY <1>2, <1>6 DEF Inv

LEMMA ArrangedStoredKeeps == ASSUME Inv, NEW c \in calls, ArrangedStored(c) PROVE Inv'
  <1>1. c \in Call /\ Result(c) \in File /\ [c EXCEPT !.phase = "saved"] \in Call
    BY ResultFits, PhaseFits DEF Inv, Elsewhere
  <1>2. EditorOK'
    BY EditorStays DEF ArrangedStored, Inv
  <1>3. /\ UNCHANGED <<active, isOpen, opening, file, working, timer, snaps, reload, made, disturbed>>
        /\ calls' = (calls \ {c}) \cup {[c EXCEPT !.phase = "saved"]}
        /\ versions' = [versions EXCEPT ![c.doc] = @ \cup {Result(c)}]
    BY DEF ArrangedStored
  <1>4. calls' \subseteq Call
    BY <1>1, <1>3 DEF Inv, Elsewhere
  <1>5. versions' \in [Docs -> SUBSET File]
    BY <1>1, <1>3 DEF Inv, Elsewhere
  <1>6. Elsewhere'
    BY <1>3, <1>4, <1>5 DEF Inv, Elsewhere
  <1> QED BY <1>2, <1>6 DEF Inv

LEMMA ArrangedSavedKeeps == ASSUME Inv, NEW c \in calls, ArrangedSaved(c) PROVE Inv'
  <1>1. c \in Call /\ Result(c) \in File
    BY ResultFits DEF Inv, Elsewhere
  <1>2. EditorOK'
    BY <1>1, RecordFits, EditorStays DEF ArrangedSaved, Inv
  <1>3. working' \in [Docs -> File]
    BY <1>1, RememberFits DEF ArrangedSaved, Show, Inv, Elsewhere
  <1>4. file' \in File \cup {Nothing} /\ disturbed' \in BOOLEAN
    BY <1>1 DEF ArrangedSaved, Show, Inv, Elsewhere
  <1>5. /\ UNCHANGED <<active, isOpen, opening, timer, snaps, versions, made>>
        /\ reload' = isOpen
    BY DEF ArrangedSaved
  <1>6. calls' \subseteq Call
    <2>1. [c EXCEPT !.phase = "thumbs"] \in Call
      BY <1>1, PhaseFits
    <2> QED BY <2>1 DEF ArrangedSaved, Inv, Elsewhere
  <1>7. Elsewhere'
    BY <1>3, <1>4, <1>5, <1>6 DEF Inv, Elsewhere
  <1> QED BY <1>2, <1>7 DEF Inv

LEMMA MergeShownKeeps == ASSUME Inv, NEW c \in calls, MergeShown(c) PROVE Inv'
  <1>1. c \in Call /\ Result(c) \in File
    BY ResultFits DEF Inv, Elsewhere
  <1>2. EditorOK'
    BY <1>1, RecordFits DEF MergeShown, Inv
  <1>3. file' = Result(c) /\ working' \in [Docs -> File]
    BY <1>1, RememberFits DEF MergeShown, Show, Inv, Elsewhere
  <1>4. /\ UNCHANGED <<active, isOpen, opening, timer, snaps, reload, versions, made>>
        /\ calls' \subseteq calls /\ disturbed' \in BOOLEAN
    BY DEF MergeShown
  <1>5. Elsewhere'
    BY <1>1, <1>3, <1>4 DEF Inv, Elsewhere
  <1> QED BY <1>2, <1>5 DEF Inv

LEMMA MergeOvertakenKeeps == ASSUME Inv, NEW c \in calls, MergeOvertaken(c) PROVE Inv'
  <1>1. EditorOK'
    BY EditorStays DEF MergeOvertaken, Inv
  <1>2. /\ UNCHANGED <<active, isOpen, opening, file, working, timer, snaps, reload, versions,
                       made>>
        /\ calls' \subseteq calls
    BY DEF MergeOvertaken
  <1>3. disturbed' \in BOOLEAN
    BY DEF MergeOvertaken
  <1>4. Elsewhere'
    BY <1>2, <1>3 DEF Inv, Elsewhere
  <1> QED BY <1>1, <1>4 DEF Inv

LEMMA ArrangedFailsKeeps == ASSUME Inv, NEW c \in calls, ArrangedFails(c) PROVE Inv'
  <1>1. EditorOK'
    BY EditorStays DEF ArrangedFails, Inv
  <1>2. Elsewhere'
    BY DEF ArrangedFails, Inv, Elsewhere
  <1> QED BY <1>1, <1>2 DEF Inv

LEMMA SnapServedKeeps == ASSUME Inv, NEW s \in snaps, SnapServed(s) PROVE Inv'
  <1>1. s \in Snap /\ [s EXCEPT !.stored = TRUE] \in Snap
    BY DEF Inv, Elsewhere, Snap
  <1>2. EditorOK'
    BY EditorStays DEF SnapServed, Inv
  <1>3. /\ UNCHANGED <<active, isOpen, opening, file, working, calls, timer, reload, made, disturbed>>
        /\ snaps' = (snaps \ {s}) \cup {[s EXCEPT !.stored = TRUE]}
        /\ versions' = [versions EXCEPT ![s.doc] = @ \cup {s.file}]
    BY DEF SnapServed
  <1>4. versions' \in [Docs -> SUBSET File]
    BY <1>1, <1>3 DEF Inv, Elsewhere, Snap
  <1>5. snaps' \subseteq Snap
    BY <1>1, <1>3 DEF Inv, Elsewhere
  <1>6. Elsewhere'
    BY <1>3, <1>4, <1>5 DEF Inv, Elsewhere
  <1> QED BY <1>2, <1>6 DEF Inv

LEMMA SnapReturnsKeeps == ASSUME Inv, NEW s \in snaps, SnapReturns(s) PROVE Inv'
  <1>1. s.file \in File
    BY DEF Inv, Elsewhere, Snap
  <1>2. EditorOK'
    BY EditorStays DEF SnapReturns, Inv
  <1>3. file' = s.file /\ working' \in [Docs -> File]
    BY <1>1, RememberFits DEF SnapReturns, Show, Inv, Elsewhere
  <1>4. Elsewhere'
    BY <1>1, <1>3 DEF SnapReturns, Inv, Elsewhere
  <1> QED BY <1>2, <1>4 DEF Inv

LEMMA SnapFailsKeeps == ASSUME Inv, NEW s \in snaps, SnapFails(s) PROVE Inv'
  <1>1. EditorOK'
    BY EditorStays DEF SnapFails, Inv
  <1>2. Elsewhere'
    BY DEF SnapFails, Inv, Elsewhere
  <1> QED BY <1>1, <1>2 DEF Inv

-----------------------------------------------------------------------------
(* The theorems *)

\* Every step keeps the invariant
LEMMA InvNext == Inv /\ [Next]_vars => Inv'
  <1> SUFFICES ASSUME Inv, [Next]_vars PROVE Inv'
    OBVIOUS
  <1>1. CASE User
    BY <1>1, OpenKeeps, OpenStoredKeeps, CloseKeeps, WorkSaveKeeps, UndoKeeps, RedoKeeps,
       AskKeeps DEF User
  <1>2. CASE Activate
    BY <1>2, ActivateKeeps
  <1>3. CASE HistoryArrives
    BY <1>3, HistoryKeeps
  <1>4. CASE TimerFires
    BY <1>4, TimerKeeps
  <1>5. CASE EditAnswers
    BY <1>5, AnnotatedKeeps, EditFailsKeeps, ArrangedKeeps, ArrangedStoredKeeps,
       ArrangedSavedKeeps, ArrangedFailsKeeps, MergeShownKeeps, MergeOvertakenKeeps DEF EditAnswers
  <1>6. CASE SnapAnswers
    BY <1>6, SnapServedKeeps, SnapReturnsKeeps, SnapFailsKeeps DEF SnapAnswers
  <1>7. CASE UNCHANGED vars
    <2>1. EditorOK'
      BY <1>7, EditorStays DEF vars, Inv
    <2>2. Elsewhere'
      BY <1>7 DEF vars, Inv, Elsewhere
    <2> QED BY <2>1, <2>2 DEF Inv
  <1> QED BY <1>1, <1>2, <1>3, <1>4, <1>5, <1>6, <1>7 DEF Next

\* In every behaviour, disturbed or not, the variables have their types
THEOREM EditorTyped == Spec => []TypeOK
  <1>1. Spec => []Inv
    BY InvInit, InvNext, PTL DEF Spec
  <1> QED BY <1>1, InvIsBoth, PTL

\* In every behaviour the undo and redo stacks stay within the limit together
THEOREM UndoIsBounded == Spec => []StacksBounded
  <1>1. Spec => []Inv
    BY InvInit, InvNext, PTL DEF Spec
  <1> QED BY <1>1, InvIsBoth, PTL

-----------------------------------------------------------------------------
(* As long as nothing is disturbed                                          *)
(*                                                                          *)
(* UndoChains, OwnFile and NothingForgotten hold together. An answer that   *)
(* is applied undisturbed belongs to the active slot and to the file on the *)
(* screen (Owned); the file there is the working file of that slot, so what *)
(* is shown is what is kept. Edits are numbered as they are asked for, so a *)
(* file that has an edit younger than a page operation is not its result    *)
(* (Chains): that operation cannot end undisturbed any more. A merge that   *)
(* was edited over while it read its thumbnails (Gone) leaves a gap in the  *)
(* stacks that only closing the editor closes. What redo may                *)
(* bring back was once the working file, and its edits stay on their way to *)
(* the server, because whatever drops them empties the redo stack (Kept).   *)

\* Page operations of this editor that have shown their file without its entry
Waiting == {c \in calls : c.phase # "asked" /\ c.mounted}

\* Page operations that have no version yet, and merges of this editor
Arranging == {c \in calls : c.kind # "annotate" /\ c.phase # "thumbs"}
Merging == {c \in calls : c.kind = "merge" /\ c.mounted}

\* What is open, who asked, that the pages are rearranged one at a time until
\* the version is there, and that an editor has one merge at a time to its end
Mounting ==
    /\ ~isOpen \/ active = Nothing => undo = <<>> /\ redo = <<>>
    /\ opening # Nothing => active = Nothing
    /\ isOpen => file # Nothing /\ (opening # Nothing \/ active # Nothing)
    /\ \A c \in calls : /\ c.mounted => isOpen
                        /\ c.kind = "annotate" => c.phase = "asked"
                        /\ c.phase = "thumbs" => c.kind = "merge"
    /\ \A a, b \in Arranging : a = b
    /\ \A a, b \in Merging : a = b

\* Every file is under the slot of its document
Owned ==
    /\ \A d \in Docs : working[d].of = d /\ \A v \in versions[d] : v.of = d
    /\ file # Nothing /\ active # Nothing => file = working[active]
    /\ opening # Nothing => opening.file = working[opening.doc]
    /\ timer # Nothing => timer.file.of = timer.doc
    /\ \A c \in calls : c.base.of = c.doc
    /\ \A s \in snaps : s.file.of = s.doc

\* No file has an edit that was not asked for, and no call starts from a file
\* with a later edit
Old(f) == \A n \in f.edits : n <= made

Numbered ==
    /\ \A d \in Docs : Old(working[d])
    /\ timer # Nothing => Old(timer.file)
    /\ \A s \in snaps : Old(s.file)
    /\ \A c \in calls : c.n <= made /\ \A n \in c.base.edits : n < c.n

\* An entry of a stack adds an edit to a file of the active slot
Grows(e) ==
    /\ e.before.of = active /\ e.after.of = active
    /\ e.before.edits \subseteq e.after.edits /\ Old(e.after)

Entries ==
    /\ \A i \in 1..Len(undo) : Grows(undo[i])
    /\ \A i \in 1..Len(redo) : Grows(redo[i])

\* A stack that leads to the file f, or back from it
Forward(u, f) ==
    /\ u # <<>> => Last(u).after = f
    /\ \A i \in 1..(Len(u) - 1) : u[i].after = u[i + 1].before

Backward(r, f) ==
    /\ r # <<>> => Last(r).before = f
    /\ \A i \in 1..(Len(r) - 1) : r[i].before = r[i + 1].after

Chained(f) == Forward(undo, f) /\ Backward(redo, f)

\* The file on the screen has an edit younger than the call
Overtaken(c) == \E n \in file.edits : n > c.n

\* A merge was edited over before it had its entry
Gone == \E m \in Waiting : m.phase = "thumbs" /\ Overtaken(m)

\* The chain goes through the file on the screen, or through the one that a
\* page operation without its entry started from
Linked ==
    /\ Waiting = {} => Chained(file)
    /\ \A a, b \in Waiting : a = b
    /\ \A c \in Waiting : Overtaken(c) \/ (file = Result(c) /\ Chained(c.base))

Chains == Gone \/ Linked

\* The edits of f are in one of the files of G
Within(f, G) == \E g \in G : f.edits \subseteq g.edits

Safe(d) == versions[d] \cup OnItsWay(d)

Kept ==
    /\ \A d \in Docs : Within(working[d], Safe(d))
    /\ Waiting = {} =>
           \A d \in Docs : d = active => \A i \in 1..Len(redo) : Within(redo[i].after, Safe(d))
    /\ \A c \in calls : c.phase \in {"saved", "thumbs"} => Result(c) \in versions[c.doc]
    /\ \A s \in snaps : s.stored => s.file \in versions[s.doc]

Calm == Mounting /\ Owned /\ Numbered /\ Entries /\ Chains /\ Kept
Undisturbed == ~disturbed => Calm

-----------------------------------------------------------------------------
(* Lemmas about stacks *)

LEMMA LastOfKeeps ==
  ASSUME NEW S, NEW s \in Seq(S), NEW n \in Nat
  PROVE  \E k \in Nat : /\ Len(LastOf(s, n)) = Len(s) - k /\ k <= Len(s)
                        /\ \A i \in 1..Len(LastOf(s, n)) : LastOf(s, n)[i] = s[i + k]
  <1>1. Len(s) \in Nat
    BY LenProperties
  <1>2. CASE Len(s) > n
    <2>1. PICK k \in Nat : k <= Len(s) /\ k = Len(s) - n /\ k + 1 = Len(s) - n + 1
      <3>1. Len(s) - n \in Nat /\ Len(s) - n <= Len(s)
        BY <1>1, <1>2
      <3> QED BY <3>1, Zenon
    <2> DEFINE t == SubSeq(s, k + 1, Len(s))
    <2>2. LastOf(s, n) = t
      BY <1>2, <2>1, Zenon DEF LastOf
    <2>3. \A i \in (k + 1)..Len(s) : s[i] \in S
      BY <1>1, <2>1, ElementOfSeq
    <2>4. k + 1 \in Int /\ Len(s) \in Int
      BY <1>1
    <2>5. /\ Len(t) = IF k + 1 <= Len(s) THEN Len(s) - (k + 1) + 1 ELSE 0
          /\ \A i \in 1..(Len(s) - (k + 1) + 1) : t[i] = s[(k + 1) + i - 1]
      BY <2>3, <2>4, SubSeqProperties
    <2> HIDE DEF t
    <2>6. Len(t) = Len(s) - k
      BY <1>1, <2>1, <2>5
    <2>7. \A i \in 1..Len(t) : t[i] = s[i + k]
      BY <1>1, <2>1, <2>5, <2>6
    <2> QED BY <2>1, <2>2, <2>6, <2>7
  <1>3. CASE ~(Len(s) > n)
    <2>1. LastOf(s, n) = s
      BY <1>1, <1>3 DEF LastOf
    <2>2. \A i \in 1..Len(s) : s[i] = s[i + 0]
      BY <1>1
    <2>3. 0 \in Nat /\ Len(s) = Len(s) - 0 /\ 0 <= Len(s)
      BY <1>1
    <2> QED BY <2>1, <2>2, <2>3
  <1> QED BY <1>2, <1>3

LEMMA FrontKeeps ==
  ASSUME NEW S, NEW s \in Seq(S), s # <<>>
  PROVE  /\ Len(s) \in Nat \ {0} /\ Front(s) \in Seq(S) /\ Len(Front(s)) = Len(s) - 1
         /\ \A i \in 1..(Len(s) - 1) : Front(s)[i] = s[i]
  <1>1. Front(s) \in Seq(S) /\ Len(Front(s)) = Len(s) - 1 /\ Len(s) \in Nat
    BY FrontFits
  <1>2. Len(s) # 0
    BY EmptySeq
  <1>3. PICK k \in Nat : Len(s) = k + 1 /\ k = Len(s) - 1
    <2>1. Len(s) - 1 \in Nat /\ Len(s) = (Len(s) - 1) + 1
      BY <1>1, <1>2
    <2> QED BY <2>1, Zenon
  <1>4. \A i \in 1..k : s[i] \in S
    BY <1>3, ElementOfSeq
  <1>5. \A i \in 1..(k - 1 + 1) : SubSeq(s, 1, k)[i] = s[1 + i - 1]
    BY <1>4, SubSeqProperties
  <1>6. Front(s) = SubSeq(s, 1, k)
    BY <1>3 DEF Front
  <1>7. \A i \in 1..k : Front(s)[i] = s[i]
    BY <1>5, <1>6
  <1> QED BY <1>1, <1>2, <1>3, <1>7

\* An empty stack leads anywhere
LEMMA EmptyLeads == ASSUME NEW f PROVE Forward(<<>>, f) /\ Backward(<<>>, f)
  BY EmptySeq DEF Forward, Backward

\* An edit on top of a stack that leads to where the edit starts
LEMMA ForwardAppend ==
  ASSUME NEW u \in Seq(Entry), NEW e \in Entry, Forward(u, e.before)
  PROVE  Forward(Append(u, e), e.after)
  <1> DEFINE t == Append(u, e)
  <1>1. /\ Len(u) \in Nat /\ Len(t) = Len(u) + 1 /\ t[Len(u) + 1] = e
        /\ \A i \in 1..Len(u) : t[i] = u[i]
    BY AppendProperties, LenProperties
  <1> HIDE DEF t
  <1>2. Last(t) = e
    BY <1>1 DEF Last
  <1>3. ASSUME NEW i \in 1..(Len(t) - 1) PROVE t[i].after = t[i + 1].before
    <2>1. CASE i = Len(u)
      <3>1. u # <<>>
        BY <1>1, <2>1, EmptySeq
      <3> QED BY <1>1, <2>1, <3>1 DEF Forward, Last
    <2>2. CASE i # Len(u)
      <3>1. i \in 1..(Len(u) - 1) /\ i \in 1..Len(u) /\ i + 1 \in 1..Len(u)
        BY <1>1, <2>2
      <3> QED BY <1>1, <3>1 DEF Forward
    <2> QED BY <2>1, <2>2
  <1> QED BY <1>2, <1>3 DEF Forward, t

LEMMA BackwardAppend ==
  ASSUME NEW r \in Seq(Entry), NEW e \in Entry, Backward(r, e.after)
  PROVE  Backward(Append(r, e), e.before)
  <1> DEFINE t == Append(r, e)
  <1>1. /\ Len(r) \in Nat /\ Len(t) = Len(r) + 1 /\ t[Len(r) + 1] = e
        /\ \A i \in 1..Len(r) : t[i] = r[i]
    BY AppendProperties, LenProperties
  <1> HIDE DEF t
  <1>2. Last(t) = e
    BY <1>1 DEF Last
  <1>3. ASSUME NEW i \in 1..(Len(t) - 1) PROVE t[i].before = t[i + 1].after
    <2>1. CASE i = Len(r)
      <3>1. r # <<>>
        BY <1>1, <2>1, EmptySeq
      <3> QED BY <1>1, <2>1, <3>1 DEF Backward, Last
    <2>2. CASE i # Len(r)
      <3>1. i \in 1..(Len(r) - 1) /\ i \in 1..Len(r) /\ i + 1 \in 1..Len(r)
        BY <1>1, <2>2
      <3> QED BY <1>1, <3>1 DEF Backward
    <2> QED BY <2>1, <2>2
  <1> QED BY <1>2, <1>3 DEF Backward, t

\* Dropping the oldest entries changes nothing for the rest
LEMMA ForwardLastOf ==
  ASSUME NEW u \in Seq(Entry), NEW n \in Nat, NEW f, Forward(u, f)
  PROVE  Forward(LastOf(u, n), f)
  <1> DEFINE t == LastOf(u, n)
  <1>1. t \in Seq(Entry) /\ Len(t) \in Nat /\ Len(u) \in Nat
    BY LastOfFits, LenProperties
  <1>2. PICK k \in Nat : /\ Len(t) = Len(u) - k /\ k <= Len(u)
                         /\ \A i \in 1..Len(t) : t[i] = u[i + k]
    BY LastOfKeeps
  <1> HIDE DEF t
  <1>3. t # <<>> => Last(t).after = f
    <2> SUFFICES ASSUME t # <<>> PROVE Last(t).after = f
      OBVIOUS
    <2>1. Len(t) # 0
      BY <1>1, EmptySeq
    <2>2. Len(t) \in 1..Len(t) /\ Len(t) + k = Len(u) /\ Len(u) # 0
      BY <1>1, <1>2, <2>1
    <2>3. u # <<>> /\ t[Len(t)] = u[Len(u)]
      BY <1>2, <2>2, EmptySeq
    <2> QED BY <2>3 DEF Forward, Last
  <1>4. ASSUME NEW i \in 1..(Len(t) - 1) PROVE t[i].after = t[i + 1].before
    <2>1. i \in 1..Len(t) /\ i + 1 \in 1..Len(t) /\ i + k \in 1..(Len(u) - 1)
          /\ (i + 1) + k = (i + k) + 1
      BY <1>1, <1>2
    <2>2. t[i] = u[i + k] /\ t[i + 1] = u[(i + k) + 1]
      BY <1>2, <2>1
    <2> QED BY <2>1, <2>2 DEF Forward
  <1> QED BY <1>3, <1>4 DEF Forward, t

\* Taking the top off a stack
LEMMA ForwardFront ==
  ASSUME NEW u \in Seq(Entry), NEW f, Forward(u, f), u # <<>>
  PROVE  Last(u).after = f /\ Forward(Front(u), Last(u).before)
  <1> DEFINE t == Front(u)
  <1>1. /\ Len(u) \in Nat \ {0} /\ t \in Seq(Entry) /\ Len(t) = Len(u) - 1
        /\ \A i \in 1..(Len(u) - 1) : t[i] = u[i]
    BY FrontKeeps
  <1> HIDE DEF t
  <1>2. t # <<>> => Last(t).after = Last(u).before
    <2> SUFFICES ASSUME t # <<>> PROVE Last(t).after = Last(u).before
      OBVIOUS
    <2>1. Len(t) # 0
      BY <1>1, EmptySeq
    <2>2. Len(t) \in 1..(Len(u) - 1) /\ Len(t) + 1 = Len(u)
      BY <1>1, <2>1
    <2>3. t[Len(t)] = u[Len(t)] /\ u[Len(t)].after = u[Len(t) + 1].before
      BY <1>1, <2>2 DEF Forward
    <2> QED BY <2>2, <2>3 DEF Last
  <1>3. \A i \in 1..(Len(t) - 1) : t[i].after = t[i + 1].before
    BY <1>1 DEF Forward
  <1> QED BY <1>2, <1>3 DEF Forward, t

LEMMA BackwardFront ==
  ASSUME NEW r \in Seq(Entry), NEW f, Backward(r, f), r # <<>>
  PROVE  Last(r).before = f /\ Backward(Front(r), Last(r).after)
  <1> DEFINE t == Front(r)
  <1>1. /\ Len(r) \in Nat \ {0} /\ t \in Seq(Entry) /\ Len(t) = Len(r) - 1
        /\ \A i \in 1..(Len(r) - 1) : t[i] = r[i]
    BY FrontKeeps
  <1> HIDE DEF t
  <1>2. t # <<>> => Last(t).before = Last(r).after
    <2> SUFFICES ASSUME t # <<>> PROVE Last(t).before = Last(r).after
      OBVIOUS
    <2>1. Len(t) # 0
      BY <1>1, EmptySeq
    <2>2. Len(t) \in 1..(Len(r) - 1) /\ Len(t) + 1 = Len(r)
      BY <1>1, <2>1
    <2>3. t[Len(t)] = r[Len(t)] /\ r[Len(t)].before = r[Len(t) + 1].after
      BY <1>1, <2>2 DEF Backward
    <2> QED BY <2>2, <2>3 DEF Last
  <1>3. \A i \in 1..(Len(t) - 1) : t[i].before = t[i + 1].after
    BY <1>1 DEF Backward
  <1> QED BY <1>2, <1>3 DEF Backward, t

-----------------------------------------------------------------------------
(* Lemmas about steps *)

\* A disturbance is never forgotten
LEMMA DisturbedStays == ASSUME disturbed, [Next]_vars PROVE disturbed'
  <1>1. CASE User
    BY <1>1, Zenon DEF User, Open, OpenStored, Close, WorkSave, Undo, Redo, Ask
  <1>2. CASE Activate
    BY <1>2, Zenon DEF Activate
  <1>3. CASE HistoryArrives
    BY <1>3, Zenon DEF HistoryArrives
  <1>4. CASE TimerFires
    BY <1>4, Zenon DEF TimerFires
  <1>5. CASE EditAnswers
    BY <1>5, Zenon DEF EditAnswers, Annotated, EditFails, Arranged, ArrangedStored,
       ArrangedSaved, ArrangedFails, MergeShown, MergeOvertaken
  <1>6. CASE SnapAnswers
    BY <1>6, Zenon DEF SnapAnswers, SnapServed, SnapReturns, SnapFails
  <1>7. CASE UNCHANGED vars
    BY <1>7, Zenon DEF vars
  <1> QED BY <1>1, <1>2, <1>3, <1>4, <1>5, <1>6, <1>7 DEF Next

\* What a call answers with
LEMMA ResultIs ==
  ASSUME NEW c \in Call
  PROVE  /\ Result(c) \in File /\ Result(c) # Nothing
         /\ Result(c).of = c.base.of
         /\ Result(c).edits = c.base.edits \cup {c.n}
  BY NothingIsNoRecord DEF Result, Call, File

\* An answer that is in its place is for the active slot, and the file of no
\* other slot changes
LEMMA ShowPlaced ==
  ASSUME Inv, NEW d \in Docs, NEW f \in File, NEW base, Show(d, f), ~Misplaced(d, base)
  PROVE  /\ active = d /\ file' = f /\ f # Nothing
         /\ file = Nothing \/ file = base
         /\ working' = [working EXCEPT ![d] = f]
         /\ \A x \in Docs : working'[x] = IF x = d THEN f ELSE working[x]
  <1>1. active = d /\ d # Nothing /\ f # Nothing /\ file' = f /\ (file = Nothing \/ file = base)
    BY NothingIsNoRecord DEF Show, Misplaced
  <1>2. working' = [working EXCEPT ![d] = f]
    BY <1>1 DEF Show, Remember, Inv, Elsewhere
  <1>3. \A x \in Docs : working'[x] = IF x = d THEN f ELSE working[x]
    BY <1>2 DEF Inv, Elsewhere
  <1> QED BY <1>1, <1>2, <1>3

\* The number of an edit stays below the next one
LEMMA OldStays ==
  ASSUME Inv, made' \in {made, made + 1}, NEW f \in File, Old(f)
  PROVE  Old(f)'
  BY DEF Old, File, Numbers, Inv, Elsewhere

LEMMA EntriesStay ==
  ASSUME Inv, Entries, UNCHANGED <<undo, redo, active>>, made' \in {made, made + 1}
  PROVE  Entries'
  <1>1. ASSUME NEW e \in Entry, Grows(e) PROVE Grows(e)'
    <2>1. e.after \in File
      BY DEF Entry
    <2>2. Old(e.after)'
      BY <1>1, <2>1, OldStays DEF Grows
    <2> QED BY <1>1, <2>2 DEF Grows
  <1>2. /\ \A i \in 1..Len(undo) : undo[i] \in Entry
        /\ \A i \in 1..Len(redo) : redo[i] \in Entry
    BY ElementOfSeq DEF Inv, EditorOK
  <1> QED BY <1>1, <1>2 DEF Entries

LEMMA EmptyEntries == ASSUME undo' = <<>>, redo' = <<>> PROVE Entries'
  BY EmptySeq DEF Entries

\* A file that is kept stays kept while the versions, the snapshots, the page
\* operations and the timer do
LEMMA WithinGrows ==
  ASSUME NEW G, NEW H, G \subseteq H, NEW f, Within(f, G)
  PROVE  Within(f, H)
  BY DEF Within

LEMMA WithinItself == ASSUME NEW f, NEW G, f \in G PROVE Within(f, G)
  BY DEF Within

LEMMA WithinLarger ==
  ASSUME NEW e, NEW f, NEW G, Within(f, G), e.edits \subseteq f.edits
  PROVE  Within(e, G)
  BY DEF Within

LEMMA SafeStays ==
  ASSUME UNCHANGED <<versions, snaps, calls, timer>>
  PROVE  \A d \in Docs : Safe(d)' = Safe(d)
  BY DEF Safe, OnItsWay

\* The same by members
LEMMA SafeIs ==
  ASSUME NEW d, NEW g
  PROVE  g \in Safe(d) <=> \/ g \in versions[d]
                           \/ \E s \in snaps : s.doc = d /\ g = s.file
                           \/ \E c \in calls : c.doc = d /\ c.phase # "asked" /\ g = Result(c)
                           \/ timer # Nothing /\ timer.doc = d /\ g = timer.file
  BY DEF Safe, OnItsWay

LEMMA SafeWillBe ==
  ASSUME NEW d, NEW g
  PROVE  g \in Safe(d)' <=> \/ g \in versions'[d]
                            \/ \E s \in snaps' : s.doc = d /\ g = s.file
                            \/ \E c \in calls' : c.doc = d /\ c.phase # "asked" /\ g = Result(c)
                            \/ timer' # Nothing /\ timer'.doc = d /\ g = timer'.file
  BY DEF Safe, OnItsWay, Result

\* Recording an edit that starts where the stack leads
LEMMA RecordChains ==
  ASSUME Inv, NEW c \in Call, NEW f \in File, c.mounted, Record(c, f), Forward(undo, c.base)
  PROVE  Forward(undo', f) /\ redo' = <<>>
  <1> DEFINE e == [before |-> c.base, after |-> f, n |-> c.n]
  <1>1. e \in Entry /\ e.before = c.base /\ e.after = f
    BY DEF Entry, Call
  <1>2. undo' = LastOf(Append(undo, e), UndoLimit) /\ redo' = <<>>
    BY DEF Record, PushEdit
  <1> HIDE DEF e
  <1>3. undo \in Seq(Entry) /\ Append(undo, e) \in Seq(Entry)
    BY <1>1, AppendProperties DEF Inv, EditorOK
  <1>4. Forward(Append(undo, e), f)
    BY <1>1, <1>3, ForwardAppend
  <1> QED BY <1>2, <1>3, <1>4, ForwardLastOf

LEMMA RecordEntries ==
  ASSUME Inv, Entries, Numbered, NEW c \in calls, Record(c, Result(c)), c.base.of = active,
         UNCHANGED <<active, made>>
  PROVE  Entries'
  <1>0. c \in Call
    BY DEF Inv, Elsewhere
  <1>1. CASE ~c.mounted
    <2>1. UNCHANGED <<undo, redo>>
      BY <1>1 DEF Record, editor
    <2> QED BY <2>1, EntriesStay
  <1>2. CASE c.mounted
    <2> DEFINE e == [before |-> c.base, after |-> Result(c), n |-> c.n]
               t == Append(undo, e)
    <2>1. undo' = LastOf(t, UndoLimit) /\ redo' = <<>>
      BY <1>2 DEF Record, PushEdit
    <2>2. e \in Entry /\ e.before = c.base /\ e.after = Result(c)
      BY <1>0, ResultIs DEF Entry, Call
    <2>3. Grows(e)
      <3>1. Old(Result(c))
        BY <1>0, ResultIs DEF Old, Numbered, Call, File, Numbers, Inv, Elsewhere
      <3> QED BY <2>2, <3>1, <1>0, ResultIs DEF Grows
    <2> HIDE DEF e
    <2>4. /\ t \in Seq(Entry) /\ Len(undo) \in Nat /\ Len(t) = Len(undo) + 1
          /\ t[Len(undo) + 1] = e
          /\ \A i \in 1..Len(undo) : t[i] = undo[i]
      BY <2>2, AppendProperties, LenProperties DEF Inv, EditorOK
    <2>5. \A i \in 1..Len(t) : Grows(t[i])
      BY <2>3, <2>4 DEF Entries
    <2> HIDE DEF t
    <2>6. PICK k \in Nat : /\ Len(undo') = Len(t) - k /\ k <= Len(t)
                           /\ \A i \in 1..Len(undo') : undo'[i] = t[i + k]
      <3>1. \E k \in Nat : /\ Len(LastOf(t, UndoLimit)) = Len(t) - k /\ k <= Len(t)
                           /\ \A i \in 1..Len(LastOf(t, UndoLimit)) :
                                  LastOf(t, UndoLimit)[i] = t[i + k]
        BY <2>4, LastOfKeeps
      <3> QED BY <2>1, <3>1, Zenon
    <2>7. \A i \in 1..Len(undo') : Grows(undo'[i])
      <3> SUFFICES ASSUME NEW i \in 1..Len(undo') PROVE Grows(undo'[i])
        OBVIOUS
      <3>1. i + k \in 1..Len(t)
        BY <2>4, <2>6
      <3> QED BY <2>5, <2>6, <3>1
    <2>8. \A x : Grows(x)' <=> Grows(x)
      BY DEF Grows, Old
    <2> QED BY <2>1, <2>7, <2>8, EmptySeq DEF Entries
  <1> QED BY <1>1, <1>2

-----------------------------------------------------------------------------
(* Opening and closing *)

LEMMA OpenCalm == ASSUME Inv, Calm, NEW d \in Docs, Open(d) PROVE Calm'
  <1>1. /\ ~isOpen /\ isOpen' = TRUE /\ active' = d /\ file' = working[d] /\ opening = Nothing
        /\ undo' = <<>> /\ redo' = <<>>
        /\ UNCHANGED <<opening, working, undo, redo, calls, timer, snaps, versions, made>>
    BY DEF Open, editor, Calm, Mounting
  <1>2. working[d] \in File /\ working[d] # Nothing /\ d # Nothing
    BY NothingIsNoRecord DEF Inv, Elsewhere
  <1>3. Mounting'
    BY <1>1, <1>2 DEF Calm, Mounting, Arranging, Merging
  <1>4. Owned'
    BY <1>1 DEF Calm, Owned
  <1>5. Numbered'
    BY <1>1 DEF Calm, Numbered, Old
  <1>6. Entries'
    BY <1>1, EmptyEntries
  <1>7. Chains'
    <2>1. \A c \in calls : ~c.mounted
      BY <1>1 DEF Calm, Mounting
    <2>2. Chained(file)'
      BY <1>1, EmptyLeads DEF Chained
    <2> QED BY <1>1, <2>1, <2>2 DEF Chains, Linked, Waiting
  <1>8. Kept'
    <2>1. \A x \in Docs : Safe(x)' = Safe(x)
      BY <1>1, SafeStays
    <2>2. Len(redo') = 0
      BY <1>1, EmptySeq
    <2> QED BY <1>1, <2>1, <2>2 DEF Calm, Kept, Result
  <1> QED BY <1>3, <1>4, <1>5, <1>6, <1>7, <1>8 DEF Calm

LEMMA OpenStoredCalm ==
  ASSUME Inv, Calm, ~disturbed', NEW d \in Docs, OpenStored(d) PROVE Calm'
  <1>1. /\ ~isOpen /\ isOpen' = TRUE /\ active = Nothing /\ file' = working[d]
        /\ opening' = [doc |-> d, file |-> working[d]]
        /\ undo' = <<>> /\ redo' = <<>>
        /\ UNCHANGED <<active, undo, redo, calls, timer, snaps, versions, made>>
        /\ Remember(active, working[d])
    BY DEF OpenStored, editor, Calm, Mounting
  <1>2. working[d] \in File /\ working[d] # Nothing /\ opening' # Nothing
    BY <1>1, NothingIsNoRecord DEF Inv, Elsewhere
  <1>3. working' = working
    BY <1>1 DEF Remember, Inv, Elsewhere
  <1>4. Mounting'
    BY <1>1, <1>2 DEF Calm, Mounting, Arranging, Merging
  <1>5. Owned'
    BY <1>1, <1>3 DEF Calm, Owned
  <1>6. Numbered'
    BY <1>1, <1>3 DEF Calm, Numbered, Old
  <1>7. Entries'
    BY <1>1, EmptyEntries
  <1>8. Chains'
    <2>1. \A c \in calls : ~c.mounted
      BY <1>1 DEF Calm, Mounting
    <2>2. Chained(file)'
      BY <1>1, EmptyLeads DEF Chained
    <2> QED BY <1>1, <2>1, <2>2 DEF Chains, Linked, Waiting
  <1>9. Kept'
    <2>1. \A x \in Docs : Safe(x)' = Safe(x)
      BY <1>1, SafeStays
    <2>2. Len(redo') = 0
      BY <1>1, EmptySeq
    <2> QED BY <1>1, <1>3, <2>1, <2>2 DEF Calm, Kept, Result
  <1> QED BY <1>4, <1>5, <1>6, <1>7, <1>8, <1>9 DEF Calm

LEMMA ActivateCalm == ASSUME Inv, Calm, ~disturbed', Activate PROVE Calm'
  <1>1. /\ opening # Nothing /\ opening' = Nothing /\ active = Nothing
        /\ active' = opening.doc /\ opening.doc \in Docs
        /\ file' = file /\ file = opening.file
        /\ working' = [working EXCEPT ![opening.doc] = opening.file]
        /\ opening.file = working[opening.doc]
        /\ undo' = <<>> /\ redo' = <<>>
        /\ UNCHANGED <<isOpen, undo, redo, calls, timer, snaps, versions, made>>
    BY DEF Activate, editor, Calm, Mounting, Owned, Inv, Elsewhere
  <1>2. working' = working /\ active' # Nothing
    BY <1>1 DEF Inv, Elsewhere
  <1>3. Mounting'
    BY <1>1, <1>2 DEF Calm, Mounting, Arranging, Merging
  <1>4. Owned'
    BY <1>1, <1>2 DEF Calm, Owned
  <1>5. Numbered'
    BY <1>1, <1>2 DEF Calm, Numbered, Old
  <1>6. Entries'
    BY <1>1, EmptyEntries
  <1>7. Chains'
    BY <1>1 DEF Calm, Chains, Gone, Linked, Waiting, Chained, Overtaken, Result
  <1>8. Kept'
    <2>1. \A x \in Docs : Safe(x)' = Safe(x)
      BY <1>1, SafeStays
    <2>2. Len(redo') = 0
      BY <1>1, EmptySeq
    <2> QED BY <1>1, <1>2, <2>1, <2>2 DEF Calm, Kept, Result
  <1> QED BY <1>3, <1>4, <1>5, <1>6, <1>7, <1>8 DEF Calm

\* Closing forgets the stacks, not the calls
LEMMA CloseCalm == ASSUME Inv, Calm, Close PROVE Calm'
  <1> DEFINE Left(c) == [c EXCEPT !.mounted = FALSE]
  <1>1. /\ isOpen /\ isOpen' = FALSE /\ file' = Nothing
        /\ undo' = <<>> /\ redo' = <<>>
        /\ calls' = {Left(c) : c \in calls}
        /\ UNCHANGED <<active, opening, timer, snaps, versions, made>>
    BY DEF Close, ForgetEdits
  <1>2. working' = working
    BY DEF Close, Calm, Owned, Inv, Elsewhere
  <1>3. ASSUME NEW c \in calls
        PROVE  /\ Left(c).n = c.n /\ Left(c).doc = c.doc /\ Left(c).base = c.base
               /\ Left(c).kind = c.kind /\ Left(c).phase = c.phase /\ Left(c).mounted = FALSE
               /\ Result(Left(c)) = Result(c)
    BY DEF Inv, Elsewhere, Call, Result
  <1>4. ASSUME NEW x \in calls'
        PROVE  \E c \in calls :
                 /\ x = Left(c) /\ x.n = c.n /\ x.doc = c.doc /\ x.base = c.base
                 /\ x.kind = c.kind /\ x.phase = c.phase /\ x.mounted = FALSE
                 /\ Result(x) = Result(c)
    <2>1. PICK c \in calls : x = Left(c)
      BY <1>1
    <2> QED BY <1>3, <2>1
  <1>5. \A c \in calls : Left(c) \in calls'
    BY <1>1
  <1> HIDE DEF Left
  <1>6. Mounting'
    <2>1. \A c \in calls' : /\ c.mounted = FALSE
                            /\ c.kind = "annotate" => c.phase = "asked"
                            /\ c.phase = "thumbs" => c.kind = "merge"
      BY <1>4 DEF Calm, Mounting
    <2>2. ASSUME NEW a \in Arranging', NEW b \in Arranging' PROVE a = b
      <3>1. PICK c \in calls : a = Left(c) /\ a.kind = c.kind /\ a.phase = c.phase
        BY <1>4, <2>2 DEF Arranging
      <3>2. PICK e \in calls : b = Left(e) /\ b.kind = e.kind /\ b.phase = e.phase
        BY <1>4, <2>2 DEF Arranging
      <3>3. c \in Arranging /\ e \in Arranging
        BY <2>2, <3>1, <3>2 DEF Arranging
      <3> QED BY <3>1, <3>2, <3>3 DEF Calm, Mounting
    <2>3. Merging' = {}
      BY <2>1 DEF Merging
    <2> QED BY <1>1, <2>1, <2>2, <2>3 DEF Calm, Mounting
  <1>7. Owned'
    <2>1. \A c \in calls' : c.base.of = c.doc
      BY <1>4 DEF Calm, Owned
    <2> QED BY <1>1, <1>2, <2>1 DEF Calm, Owned
  <1>8. Numbered'
    <2>1. \A c \in calls' : c.n <= made /\ \A n \in c.base.edits : n < c.n
      BY <1>4 DEF Calm, Numbered
    <2> QED BY <1>1, <1>2, <2>1 DEF Calm, Numbered, Old
  <1>9. Entries'
    BY <1>1, EmptyEntries
  <1>10. Chains'
    <2>1. Chained(file)'
      BY <1>1, EmptyLeads DEF Chained
    <2>2. \A c \in calls' : ~c.mounted
      BY <1>4
    <2> QED BY <2>1, <2>2 DEF Chains, Linked, Waiting
  <1>11. Kept'
    <2>1. ASSUME NEW d \in Docs, NEW g \in Safe(d) PROVE g \in Safe(d)'
      <3>1. \A c \in calls : c.doc = d /\ c.phase # "asked" /\ g = Result(c) =>
                \E x \in calls' : x.doc = d /\ x.phase # "asked" /\ g = Result(x)
        BY <1>3, <1>5
      <3> QED BY <1>1, <2>1, <3>1, SafeIs, SafeWillBe
    <2>2. \A d \in Docs : Within(working'[d], Safe(d)')
      BY <1>2, <2>1, WithinGrows DEF Calm, Kept
    <2>3. Len(redo') = 0
      BY <1>1, EmptySeq
    <2>4. \A c \in calls' : c.phase \in {"saved", "thumbs"} => Result(c) \in versions[c.doc]
      BY <1>4 DEF Calm, Kept
    <2> QED BY <1>1, <2>2, <2>3, <2>4 DEF Calm, Kept, Result
  <1> QED BY <1>6, <1>7, <1>8, <1>9, <1>10, <1>11 DEF Calm

LEMMA HistoryCalm == ASSUME Inv, Calm, HistoryArrives PROVE Calm'
  <1>1. /\ undo' = <<>> /\ redo' = <<>>
        /\ UNCHANGED <<active, isOpen, opening, file, working, calls, timer, snaps, versions, made>>
    BY DEF HistoryArrives, ForgetEdits
  <1>2. Mounting' /\ Owned'
    BY <1>1 DEF Calm, Mounting, Arranging, Merging, Owned
  <1>3. Numbered'
    BY <1>1 DEF Calm, Numbered, Old
  <1>4. Entries'
    BY <1>1, EmptyEntries
  <1>5. Chains'
    BY <1>1, EmptyLeads DEF Calm, Chains, Gone, Linked, Waiting, Chained, Overtaken, Result
  <1>6. Kept'
    <2>1. \A x \in Docs : Safe(x)' = Safe(x)
      BY <1>1, SafeStays
    <2>2. Len(redo') = 0
      BY <1>1, EmptySeq
    <2> QED BY <1>1, <2>1, <2>2 DEF Calm, Kept, Result
  <1> QED BY <1>2, <1>3, <1>4, <1>5, <1>6 DEF Calm

-----------------------------------------------------------------------------
(* Edits *)

\* A call starts from the file on the screen, with a number of its own
LEMMA AskCalm == ASSUME Inv, Calm, NEW k \in Kinds, Ask(k) PROVE Calm'
  <1> DEFINE c == [n |-> made + 1, doc |-> active, base |-> file, kind |-> k,
                   mounted |-> TRUE, phase |-> "asked"]
  <1>1. /\ isOpen /\ active \in Docs /\ file # Nothing /\ (k # "annotate" => Idle)
        /\ k = "merge" => ~MergePending
        /\ made' = made + 1 /\ calls' = calls \cup {c}
        /\ UNCHANGED <<active, isOpen, opening, file, working, undo, redo, timer, snaps, versions>>
    BY DEF Ask, editor, Inv, Elsewhere
  <1>2. /\ c.n = made + 1 /\ c.doc = active /\ c.base = file /\ c.kind = k
        /\ c.mounted = TRUE /\ c.phase = "asked"
    OBVIOUS
  <1> HIDE DEF c
  <1>3. made \in Nat /\ made' \in {made, made + 1}
    BY <1>1 DEF Inv, Elsewhere
  <1>4. file = working[active] /\ file \in File /\ Old(file) /\ file.of = active
    BY <1>1 DEF Calm, Owned, Numbered, Inv, Elsewhere
  <1>5. Mounting'
    <2>1. \A a, b \in Arranging' : a = b
      <3>1. CASE k = "annotate"
        BY <1>1, <1>2, <3>1 DEF Calm, Mounting, Arranging
      <3>2. CASE k # "annotate"
        BY <1>1, <1>2, <3>2 DEF Idle, Arranging
      <3> QED BY <3>1, <3>2
    <2>2. \A a, b \in Merging' : a = b
      <3>1. CASE k # "merge"
        BY <1>1, <1>2, <3>1 DEF Calm, Mounting, Merging
      <3>2. CASE k = "merge"
        <4>1. Merging = {}
          BY <1>1, <3>2 DEF Idle, MergePending, Merging
        <4> QED BY <1>1, <4>1 DEF Merging
      <3> QED BY <3>1, <3>2
    <2>3. \A x \in calls' : /\ x.mounted => isOpen
                            /\ x.kind = "annotate" => x.phase = "asked"
                            /\ x.phase = "thumbs" => x.kind = "merge"
      BY <1>1, <1>2 DEF Calm, Mounting
    <2> QED BY <1>1, <2>1, <2>2, <2>3 DEF Calm, Mounting
  <1>6. Owned'
    BY <1>1, <1>2, <1>4 DEF Calm, Owned
  <1>7. Numbered'
    <2>1. \A d \in Docs : Old(working[d])'
      BY <1>1, <1>3, OldStays DEF Calm, Numbered, Inv, Elsewhere
    <2>2. timer # Nothing => Old(timer.file)'
      BY <1>1, <1>3, OldStays DEF Calm, Numbered, Inv, Elsewhere
    <2>3. \A s \in snaps : Old(s.file)'
      BY <1>1, <1>3, OldStays DEF Calm, Numbered, Inv, Elsewhere, Snap
    <2>4. \A x \in calls : x.n <= made + 1 /\ \A n \in x.base.edits : n < x.n
      BY <1>3 DEF Calm, Numbered, Inv, Elsewhere, Call, Numbers
    <2>5. c.n <= made + 1 /\ \A n \in c.base.edits : n < c.n
      BY <1>2, <1>3, <1>4 DEF Old, File, Numbers
    <2> QED BY <1>1, <2>1, <2>2, <2>3, <2>4, <2>5 DEF Numbered, Old
  <1>8. Entries'
    BY <1>1, <1>3, EntriesStay DEF Calm
  <1>9. Waiting' = Waiting
    BY <1>1, <1>2 DEF Waiting
  <1>10. Chains'
    BY <1>1, <1>9 DEF Calm, Chains, Gone, Linked, Chained, Overtaken, Result
  <1>11. Kept'
    <2>1. ASSUME NEW d \in Docs, NEW g \in Safe(d) PROVE g \in Safe(d)'
      BY <1>1, SafeIs, SafeWillBe
    <2>2. \A d \in Docs : \A f : Within(f, Safe(d)) => Within(f, Safe(d)')
      BY <2>1, WithinGrows
    <2>3. \A x \in calls' : x.phase \in {"saved", "thumbs"} => Result(x) \in versions[x.doc]
      BY <1>1, <1>2 DEF Calm, Kept
    <2> QED BY <1>1, <1>9, <2>2, <2>3 DEF Calm, Kept, Result
  <1> QED BY <1>5, <1>6, <1>7, <1>8, <1>10, <1>11 DEF Calm

\* A call that is gone without an answer
LEMMA EditFailsCalm == ASSUME Inv, Calm, NEW c \in calls, EditFails(c) PROVE Calm'
  <1>1. /\ c.phase = "asked" /\ calls' = calls \ {c}
        /\ UNCHANGED <<active, isOpen, opening, file, working, undo, redo, timer, snaps,
                       versions, made>>
    BY DEF EditFails, editor
  <1>2. Waiting' = Waiting
    BY <1>1 DEF Waiting
  <1>3. Mounting' /\ Owned'
    BY <1>1 DEF Calm, Mounting, Arranging, Merging, Owned
  <1>4. Numbered' /\ Entries'
    BY <1>1, EntriesStay DEF Calm, Numbered, Old
  <1>5. Chains'
    BY <1>1, <1>2 DEF Calm, Chains, Gone, Linked, Chained, Overtaken, Result
  <1>6. Kept'
    <2>1. ASSUME NEW d \in Docs, NEW g \in Safe(d) PROVE g \in Safe(d)'
      BY <1>1, SafeIs, SafeWillBe
    <2>2. \A d \in Docs : \A f : Within(f, Safe(d)) => Within(f, Safe(d)')
      BY <2>1, WithinGrows
    <2> QED BY <1>1, <1>2, <2>2 DEF Calm, Kept, Result
  <1> QED BY <1>3, <1>4, <1>5, <1>6 DEF Calm

\* The snapshot takes the place of the timer
LEMMA TimerCalm == ASSUME Inv, Calm, TimerFires PROVE Calm'
  <1> DEFINE s == [n |-> timer.n, doc |-> timer.doc, file |-> timer.file, stored |-> FALSE]
  <1>1. /\ timer # Nothing /\ timer' = Nothing /\ snaps' = snaps \cup {s}
        /\ UNCHANGED <<active, isOpen, opening, file, working, undo, redo, calls, versions, made>>
    BY DEF TimerFires, editor
  <1>2. s.doc = timer.doc /\ s.file = timer.file /\ s.stored = FALSE
    OBVIOUS
  <1> HIDE DEF s
  <1>3. Mounting' /\ Owned'
    BY <1>1, <1>2 DEF Calm, Mounting, Arranging, Merging, Owned
  <1>4. Numbered' /\ Entries'
    BY <1>1, <1>2, EntriesStay DEF Calm, Numbered, Old
  <1>5. Chains'
    BY <1>1 DEF Calm, Chains, Gone, Linked, Chained, Overtaken, Result, Waiting
  <1>6. Kept'
    <2>1. ASSUME NEW d \in Docs, NEW g \in Safe(d) PROVE g \in Safe(d)'
      BY <1>1, <1>2, SafeIs, SafeWillBe
    <2>2. \A d \in Docs : \A f : Within(f, Safe(d)) => Within(f, Safe(d)')
      BY <2>1, WithinGrows
    <2> QED BY <1>1, <1>2, <2>2 DEF Calm, Kept, Result, Waiting
  <1> QED BY <1>3, <1>4, <1>5, <1>6 DEF Calm

\* An annotation shows its answer: its entry continues the chain, or it runs
\* ahead of the page operation that waits for its save
LEMMA AnnotatedCalm ==
  ASSUME Inv, Calm, ~disturbed', NEW c \in calls, Annotated(c) PROVE Calm'
  <1> DEFINE f == Result(c)
  <1>1. /\ c.kind = "annotate" /\ c.phase = "asked" /\ calls' = calls \ {c}
        /\ Show(c.doc, f) /\ Record(c, f)
        /\ ~Misplaced(c.doc, c.base) /\ ~Orphan(c)
        /\ timer = Nothing \/ timer.doc = c.doc
        /\ timer' = [n |-> c.n, doc |-> c.doc, file |-> f]
        /\ UNCHANGED <<active, isOpen, opening, snaps, versions, made>>
    BY DEF Annotated, Calm, Mounting
  <1>2. /\ c \in Call /\ c.doc \in Docs /\ c.base \in File /\ c.n \in Nat
        /\ f \in File /\ f.of = c.base.of /\ f.edits = c.base.edits \cup {c.n}
        /\ c.base.of = c.doc
        /\ c.n <= made /\ (\A n \in c.base.edits : n < c.n)
    BY ResultIs DEF Inv, Elsewhere, Call, Numbers, Calm, Owned, Numbered
  <1>3. /\ active = c.doc /\ file' = f /\ f # Nothing
        /\ file = Nothing \/ file = c.base
        /\ \A x \in Docs : working'[x] = IF x = c.doc THEN f ELSE working[x]
    BY <1>1, <1>2, ShowPlaced
  <1>4. timer'.doc = c.doc /\ timer'.file = f /\ timer' # Nothing
    BY <1>1, <1>2, NothingIsNoRecord DEF Call
  <1>5. isOpen <=> c.mounted
    BY <1>1 DEF Orphan, Calm, Mounting
  <1>6. ~isOpen => undo = <<>> /\ redo = <<>> /\ undo' = <<>> /\ redo' = <<>>
    BY <1>1, <1>5 DEF Record, editor, Calm, Mounting
  <1>7. isOpen => file = c.base
    BY <1>3 DEF Calm, Mounting
  <1>8. Waiting' = Waiting
    BY <1>1 DEF Waiting
  <1>9. \A n \in f.edits : n <= made
    BY <1>2 DEF File, Numbers, Inv, Elsewhere
  <1> HIDE DEF f
  <1>10. Mounting'
    <2>1. active # Nothing /\ opening = Nothing
      BY <1>2, <1>3 DEF Calm, Mounting
    <2>2. ~isOpen' \/ active' = Nothing => undo' = <<>> /\ redo' = <<>>
      BY <1>1, <1>6, <2>1
    <2>3. Arranging' \subseteq Arranging /\ Merging' \subseteq Merging
      BY <1>1 DEF Arranging, Merging
    <2> QED BY <1>1, <1>3, <2>1, <2>2, <2>3 DEF Calm, Mounting
  <1>11. Owned'
    <2>1. opening' = Nothing /\ file' = working'[active']
      BY <1>1, <1>2, <1>3 DEF Calm, Mounting
    <2>2. \A d \in Docs : working'[d].of = d /\ \A v \in versions'[d] : v.of = d
      BY <1>1, <1>2, <1>3 DEF Calm, Owned
    <2>3. timer'.file.of = timer'.doc
      BY <1>2, <1>4
    <2> QED BY <1>1, <2>1, <2>2, <2>3 DEF Calm, Owned
  <1>12. Numbered'
    BY <1>1, <1>2, <1>3, <1>4, <1>9 DEF Calm, Numbered, Old, Inv, Elsewhere
  <1>13. Entries'
    BY <1>1, <1>2, <1>3, RecordEntries DEF Calm, f
  <1>14. Gone \/ Linked'
    <2> SUFFICES ASSUME ~Gone PROVE Linked'
      OBVIOUS
    <2>0. Linked
      BY DEF Calm, Chains
    <2>1. ASSUME Waiting = {} PROVE Chained(file)'
      <3>1. CASE ~isOpen
        BY <1>6, <3>1, EmptyLeads DEF Chained
      <3>2. CASE isOpen
        <4>1. Forward(undo, c.base)
          BY <1>7, <2>0, <2>1, <3>2 DEF Linked, Chained
        <4>2. Forward(undo', f) /\ redo' = <<>>
          BY <1>1, <1>2, <1>5, <3>2, <4>1, RecordChains
        <4> QED BY <1>3, <4>2, EmptyLeads DEF Chained
      <3> QED BY <3>1, <3>2
    <2>2. ASSUME NEW x \in Waiting PROVE Overtaken(x)'
      <3>1. isOpen /\ file = c.base /\ x \in calls /\ x \in Call
        BY <1>7, <2>2 DEF Waiting, Calm, Mounting, Inv, Elsewhere
      <3>2. CASE Overtaken(x)
        BY <1>2, <1>3, <3>1, <3>2 DEF Overtaken
      <3>3. CASE file = Result(x)
        <4>1. x.n \in c.base.edits
          BY <3>1, <3>3, ResultIs
        <4>2. c.n > x.n /\ c.n \in f.edits
          BY <1>2, <3>1, <4>1 DEF Call, Numbers
        <4> QED BY <1>3, <4>2 DEF Overtaken
      <3> QED BY <2>0, <2>2, <3>2, <3>3 DEF Linked
    <2> QED BY <1>8, <2>0, <2>1, <2>2 DEF Linked
  <1>16. Gone => Gone'
    <2>1. ASSUME NEW m \in Waiting, Overtaken(m) PROVE Overtaken(m)'
      <3>1. file = c.base
        BY <1>7 DEF Waiting, Calm, Mounting
      <3> QED BY <1>2, <1>3, <2>1, <3>1 DEF Overtaken
    <2> QED BY <1>8, <2>1 DEF Gone
  <1>17. Chains'
    BY <1>14, <1>16 DEF Chains
  <1>15. Kept'
    <2>1. ASSUME NEW d \in Docs, d # c.doc, NEW g \in Safe(d) PROVE g \in Safe(d)'
      BY <1>1, <2>1, SafeIs, SafeWillBe
    <2>2. ASSUME NEW d \in Docs PROVE Within(working'[d], Safe(d)')
      <3>1. CASE d = c.doc
        <4>1. f \in Safe(d)'
          BY <1>4, <3>1, SafeWillBe
        <4> QED BY <1>2, <1>3, <3>1, <4>1, WithinItself DEF Inv, Elsewhere
      <3>2. CASE d # c.doc
        <4>1. working'[d] = working[d]
          BY <1>3, <3>2 DEF Inv, Elsewhere
        <4> QED BY <2>1, <3>2, <4>1, WithinGrows DEF Calm, Kept
      <3> QED BY <3>1, <3>2
    <2>3. Len(redo') = 0
      BY <1>1, <1>5, <1>6, EmptySeq DEF Record, PushEdit
    <2>4. \A x \in calls' : x.phase \in {"saved", "thumbs"} => Result(x) \in versions[x.doc]
      BY <1>1 DEF Calm, Kept
    <2> QED BY <1>1, <2>2, <2>3, <2>4 DEF Calm, Kept, Result
  <1> QED BY <1>10, <1>11, <1>12, <1>13, <1>15, <1>17 DEF Calm

\* A page operation shows its answer and waits for its save
LEMMA ArrangedCalm ==
  ASSUME Inv, Calm, ~disturbed', NEW c \in calls, Arranged(c) PROVE Calm'
  <1> DEFINE f == Result(c)
             q == [c EXCEPT !.phase = "saving"]
  <1>1. /\ c.kind # "annotate" /\ c.phase = "asked" /\ calls' = (calls \ {c}) \cup {q}
        /\ Show(c.doc, f)
        /\ ~Misplaced(c.doc, c.base) /\ ~Orphan(c)
        /\ timer = Nothing \/ timer.doc = c.doc
        /\ timer' = Nothing
        /\ UNCHANGED <<active, isOpen, opening, undo, redo, snaps, versions, made>>
    BY DEF Arranged, editor
  <1>2. /\ c \in Call /\ c.doc \in Docs /\ c.base \in File /\ c.n \in Nat
        /\ f \in File /\ f.of = c.base.of /\ f.edits = c.base.edits \cup {c.n}
        /\ c.base.of = c.doc
        /\ c.n <= made /\ (\A n \in c.base.edits : n < c.n)
    BY ResultIs DEF Inv, Elsewhere, Call, Numbers, Calm, Owned, Numbered
  <1>3. /\ active = c.doc /\ file' = f /\ f # Nothing
        /\ file = Nothing \/ file = c.base
        /\ \A x \in Docs : working'[x] = IF x = c.doc THEN f ELSE working[x]
    BY <1>1, <1>2, ShowPlaced
  <1>4. /\ q.n = c.n /\ q.doc = c.doc /\ q.base = c.base /\ q.kind = c.kind
        /\ q.mounted = c.mounted /\ q.phase = "saving" /\ Result(q) = f
    BY <1>2 DEF Call, Result
  <1>5. isOpen => c.mounted /\ file = c.base
    BY <1>1, <1>3 DEF Orphan, Calm, Mounting
  <1>6. \A n \in f.edits : n <= made
    BY <1>2 DEF File, Numbers, Inv, Elsewhere
  <1> HIDE DEF f, q
  <1>7. /\ \A x \in Waiting : x.phase = "thumbs" /\ x # c
        /\ Waiting' = IF c.mounted THEN Waiting \cup {q} ELSE Waiting
    <2>1. \A x \in Waiting : x.phase = "thumbs" /\ x # c
      <3>1. \A x \in Arranging : x = c
        BY <1>1 DEF Calm, Mounting, Arranging
      <3> QED BY <1>1, <3>1 DEF Waiting, Arranging, Calm, Mounting
    <2> QED BY <1>1, <1>4, <2>1 DEF Waiting
  <1>8. Mounting'
    <2>1. active # Nothing /\ opening = Nothing
      BY <1>2, <1>3 DEF Calm, Mounting
    <2>2. \A a, b \in Arranging' : a = b
      <3>1. \A x \in Arranging : x = c
        BY <1>1 DEF Calm, Mounting, Arranging
      <3> QED BY <1>1, <3>1 DEF Arranging
    <2>3. \A a, b \in Merging' : a = b
      <3>1. \A x \in Merging : c \in Merging => x = c
        BY DEF Calm, Mounting
      <3> QED BY <1>1, <1>4, <3>1 DEF Merging, Calm, Mounting
    <2>4. \A x \in calls' : /\ x.mounted => isOpen
                            /\ x.kind = "annotate" => x.phase = "asked"
                            /\ x.phase = "thumbs" => x.kind = "merge"
      BY <1>1, <1>4 DEF Calm, Mounting
    <2> QED BY <1>1, <1>3, <2>1, <2>2, <2>3, <2>4 DEF Calm, Mounting
  <1>9. Owned'
    <2>1. opening' = Nothing /\ file' = working'[active']
      BY <1>1, <1>2, <1>3 DEF Calm, Mounting
    <2>2. \A d \in Docs : working'[d].of = d /\ \A v \in versions'[d] : v.of = d
      BY <1>1, <1>2, <1>3 DEF Calm, Owned
    <2>3. \A x \in calls' : x.base.of = x.doc
      BY <1>1, <1>2, <1>4 DEF Calm, Owned
    <2> QED BY <1>1, <2>1, <2>2, <2>3 DEF Calm, Owned
  <1>10. Numbered'
    <2>1. \A x \in calls' : x.n <= made /\ \A n \in x.base.edits : n < x.n
      BY <1>1, <1>2, <1>4 DEF Calm, Numbered
    <2> QED BY <1>1, <1>3, <1>6, <2>1 DEF Calm, Numbered, Old
  <1>11. Entries'
    BY <1>1, EntriesStay DEF Calm
  <1>12. Chains'
    <2>1. CASE Waiting # {}
      <3>1. isOpen /\ file = c.base
        BY <1>5, <2>1 DEF Waiting, Calm, Mounting
      <3>2. PICK m \in Waiting : Overtaken(m) \/ file = Result(m)
        BY <2>1 DEF Calm, Chains, Gone, Linked
      <3>3. m \in Call /\ m.phase = "thumbs" /\ m \in Waiting'
        BY <1>7 DEF Waiting, Inv, Elsewhere
      <3>4. CASE Overtaken(m)
        <4>1. Overtaken(m)'
          BY <1>2, <1>3, <3>1, <3>4 DEF Overtaken
        <4> QED BY <3>3, <4>1 DEF Chains, Gone
      <3>5. CASE file = Result(m)
        <4>1. m.n \in c.base.edits
          BY <3>1, <3>3, <3>5, ResultIs
        <4>2. c.n > m.n /\ c.n \in f.edits
          BY <1>2, <3>3, <4>1 DEF Call, Numbers
        <4>3. Overtaken(m)'
          BY <1>3, <4>2 DEF Overtaken
        <4> QED BY <3>3, <4>3 DEF Chains, Gone
      <3> QED BY <3>2, <3>4, <3>5
    <2>2. CASE Waiting = {} /\ c.mounted
      <3>1. isOpen /\ Waiting' = {q}
        BY <1>7, <2>2 DEF Calm, Mounting
      <3>2. file' = f /\ Chained(c.base)
        BY <1>3, <1>5, <2>2, <3>1 DEF Calm, Chains, Gone, Linked
      <3>3. file' = Result(q) /\ Chained(q.base)'
        BY <1>1, <1>4, <3>2 DEF Chained
      <3> QED BY <3>1, <3>3 DEF Chains, Linked, Result
    <2>3. CASE Waiting = {} /\ ~c.mounted
      <3>1. undo' = <<>> /\ redo' = <<>> /\ Waiting' = {}
        BY <1>1, <1>5, <1>7, <2>3 DEF Calm, Mounting
      <3> QED BY <3>1, EmptyLeads DEF Chains, Linked, Chained
    <2> QED BY <2>1, <2>2, <2>3
  <1>13. Kept'
    <2>1. ASSUME NEW d \in Docs, d # c.doc, NEW g \in Safe(d) PROVE g \in Safe(d)'
      <3>1. \A x \in calls : x.doc = d /\ x.phase # "asked" => x \in calls'
        BY <1>1
      <3> QED BY <1>1, <2>1, <3>1, SafeIs, SafeWillBe
    <2>2. ASSUME NEW d \in Docs PROVE Within(working'[d], Safe(d)')
      <3>1. CASE d = c.doc
        <4>1. f \in Safe(d)'
          BY <1>1, <1>4, <3>1, SafeWillBe
        <4> QED BY <1>3, <3>1, <4>1, WithinItself
      <3>2. CASE d # c.doc
        BY <1>3, <2>1, <3>2, WithinGrows DEF Calm, Kept
      <3> QED BY <3>1, <3>2
    <2>3. \A x \in calls' : x.phase \in {"saved", "thumbs"} => Result(x) \in versions[x.doc]
      BY <1>1, <1>4 DEF Calm, Kept
    <2>4. Waiting' = {} => Len(redo') = 0
      BY <1>1, <1>5, <1>7, EmptySeq DEF Calm, Mounting
    <2> QED BY <1>1, <2>2, <2>3, <2>4 DEF Calm, Kept, Result
  <1> QED BY <1>8, <1>9, <1>10, <1>11, <1>12, <1>13 DEF Calm

\* The server has the file of the operation
LEMMA ArrangedStoredCalm == ASSUME Inv, Calm, NEW c \in calls, ArrangedStored(c) PROVE Calm'
  <1> DEFINE q == [c EXCEPT !.phase = "saved"]
  <1>1. /\ c.phase = "saving" /\ calls' = (calls \ {c}) \cup {q}
        /\ versions' = [versions EXCEPT ![c.doc] = @ \cup {Result(c)}]
        /\ UNCHANGED <<active, isOpen, opening, file, working, undo, redo, timer, snaps, made>>
    BY DEF ArrangedStored, editor
  <1>2. c \in Call /\ c.doc \in Docs /\ Result(c).of = c.doc
    BY ResultIs DEF Inv, Elsewhere, Call, Calm, Owned
  <1>3. /\ q.n = c.n /\ q.doc = c.doc /\ q.base = c.base /\ q.kind = c.kind
        /\ q.mounted = c.mounted /\ q.phase = "saved" /\ Result(q) = Result(c)
    BY <1>2 DEF Call, Result
  <1>4. \A d \in Docs : versions'[d] = IF d = c.doc THEN versions[d] \cup {Result(c)}
                                       ELSE versions[d]
    BY <1>1 DEF Inv, Elsewhere
  <1> HIDE DEF q
  <1>5. /\ Waiting' = IF c.mounted THEN (Waiting \ {c}) \cup {q} ELSE Waiting
        /\ c \in Waiting <=> c.mounted
    BY <1>1, <1>3 DEF Waiting
  <1>6. Mounting'
    <2>1. \A a, b \in Arranging' : a = b
      <3>1. \A x \in Arranging : c \in Arranging => x = c
        BY DEF Calm, Mounting
      <3> QED BY <1>1, <1>3, <3>1 DEF Arranging, Calm, Mounting
    <2>2. \A a, b \in Merging' : a = b
      <3>1. \A x \in Merging : c \in Merging => x = c
        BY DEF Calm, Mounting
      <3> QED BY <1>1, <1>3, <3>1 DEF Merging, Calm, Mounting
    <2>3. \A x \in calls' : /\ x.mounted => isOpen
                            /\ x.kind = "annotate" => x.phase = "asked"
                            /\ x.phase = "thumbs" => x.kind = "merge"
      BY <1>1, <1>3 DEF Calm, Mounting
    <2> QED BY <1>1, <2>1, <2>2, <2>3 DEF Calm, Mounting
  <1>7. Owned'
    BY <1>1, <1>2, <1>3, <1>4 DEF Calm, Owned
  <1>8. Numbered' /\ Entries'
    BY <1>1, <1>3, EntriesStay DEF Calm, Numbered, Old
  <1>9. Chains'
    <2>1. CASE Gone
      <3>1. \A m \in Waiting : m.phase = "thumbs" => m \in Waiting'
        BY <1>1, <1>5
      <3> QED BY <1>1, <2>1, <3>1 DEF Chains, Gone, Overtaken
    <2>2. CASE Linked
      <3>1. Waiting' = {} => Chained(file)'
        BY <1>1, <1>5, <2>2 DEF Linked, Chained
      <3>2. \A a, b \in Waiting' : a = b
        BY <1>5, <2>2 DEF Linked
      <3>3. \A x \in Waiting : Overtaken(x)' \/ (file' = Result(x) /\ Chained(x.base)')
        BY <1>1, <2>2 DEF Linked, Chained, Overtaken
      <3>4. c.mounted => Overtaken(q)' \/ (file' = Result(q) /\ Chained(q.base)')
        BY <1>3, <1>5, <3>3 DEF Overtaken
      <3> QED BY <1>5, <3>1, <3>2, <3>3, <3>4 DEF Chains, Linked, Result
    <2> QED BY <2>1, <2>2 DEF Calm, Chains
  <1>10. Kept'
    <2>1. ASSUME NEW d \in Docs, NEW g \in Safe(d) PROVE g \in Safe(d)'
      <3>1. \A x \in calls : x.doc = d /\ x.phase # "asked" /\ g = Result(x) =>
                \E y \in calls' : y.doc = d /\ y.phase # "asked" /\ g = Result(y)
        BY <1>1, <1>3
      <3> QED BY <1>1, <1>4, <2>1, <3>1, SafeIs, SafeWillBe
    <2>2. \A d \in Docs : Within(working'[d], Safe(d)')
      BY <1>1, <2>1, WithinGrows DEF Calm, Kept
    <2>3. \A x \in calls' : x.phase \in {"saved", "thumbs"} => Result(x) \in versions'[x.doc]
      BY <1>1, <1>2, <1>3, <1>4 DEF Calm, Kept, Inv, Elsewhere, Call
    <2>4. \A s \in snaps : s.stored => s.file \in versions'[s.doc]
      BY <1>4 DEF Calm, Kept, Inv, Elsewhere, Snap
    <2>5. Waiting' = {} => \A d \in Docs : d = active' =>
              \A i \in 1..Len(redo') : Within(redo'[i].after, Safe(d)')
      <3>1. Waiting' = {} => Waiting = {}
        BY <1>5
      <3>2. \A d \in Docs : \A g : Within(g, Safe(d)) => Within(g, Safe(d)')
        BY <2>1, WithinGrows
      <3> QED BY <1>1, <3>1, <3>2 DEF Calm, Kept
    <2> QED BY <1>1, <2>2, <2>3, <2>4, <2>5 DEF Kept, Result
  <1> QED BY <1>6, <1>7, <1>8, <1>9, <1>10 DEF Calm

\* The operation ends where its answer is still on the screen: its entry
\* closes the gap in the chain, unless a merge before it left one for good
LEMMA RecordedCalm ==
  ASSUME Inv, Calm, NEW c \in calls, c.phase \in {"saved", "thumbs"},
         calls' = calls \ {c}, Record(c, Result(c)),
         ~Misplaced(c.doc, Result(c)), ~Orphan(c),
         \/ working' = [working EXCEPT ![c.doc] = Result(c)] /\ UNCHANGED file
         \/ Show(c.doc, Result(c)),
         UNCHANGED <<active, isOpen, opening, timer, snaps, versions, made>>
  PROVE  Calm'
  <1> DEFINE f == Result(c)
  <1>1. /\ c.phase \in {"saved", "thumbs"} /\ calls' = calls \ {c} /\ Record(c, f)
        /\ ~Misplaced(c.doc, f) /\ ~Orphan(c)
        /\ UNCHANGED <<active, isOpen, opening, timer, snaps, versions, made>>
    OBVIOUS
  <1>2. /\ c \in Call /\ c.doc \in Docs /\ c.base \in File /\ c.n \in Nat /\ c.kind # "annotate"
        /\ f \in File /\ f.of = c.base.of /\ f.edits = c.base.edits \cup {c.n} /\ f # Nothing
        /\ c.base.of = c.doc /\ f \in versions[c.doc]
        /\ c.n <= made /\ (\A n \in c.base.edits : n < c.n)
    BY <1>1, ResultIs DEF Inv, Elsewhere, Call, Numbers, Calm, Owned, Numbered, Mounting, Kept
  <1>3. /\ active = c.doc /\ (file = Nothing \/ file = f) /\ file' \in {file, f}
        /\ (file' = f \/ file' = Nothing)
        /\ \A x \in Docs : working'[x] = IF x = c.doc THEN f ELSE working[x]
    <2>1. active = c.doc /\ (file = Nothing \/ file = f)
      BY <1>1 DEF Misplaced
    <2>2. CASE working' = [working EXCEPT ![c.doc] = f] /\ UNCHANGED file
      BY <2>1, <2>2 DEF Inv, Elsewhere
    <2>3. CASE Show(c.doc, f)
      BY <1>1, <1>2, <2>3, ShowPlaced
    <2> QED BY <2>2, <2>3
  <1>4. isOpen <=> c.mounted
    BY <1>1 DEF Orphan, Calm, Mounting
  <1>5. ~isOpen => undo = <<>> /\ redo = <<>> /\ undo' = <<>> /\ redo' = <<>>
    BY <1>1, <1>4 DEF Record, editor, Calm, Mounting
  <1>6. \A n \in f.edits : n <= made /\ n <= c.n
    BY <1>2 DEF File, Numbers, Inv, Elsewhere
  <1>7. Waiting' = Waiting \ {c} /\ (c \in Waiting <=> c.mounted)
    BY <1>1 DEF Waiting
  <1>8. active # Nothing /\ opening = Nothing
    BY <1>2, <1>3 DEF Calm, Mounting
  <1>9. isOpen => file = f
    BY <1>3 DEF Calm, Mounting
  <1> HIDE DEF f
  <1>10. Mounting'
    <2>1. ~isOpen' \/ active' = Nothing => undo' = <<>> /\ redo' = <<>>
      BY <1>1, <1>5, <1>8
    <2>2. isOpen' => file' # Nothing
      BY <1>1, <1>2, <1>3, <1>9
    <2>3. Arranging' \subseteq Arranging /\ Merging' \subseteq Merging
      BY <1>1 DEF Arranging, Merging
    <2> QED BY <1>1, <1>8, <2>1, <2>2, <2>3 DEF Calm, Mounting
  <1>11. Owned'
    <2>1. opening' = Nothing /\ (file' # Nothing => file' = working'[active'])
      BY <1>1, <1>2, <1>3, <1>8
    <2>2. \A d \in Docs : working'[d].of = d /\ \A v \in versions'[d] : v.of = d
      BY <1>1, <1>2, <1>3 DEF Calm, Owned
    <2> QED BY <1>1, <2>1, <2>2 DEF Calm, Owned
  <1>12. Numbered'
    BY <1>1, <1>3, <1>6 DEF Calm, Numbered, Old
  <1>13. Entries'
    BY <1>1, <1>2, <1>3, RecordEntries DEF Calm, f
  <1>14. Chains'
    <2>1. CASE ~isOpen
      <3>1. Waiting' = {}
        BY <1>7, <2>1 DEF Waiting, Calm, Mounting
      <3> QED BY <1>5, <2>1, <3>1, EmptyLeads DEF Chains, Linked, Chained
    <2>2. CASE isOpen
      <3>1. c \in Waiting /\ file' = f /\ file = f
        BY <1>3, <1>4, <1>7, <1>9, <2>2
      <3>2. ~Overtaken(c)
        BY <1>2, <1>6, <3>1 DEF Overtaken, File, Numbers
      <3>3. CASE Gone
        <4>1. PICK m \in Waiting : m.phase = "thumbs" /\ Overtaken(m)
          BY <3>3 DEF Gone
        <4>2. m \in Waiting' /\ Overtaken(m)'
          BY <1>7, <3>1, <3>2, <4>1 DEF Overtaken
        <4> QED BY <4>1, <4>2 DEF Chains, Gone
      <3>4. CASE Linked
        <4>1. Forward(undo, c.base) /\ Waiting' = {}
          BY <1>7, <3>1, <3>2, <3>4 DEF Linked, Chained
        <4>2. Forward(undo', f) /\ redo' = <<>>
          BY <1>1, <1>2, <1>4, <2>2, <4>1, RecordChains
        <4> QED BY <3>1, <4>1, <4>2, EmptyLeads DEF Chains, Linked, Chained
      <3> QED BY <3>3, <3>4 DEF Calm, Chains
    <2> QED BY <2>1, <2>2
  <1>15. Kept'
    <2>1. ASSUME NEW d \in Docs, NEW g \in Safe(d) PROVE g \in Safe(d)'
      <3>1. \A x \in calls : x.doc = d /\ g = Result(x) => x \in calls' \/ g \in versions'[d]
        BY <1>1, <1>2 DEF f
      <3> QED BY <1>1, <2>1, <3>1, SafeIs, SafeWillBe
    <2>2. ASSUME NEW d \in Docs PROVE Within(working'[d], Safe(d)')
      <3>1. CASE d = c.doc
        <4>1. f \in Safe(d)'
          BY <1>1, <1>2, <3>1, SafeWillBe
        <4> QED BY <1>3, <3>1, <4>1, WithinItself
      <3>2. CASE d # c.doc
        BY <1>3, <2>1, <3>2, WithinGrows DEF Calm, Kept
      <3> QED BY <3>1, <3>2
    <2>3. Len(redo') = 0
      BY <1>1, <1>4, <1>5, EmptySeq DEF Record, PushEdit
    <2>4. \A x \in calls' : x.phase \in {"saved", "thumbs"} => Result(x) \in versions[x.doc]
      BY <1>1 DEF Calm, Kept
    <2> QED BY <1>1, <2>2, <2>3, <2>4 DEF Calm, Kept, Result
  <1> QED BY <1>10, <1>11, <1>12, <1>13, <1>14, <1>15 DEF Calm

\* The version of a merge is there: the merge still has to read its thumbnails
LEMMA MergeSavedCalm ==
  ASSUME Inv, Calm, ~disturbed', NEW c \in calls, ArrangedSaved(c), c.kind = "merge"
  PROVE  Calm'
  <1> DEFINE f == Result(c)
             q == [c EXCEPT !.phase = "thumbs"]
  <1>1. /\ c.phase = "saved" /\ calls' = (calls \ {c}) \cup {q} /\ Show(c.doc, f)
        /\ ~Misplaced(c.doc, f) /\ ~Orphan(c)
        /\ UNCHANGED <<active, isOpen, opening, undo, redo, timer, snaps, versions, made>>
    BY DEF ArrangedSaved, editor
  <1>2. /\ c \in Call /\ c.doc \in Docs /\ c.base \in File /\ c.n \in Nat
        /\ f \in File /\ f.of = c.base.of /\ f.edits = c.base.edits \cup {c.n}
        /\ c.base.of = c.doc /\ f \in versions[c.doc]
        /\ c.n <= made /\ (\A n \in c.base.edits : n < c.n)
    BY <1>1, ResultIs DEF Inv, Elsewhere, Call, Numbers, Calm, Owned, Numbered, Kept
  <1>3. /\ active = c.doc /\ file' = f /\ f # Nothing
        /\ file = Nothing \/ file = f
        /\ \A x \in Docs : working'[x] = IF x = c.doc THEN f ELSE working[x]
    BY <1>1, <1>2, ShowPlaced
  <1>4. /\ q.n = c.n /\ q.doc = c.doc /\ q.base = c.base /\ q.kind = "merge"
        /\ q.mounted = c.mounted /\ q.phase = "thumbs" /\ Result(q) = f
    BY <1>2 DEF Call, Result
  <1>5. isOpen => c.mounted /\ file = f
    BY <1>1, <1>3 DEF Orphan, Calm, Mounting
  <1>6. \A n \in f.edits : n <= made /\ n <= c.n
    BY <1>2 DEF File, Numbers, Inv, Elsewhere
  <1> HIDE DEF f, q
  <1>7. /\ Waiting' = IF c.mounted THEN (Waiting \ {c}) \cup {q} ELSE Waiting
        /\ c \in Waiting <=> c.mounted
    BY <1>1, <1>4 DEF Waiting
  <1>8. active # Nothing /\ opening = Nothing
    BY <1>2, <1>3 DEF Calm, Mounting
  <1>9. Mounting'
    <2>1. \A a, b \in Arranging' : a = b
      <3>1. Arranging' \subseteq Arranging
        BY <1>1, <1>4 DEF Arranging
      <3> QED BY <3>1 DEF Calm, Mounting
    <2>2. \A a, b \in Merging' : a = b
      <3>1. \A x \in Merging : c \in Merging => x = c
        BY DEF Calm, Mounting
      <3> QED BY <1>1, <1>4, <3>1 DEF Merging, Calm, Mounting
    <2>3. \A x \in calls' : /\ x.mounted => isOpen
                            /\ x.kind = "annotate" => x.phase = "asked"
                            /\ x.phase = "thumbs" => x.kind = "merge"
      BY <1>1, <1>4 DEF Calm, Mounting
    <2> QED BY <1>1, <1>3, <1>8, <2>1, <2>2, <2>3 DEF Calm, Mounting
  <1>10. Owned'
    <2>1. opening' = Nothing /\ file' = working'[active']
      BY <1>1, <1>2, <1>3, <1>8
    <2>2. \A d \in Docs : working'[d].of = d /\ \A v \in versions'[d] : v.of = d
      BY <1>1, <1>2, <1>3 DEF Calm, Owned
    <2>3. \A x \in calls' : x.base.of = x.doc
      BY <1>1, <1>2, <1>4 DEF Calm, Owned
    <2> QED BY <1>1, <2>1, <2>2, <2>3 DEF Calm, Owned
  <1>11. Numbered'
    <2>1. \A x \in calls' : x.n <= made /\ \A n \in x.base.edits : n < x.n
      BY <1>1, <1>2, <1>4 DEF Calm, Numbered
    <2> QED BY <1>1, <1>3, <1>6, <2>1 DEF Calm, Numbered, Old
  <1>12. Entries'
    BY <1>1, EntriesStay DEF Calm
  <1>13. Chains'
    <2>1. CASE ~isOpen
      <3>1. undo' = <<>> /\ redo' = <<>> /\ Waiting' = {}
        BY <1>1, <1>7, <2>1 DEF Waiting, Calm, Mounting
      <3> QED BY <3>1, EmptyLeads DEF Chains, Linked, Chained
    <2>2. CASE isOpen
      <3>1. c \in Waiting /\ file' = f /\ file = f
        BY <1>3, <1>5, <1>7, <2>2
      <3>2. ~Overtaken(c)
        BY <1>2, <1>6, <3>1 DEF Overtaken, File, Numbers
      <3>3. CASE Gone
        <4>1. PICK m \in Waiting : m.phase = "thumbs" /\ Overtaken(m)
          BY <3>3 DEF Gone
        <4>2. m \in Waiting' /\ Overtaken(m)'
          BY <1>1, <1>7, <3>1, <4>1 DEF Overtaken
        <4> QED BY <4>1, <4>2 DEF Chains, Gone
      <3>4. CASE Linked
        <4>1. Chained(c.base) /\ Waiting' = {q}
          BY <1>5, <1>7, <2>2, <3>1, <3>2, <3>4 DEF Linked
        <4>2. file' = Result(q) /\ Chained(q.base)'
          BY <1>1, <1>4, <3>1, <4>1 DEF Chained
        <4> QED BY <4>1, <4>2 DEF Chains, Linked, Result
      <3> QED BY <3>3, <3>4 DEF Calm, Chains
    <2> QED BY <2>1, <2>2
  <1>14. Kept'
    <2>1. ASSUME NEW d \in Docs, NEW g \in Safe(d) PROVE g \in Safe(d)'
      <3>1. \A x \in calls : x.doc = d /\ x.phase # "asked" /\ g = Result(x) =>
                x \in calls' \/ g \in versions'[d]
        BY <1>1, <1>2 DEF f
      <3> QED BY <1>1, <2>1, <3>1, SafeIs, SafeWillBe
    <2>2. ASSUME NEW d \in Docs PROVE Within(working'[d], Safe(d)')
      <3>1. CASE d = c.doc
        <4>1. f \in Safe(d)'
          BY <1>1, <1>2, <3>1, SafeWillBe
        <4> QED BY <1>3, <3>1, <4>1, WithinItself
      <3>2. CASE d # c.doc
        BY <1>3, <2>1, <3>2, WithinGrows DEF Calm, Kept
      <3> QED BY <3>1, <3>2
    <2>3. Waiting' = {} => Len(redo') = 0
      BY <1>1, <1>5, <1>7, EmptySeq DEF Calm, Mounting
    <2>4. \A x \in calls' : x.phase \in {"saved", "thumbs"} => Result(x) \in versions[x.doc]
      BY <1>1, <1>2, <1>4 DEF Calm, Kept
    <2> QED BY <1>1, <2>2, <2>3, <2>4 DEF Calm, Kept, Result
  <1> QED BY <1>9, <1>10, <1>11, <1>12, <1>13, <1>14 DEF Calm

\* A reorder is recorded when its version is there, a merge is not
LEMMA ArrangedSavedCalm ==
  ASSUME Inv, Calm, ~disturbed', NEW c \in calls, ArrangedSaved(c) PROVE Calm'
  <1>1. CASE c.kind = "merge"
    BY <1>1, MergeSavedCalm
  <1>2. CASE c.kind # "merge"
    <2>1. /\ c.phase \in {"saved", "thumbs"} /\ calls' = calls \ {c} /\ Record(c, Result(c))
          /\ working' = [working EXCEPT ![c.doc] = Result(c)] /\ UNCHANGED file
          /\ ~Misplaced(c.doc, Result(c)) /\ ~Orphan(c)
          /\ UNCHANGED <<active, isOpen, opening, timer, snaps, versions, made>>
      BY <1>2 DEF ArrangedSaved
    <2> QED BY <2>1, RecordedCalm
  <1> QED BY <1>1, <1>2

\* The thumbnails are there: the merge is recorded
LEMMA MergeShownCalm ==
  ASSUME Inv, Calm, ~disturbed', NEW c \in calls, MergeShown(c) PROVE Calm'
  <1>1. /\ c.phase \in {"saved", "thumbs"} /\ calls' = calls \ {c} /\ Record(c, Result(c))
        /\ Show(IF c.mounted THEN active ELSE c.doc, Result(c))
        /\ ~Misplaced(c.doc, Result(c)) /\ ~Orphan(c)
        /\ UNCHANGED <<active, isOpen, opening, timer, snaps, versions, made>>
    BY DEF MergeShown
  <1>2. Show(c.doc, Result(c))
    BY <1>1 DEF Misplaced
  <1> QED BY <1>1, <1>2, RecordedCalm

\* They are not wanted any more: undisturbed only once the editor is closed
LEMMA MergeOvertakenCalm ==
  ASSUME Inv, Calm, ~disturbed', NEW c \in calls, MergeOvertaken(c) PROVE Calm'
  <1>1. /\ c.phase = "thumbs" /\ ~c.mounted /\ calls' = calls \ {c}
        /\ UNCHANGED <<active, isOpen, opening, file, working, undo, redo, timer, snaps,
                       versions, made>>
    BY DEF MergeOvertaken, editor
  <1>2. Waiting' = Waiting
    BY <1>1 DEF Waiting
  <1>3. Mounting' /\ Owned'
    BY <1>1 DEF Calm, Mounting, Arranging, Merging, Owned
  <1>4. Numbered' /\ Entries'
    BY <1>1, EntriesStay DEF Calm, Numbered, Old
  <1>5. Chains'
    BY <1>1, <1>2 DEF Calm, Chains, Gone, Linked, Chained, Overtaken, Result
  <1>6. Kept'
    <2>1. ASSUME NEW d \in Docs, NEW g \in Safe(d) PROVE g \in Safe(d)'
      <3>1. \A x \in calls : x.doc = d /\ g = Result(x) => x \in calls' \/ g \in versions'[d]
        BY <1>1 DEF Calm, Kept
      <3> QED BY <1>1, <2>1, <3>1, SafeIs, SafeWillBe
    <2>2. \A d \in Docs : \A f : Within(f, Safe(d)) => Within(f, Safe(d)')
      BY <2>1, WithinGrows
    <2> QED BY <1>1, <1>2, <2>2 DEF Calm, Kept, Result
  <1> QED BY <1>3, <1>4, <1>5, <1>6 DEF Calm

-----------------------------------------------------------------------------
(* Undo, redo and saves *)

\* While no page operation waits, the stacks lead through the file on the
\* screen, which is the working file of the active slot
LEMMA IdleChained ==
  ASSUME Inv, Calm, isOpen, Idle, ~MergePending, undo # <<>> \/ redo # <<>>
  PROVE  /\ Waiting = {} /\ Chained(file) /\ active \in Docs
         /\ file = working[active] /\ file \in File
  <1>1. Waiting = {}
    BY DEF Waiting, Idle, MergePending, Calm, Mounting
  <1>2. active \in Docs
    BY DEF Calm, Mounting, Inv, Elsewhere
  <1> QED BY <1>1, <1>2 DEF Calm, Mounting, Chains, Gone, Linked, Owned, Inv, Elsewhere

\* A step along the chain shows f: every entry that can be undone or redone is
\* still one of an edit, and the file of no other slot changes
LEMMA WalkCalm ==
  ASSUME Inv, Calm, isOpen, active \in Docs, Waiting = {},
         NEW f \in File, f.of = active, Old(f), Within(f, Safe(active)),
         file' = f, Remember(active, f),
         UNCHANGED <<active, isOpen, opening, calls, timer, snaps, versions, made>>,
         Entries', Chained(f)',
         \A i \in 1..Len(redo') : Within(redo'[i].after, Safe(active))
  PROVE  Calm'
  <1>1. \A x \in Docs : working'[x] = IF x = active THEN f ELSE working[x]
    BY DEF Remember
  <1>2. f # Nothing /\ active # Nothing
    BY NothingIsNoRecord
  <1>3. Mounting'
    BY <1>2 DEF Calm, Mounting, Arranging, Merging
  <1>4. Owned'
    BY <1>1, <1>2 DEF Calm, Owned, Mounting
  <1>5. Numbered'
    BY <1>1 DEF Calm, Numbered, Old
  <1>6. Waiting' = {}
    BY DEF Waiting
  <1>7. Chains'
    BY <1>6 DEF Chains, Linked, Chained
  <1>8. Kept'
    <2>1. \A x \in Docs : Safe(x)' = Safe(x)
      BY SafeStays
    <2>2. \A d \in Docs : Within(working'[d], Safe(d)')
      BY <1>1, <2>1 DEF Calm, Kept
    <2>3. \A i \in 1..Len(redo') : Within(redo'[i].after, Safe(active)')
      BY <2>1
    <2> QED BY <2>2, <2>3 DEF Calm, Kept, Result
  <1> QED BY <1>3, <1>4, <1>5, <1>7, <1>8 DEF Calm

\* Entries that are on a stack keep what is said of them
LEMMA GrowsStays ==
  ASSUME UNCHANGED <<active, made>>, NEW e
  PROVE  Grows(e)' <=> Grows(e)
  BY DEF Grows, Old

LEMMA UndoCalm == ASSUME Inv, Calm, ~disturbed', Undo PROVE Calm'
  <1>0. PICK e \in Entry : e = Last(undo)
    BY FrontFits DEF Undo, Inv, EditorOK
  <1>1. /\ isOpen /\ Idle /\ ~MergePending /\ undo # <<>> /\ undo' = Front(undo) /\ redo' = Append(redo, e)
        /\ file' = e.before /\ Remember(active, e.before)
        /\ UNCHANGED <<active, isOpen, opening, calls, timer, snaps, versions, made>>
    BY <1>0 DEF Undo
  <1>2. /\ Waiting = {} /\ Chained(file) /\ active \in Docs
        /\ file = working[active] /\ file \in File
    BY <1>1, IdleChained
  <1>3. /\ undo \in Seq(Entry) /\ redo \in Seq(Entry)
        /\ e.before \in File /\ e.after \in File
    BY DEF Inv, EditorOK, Entry
  <1>4. /\ Len(undo) \in Nat \ {0} /\ Len(Front(undo)) = Len(undo) - 1
        /\ \A i \in 1..(Len(undo) - 1) : Front(undo)[i] = undo[i]
    BY <1>1, <1>3, FrontKeeps
  <1>5. /\ Len(redo) \in Nat /\ Len(redo') = Len(redo) + 1 /\ redo'[Len(redo) + 1] = e
        /\ \A i \in 1..Len(redo) : redo'[i] = redo[i]
    BY <1>1, <1>3, AppendProperties, LenProperties
  <1>6. e.after = file /\ Forward(Front(undo), e.before)
    BY <1>0, <1>1, <1>2, <1>3, ForwardFront DEF Chained
  <1>7. Backward(redo', e.before)
    BY <1>1, <1>2, <1>3, <1>6, BackwardAppend DEF Chained
  <1>8. Grows(e)
    BY <1>0, <1>4 DEF Calm, Entries, Last
  <1>9. Entries'
    <2>1. \A i \in 1..Len(undo') : Grows(undo'[i])
      BY <1>1, <1>4 DEF Calm, Entries
    <2>2. \A i \in 1..Len(redo') : Grows(redo'[i])
      BY <1>5, <1>8 DEF Calm, Entries
    <2> QED BY <1>1, <2>1, <2>2, GrowsStays DEF Entries
  <1>10. Within(file, Safe(active))
    BY <1>2 DEF Calm, Kept
  <1>11. Within(e.before, Safe(active)) /\ Old(e.before) /\ e.before.of = active
    BY <1>6, <1>8, <1>10, WithinLarger DEF Grows, Old
  <1>12. \A i \in 1..Len(redo') : Within(redo'[i].after, Safe(active))
    BY <1>2, <1>5, <1>6, <1>10 DEF Calm, Kept
  <1>13. Chained(e.before)'
    BY <1>1, <1>6, <1>7 DEF Chained
  <1> QED BY <1>1, <1>2, <1>3, <1>9, <1>11, <1>12, <1>13, WalkCalm

LEMMA RedoCalm == ASSUME Inv, Calm, ~disturbed', Redo PROVE Calm'
  <1>0. PICK e \in Entry : e = Last(redo)
    BY FrontFits DEF Redo, Inv, EditorOK
  <1>1. /\ isOpen /\ Idle /\ ~MergePending /\ redo # <<>> /\ redo' = Front(redo) /\ undo' = Append(undo, e)
        /\ file' = e.after /\ Remember(active, e.after)
        /\ UNCHANGED <<active, isOpen, opening, calls, timer, snaps, versions, made>>
    BY <1>0 DEF Redo
  <1>2. /\ Waiting = {} /\ Chained(file) /\ active \in Docs
        /\ file = working[active] /\ file \in File
    BY <1>1, IdleChained
  <1>3. /\ undo \in Seq(Entry) /\ redo \in Seq(Entry)
        /\ e.before \in File /\ e.after \in File
    BY DEF Inv, EditorOK, Entry
  <1>4. /\ Len(redo) \in Nat \ {0} /\ Len(Front(redo)) = Len(redo) - 1
        /\ \A i \in 1..(Len(redo) - 1) : Front(redo)[i] = redo[i]
    BY <1>1, <1>3, FrontKeeps
  <1>5. /\ Len(undo) \in Nat /\ Len(undo') = Len(undo) + 1 /\ undo'[Len(undo) + 1] = e
        /\ \A i \in 1..Len(undo) : undo'[i] = undo[i]
    BY <1>1, <1>3, AppendProperties, LenProperties
  <1>6. e.before = file /\ Backward(Front(redo), e.after)
    BY <1>0, <1>1, <1>2, <1>3, BackwardFront DEF Chained
  <1>7. Forward(undo', e.after)
    BY <1>1, <1>2, <1>3, <1>6, ForwardAppend DEF Chained
  <1>8. Grows(e) /\ Within(e.after, Safe(active))
    <2>1. Len(redo) \in 1..Len(redo)
      BY <1>4
    <2> QED BY <1>0, <1>2, <2>1 DEF Calm, Entries, Kept, Last
  <1>9. Entries'
    <2>1. \A i \in 1..Len(redo') : Grows(redo'[i])
      BY <1>1, <1>4 DEF Calm, Entries
    <2>2. \A i \in 1..Len(undo') : Grows(undo'[i])
      BY <1>5, <1>8 DEF Calm, Entries
    <2> QED BY <1>1, <2>1, <2>2, GrowsStays DEF Entries
  <1>10. Old(e.after) /\ e.after.of = active
    BY <1>8 DEF Grows
  <1>11. \A i \in 1..Len(redo') : Within(redo'[i].after, Safe(active))
    BY <1>1, <1>2, <1>4 DEF Calm, Kept
  <1>12. Chained(e.after)'
    BY <1>1, <1>6, <1>7 DEF Chained
  <1> QED BY <1>1, <1>2, <1>3, <1>8, <1>9, <1>10, <1>11, <1>12, WalkCalm

\* The save button starts the stacks anew and sends the working file
LEMMA WorkSaveCalm == ASSUME Inv, Calm, WorkSave PROVE Calm'
  <1> DEFINE s == [n |-> made + 1, doc |-> active, file |-> file, stored |-> FALSE]
  <1>1. /\ isOpen /\ active \in Docs /\ file # Nothing
        /\ made' = made + 1 /\ snaps' = snaps \cup {s} /\ undo' = <<>> /\ redo' = <<>>
        /\ UNCHANGED <<active, isOpen, opening, file, working, calls, timer, versions>>
    BY DEF WorkSave, ForgetEdits, Inv, Elsewhere
  <1>2. s.doc = active /\ s.file = file /\ s.stored = FALSE
    OBVIOUS
  <1> HIDE DEF s
  <1>3. made \in Nat /\ made' \in {made, made + 1}
    BY <1>1 DEF Inv, Elsewhere
  <1>4. file = working[active] /\ file \in File /\ Old(file) /\ file.of = active
    BY <1>1 DEF Calm, Owned, Numbered, Inv, Elsewhere
  <1>5. Mounting'
    BY <1>1 DEF Calm, Mounting, Arranging, Merging
  <1>6. Owned'
    BY <1>1, <1>2, <1>4 DEF Calm, Owned
  <1>7. Numbered'
    <2>1. \A d \in Docs : Old(working[d])'
      BY <1>1, <1>3, OldStays DEF Calm, Numbered, Inv, Elsewhere
    <2>2. timer # Nothing => Old(timer.file)'
      BY <1>1, <1>3, OldStays DEF Calm, Numbered, Inv, Elsewhere
    <2>3. \A x \in snaps : Old(x.file)'
      BY <1>1, <1>3, OldStays DEF Calm, Numbered, Inv, Elsewhere, Snap
    <2>4. Old(file)'
      BY <1>1, <1>3, <1>4, OldStays
    <2>5. \A x \in calls : x.n <= made + 1 /\ \A n \in x.base.edits : n < x.n
      BY <1>3 DEF Calm, Numbered, Inv, Elsewhere, Call, Numbers
    <2> QED BY <1>1, <1>2, <2>1, <2>2, <2>3, <2>4, <2>5 DEF Numbered, Old
  <1>8. Entries'
    BY <1>1, EmptyEntries
  <1>9. Chains'
    <2>1. Chained(file)'
      BY <1>1, EmptyLeads DEF Chained
    <2>2. CASE Gone
      BY <1>1, <2>2 DEF Chains, Gone, Waiting, Overtaken
    <2>3. CASE Linked
      <3>1. \A c \in Waiting : Overtaken(c)' \/ (file' = Result(c) /\ Chained(c.base)')
        BY <1>1, <2>3, EmptyLeads DEF Linked, Chained, Overtaken
      <3> QED BY <1>1, <2>1, <2>3, <3>1 DEF Chains, Linked, Waiting, Result
    <2> QED BY <2>2, <2>3 DEF Calm, Chains
  <1>10. Kept'
    <2>1. ASSUME NEW d \in Docs, NEW g \in Safe(d) PROVE g \in Safe(d)'
      BY <1>1, SafeIs, SafeWillBe
    <2>2. \A d \in Docs : Within(working'[d], Safe(d)')
      BY <1>1, <2>1, WithinGrows DEF Calm, Kept
    <2>3. Len(redo') = 0
      BY <1>1, EmptySeq
    <2> QED BY <1>1, <1>2, <2>2, <2>3 DEF Calm, Kept, Result
  <1> QED BY <1>5, <1>6, <1>7, <1>8, <1>9, <1>10 DEF Calm

\* The server has the snapshot
LEMMA SnapServedCalm == ASSUME Inv, Calm, NEW s \in snaps, SnapServed(s) PROVE Calm'
  <1> DEFINE q == [s EXCEPT !.stored = TRUE]
  <1>1. /\ snaps' = (snaps \ {s}) \cup {q}
        /\ versions' = [versions EXCEPT ![s.doc] = @ \cup {s.file}]
        /\ UNCHANGED <<active, isOpen, opening, file, working, undo, redo, calls, timer, made>>
    BY DEF SnapServed, editor
  <1>2. s \in Snap /\ s.doc \in Docs /\ s.file.of = s.doc
    BY DEF Inv, Elsewhere, Snap, Calm, Owned
  <1>3. q.doc = s.doc /\ q.file = s.file
    BY <1>2 DEF Snap
  <1>4. \A d \in Docs : versions'[d] = IF d = s.doc THEN versions[d] \cup {s.file}
                                       ELSE versions[d]
    BY <1>1 DEF Inv, Elsewhere
  <1> HIDE DEF q
  <1>5. Mounting'
    BY <1>1 DEF Calm, Mounting, Arranging, Merging
  <1>6. Owned'
    BY <1>1, <1>2, <1>3, <1>4 DEF Calm, Owned
  <1>7. Numbered' /\ Entries'
    BY <1>1, <1>3, EntriesStay DEF Calm, Numbered, Old
  <1>8. Chains'
    BY <1>1 DEF Calm, Chains, Gone, Linked, Chained, Overtaken, Result, Waiting
  <1>9. Kept'
    <2>1. ASSUME NEW d \in Docs, NEW g \in Safe(d) PROVE g \in Safe(d)'
      <3>1. \A x \in snaps : x.doc = d /\ g = x.file => \E y \in snaps' : y.doc = d /\ g = y.file
        BY <1>1, <1>3
      <3> QED BY <1>1, <1>4, <2>1, <3>1, SafeIs, SafeWillBe
    <2>2. \A d \in Docs : \A f : Within(f, Safe(d)) => Within(f, Safe(d)')
      BY <2>1, WithinGrows
    <2>3. \A x \in snaps' : x.stored => x.file \in versions'[x.doc]
      BY <1>1, <1>2, <1>3, <1>4 DEF Calm, Kept, Inv, Elsewhere, Snap
    <2>4. \A c \in calls : c.phase \in {"saved", "thumbs"} => Result(c) \in versions'[c.doc]
      BY <1>4 DEF Calm, Kept, Inv, Elsewhere, Call
    <2>5. \A d \in Docs : Within(working'[d], Safe(d)')
      BY <1>1, <2>2 DEF Calm, Kept
    <2>6. Waiting' = {} => \A d \in Docs : d = active' =>
              \A i \in 1..Len(redo') : Within(redo'[i].after, Safe(d)')
      BY <1>1, <2>2 DEF Calm, Kept, Waiting
    <2> QED BY <1>1, <2>3, <2>4, <2>5, <2>6 DEF Kept, Result
  <1> QED BY <1>5, <1>6, <1>7, <1>8, <1>9 DEF Calm

\* The answer of a save that changes nothing on the screen
LEMMA SnapReturnsCalm ==
  ASSUME Inv, Calm, ~disturbed', NEW s \in snaps, SnapReturns(s) PROVE Calm'
  <1>1. /\ s.stored /\ snaps' = snaps \ {s} /\ Show(s.doc, s.file)
        /\ ~Misplaced(s.doc, s.file)
        /\ UNCHANGED <<active, isOpen, opening, undo, redo, calls, timer, versions, made>>
    BY DEF SnapReturns, editor
  <1>2. /\ s \in Snap /\ s.doc \in Docs /\ s.file \in File /\ s.file.of = s.doc
        /\ Old(s.file) /\ s.file \in versions[s.doc]
    BY <1>1 DEF Inv, Elsewhere, Snap, Calm, Owned, Numbered, Kept
  <1>3. /\ active = s.doc /\ file' = s.file /\ s.file # Nothing
        /\ file = Nothing \/ file = s.file
        /\ \A x \in Docs : working'[x] = IF x = s.doc THEN s.file ELSE working[x]
    BY <1>1, <1>2, ShowPlaced
  <1>4. isOpen => file' = file
    BY <1>3 DEF Calm, Mounting
  <1>5. opening = Nothing
    BY <1>2, <1>3 DEF Calm, Mounting
  <1>6. Mounting'
    BY <1>1, <1>3 DEF Calm, Mounting, Arranging, Merging
  <1>7. Owned'
    BY <1>1, <1>2, <1>3, <1>5 DEF Calm, Owned
  <1>8. Numbered' /\ Entries'
    BY <1>1, <1>2, <1>3, EntriesStay DEF Calm, Numbered, Old
  <1>9. Chains'
    <2>1. CASE isOpen
      BY <1>1, <1>4, <2>1 DEF Calm, Chains, Gone, Linked, Chained, Overtaken, Result, Waiting
    <2>2. CASE ~isOpen
      <3>1. undo' = <<>> /\ redo' = <<>> /\ \A c \in calls : ~c.mounted
        BY <1>1, <2>2 DEF Calm, Mounting
      <3>2. Chained(file)'
        BY <3>1, EmptyLeads DEF Chained
      <3> QED BY <1>1, <3>1, <3>2 DEF Chains, Linked, Waiting
    <2> QED BY <2>1, <2>2
  <1>10. Kept'
    <2>1. ASSUME NEW d \in Docs, NEW g \in Safe(d) PROVE g \in Safe(d)'
      <3>1. \A x \in snaps : x.doc = d /\ g = x.file => x \in snaps' \/ g \in versions'[d]
        BY <1>1, <1>2
      <3> QED BY <1>1, <2>1, <3>1, SafeIs, SafeWillBe
    <2>2. \A d \in Docs : \A f : Within(f, Safe(d)) => Within(f, Safe(d)')
      BY <2>1, WithinGrows
    <2>3. ASSUME NEW d \in Docs PROVE Within(working'[d], Safe(d)')
      <3>1. CASE d = s.doc
        <4>1. s.file \in Safe(d)'
          BY <1>1, <1>2, <3>1, SafeWillBe
        <4> QED BY <1>3, <3>1, <4>1, WithinItself
      <3>2. CASE d # s.doc
        BY <1>3, <2>2, <3>2 DEF Calm, Kept
      <3> QED BY <3>1, <3>2
    <2>4. Waiting' = {} => \A d \in Docs : d = active' =>
              \A i \in 1..Len(redo') : Within(redo'[i].after, Safe(d)')
      BY <1>1, <2>2 DEF Calm, Kept, Waiting
    <2> QED BY <1>1, <2>3, <2>4 DEF Calm, Kept, Result
  <1> QED BY <1>6, <1>7, <1>8, <1>9, <1>10 DEF Calm

-----------------------------------------------------------------------------
(* The theorems about behaviours that nothing disturbs *)

LEMMA UndisturbedInit == Init => Undisturbed
  <1> SUFFICES ASSUME Init PROVE Calm
    BY DEF Undisturbed
  <1>1. /\ active = Nothing /\ ~isOpen /\ opening = Nothing /\ file = Nothing
        /\ undo = <<>> /\ redo = <<>> /\ calls = {} /\ timer = Nothing /\ snaps = {}
        /\ Len(undo) = 0 /\ Len(redo) = 0
    BY EmptySeq DEF Init
  <1>2. \A d \in Docs : /\ working[d] = Original(d) /\ versions[d] = {Original(d)}
                        /\ Original(d).of = d /\ Original(d).edits = {}
    BY DEF Init, Original
  <1>3. Mounting /\ Owned
    BY <1>1, <1>2 DEF Mounting, Arranging, Merging, Owned
  <1>4. Numbered /\ Entries
    BY <1>1, <1>2 DEF Numbered, Entries, Old
  <1>5. Chains
    BY <1>1, EmptyLeads DEF Chains, Linked, Chained, Waiting
  <1>6. Kept
    BY <1>1, <1>2 DEF Kept, Within, Safe
  <1> QED BY <1>3, <1>4, <1>5, <1>6 DEF Calm

\* Every step that leaves nothing disturbed keeps the files in their places
LEMMA UndisturbedNext == Inv /\ Undisturbed /\ [Next]_vars => Undisturbed'
  <1> SUFFICES ASSUME Inv, Undisturbed, [Next]_vars, ~disturbed' PROVE Calm'
    BY DEF Undisturbed
  <1>1. Calm
    BY DisturbedStays DEF Undisturbed
  <1>2. CASE User
    BY <1>1, <1>2, OpenCalm, OpenStoredCalm, CloseCalm, WorkSaveCalm, UndoCalm, RedoCalm,
       AskCalm DEF User
  <1>3. CASE Activate
    BY <1>1, <1>3, ActivateCalm
  <1>4. CASE HistoryArrives
    BY <1>1, <1>4, HistoryCalm
  <1>5. CASE TimerFires
    BY <1>1, <1>5, TimerCalm
  <1>6. CASE EditAnswers
    <2>1. ASSUME NEW c \in calls, ArrangedFails(c) PROVE FALSE
      BY <2>1 DEF ArrangedFails
    <2> QED BY <1>1, <1>6, <2>1, AnnotatedCalm, EditFailsCalm, ArrangedCalm,
            ArrangedStoredCalm, ArrangedSavedCalm, MergeShownCalm, MergeOvertakenCalm DEF EditAnswers
  <1>7. CASE SnapAnswers
    <2>1. ASSUME NEW s \in snaps, SnapFails(s) PROVE FALSE
      BY <2>1 DEF SnapFails
    <2> QED BY <1>1, <1>7, <2>1, SnapServedCalm, SnapReturnsCalm DEF SnapAnswers
  <1>8. CASE UNCHANGED vars
    <2>1. UNCHANGED <<active, isOpen, opening, file, working, undo, redo, calls, timer,
                      snaps, versions, made>>
      BY <1>8 DEF vars, editor
    <2>2. Mounting' /\ Owned'
      BY <1>1, <2>1 DEF Calm, Mounting, Arranging, Merging, Owned
    <2>3. Numbered' /\ Entries'
      BY <1>1, <2>1, EntriesStay DEF Calm, Numbered, Old
    <2>4. Chains'
      BY <1>1, <2>1 DEF Calm, Chains, Gone, Linked, Chained, Overtaken, Result, Waiting
    <2>5. Kept'
      <3>1. \A x \in Docs : Safe(x)' = Safe(x)
        BY <2>1, SafeStays
      <3> QED BY <1>1, <2>1, <3>1 DEF Calm, Kept, Result, Waiting
    <2> QED BY <2>2, <2>3, <2>4, <2>5 DEF Calm
  <1> QED BY <1>2, <1>3, <1>4, <1>5, <1>6, <1>7, <1>8 DEF Next

LEMMA AlwaysUndisturbed == Spec => [](Inv /\ Undisturbed)
  <1>1. Init => Inv /\ Undisturbed
    BY InvInit, UndisturbedInit
  <1>2. (Inv /\ Undisturbed) /\ [Next]_vars => (Inv /\ Undisturbed)'
    BY InvNext, UndisturbedNext
  <1> QED BY <1>1, <1>2, PTL DEF Spec

\* As long as every answer met the file it was computed from, undo and redo
\* walk along one chain of files through the one on the screen
THEOREM UndoWalksTheChain == Spec => []UndoChains
  <1>1. Inv /\ Undisturbed => UndoChains
    <2> SUFFICES ASSUME Inv, Undisturbed, ~disturbed, isOpen, Settled PROVE
          /\ undo # <<>> => Last(undo).after = file
          /\ redo # <<>> => Last(redo).before = file
          /\ \A i \in 1..(Len(undo) - 1) : undo[i].after = undo[i + 1].before
          /\ \A i \in 1..(Len(redo) - 1) : redo[i].before = redo[i + 1].after
      BY DEF UndoChains
    <2>1. Calm /\ Waiting = {}
      BY DEF Undisturbed, Waiting, Settled
    <2> QED BY <2>1 DEF Calm, Chains, Gone, Linked, Chained, Forward, Backward
  <1> QED BY <1>1, AlwaysUndisturbed, PTL

\* Under the same condition no file gets under the slot of another document,
\* in the browser or on the server
THEOREM FilesStayWithTheirOwner == Spec => []OwnFile
  <1>1. Inv /\ Undisturbed => OwnFile
    <2> SUFFICES ASSUME Inv, Calm, ~disturbed PROVE OwnFile
      BY DEF Undisturbed, OwnFile
    <2>1. ASSUME isOpen, opening = Nothing PROVE file.of = active
      <3>1. active \in Docs /\ file = working[active]
        BY <2>1 DEF Calm, Mounting, Owned, Inv, Elsewhere
      <3> QED BY <3>1 DEF Calm, Owned
    <2> QED BY <2>1 DEF OwnFile, Calm, Owned
  <1> QED BY <1>1, AlwaysUndisturbed, PTL

\* Under the same condition the edits of a working file are in a version of its
\* document or in a file that is on its way to become one
THEOREM EditsAreOnTheirWay == Spec => []NothingForgotten
  <1>1. Inv /\ Undisturbed => NothingForgotten
    BY DEF Undisturbed, NothingForgotten, Calm, Kept, Within, Safe
  <1> QED BY <1>1, AlwaysUndisturbed, PTL
=============================================================================
