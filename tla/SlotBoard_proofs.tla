-------------------------- MODULE SlotBoard_proofs --------------------------
(***************************************************************************)
(* Theorems about SlotBoard for every number of slots, documents, files    *)
(* and requests: as long as no two requests meet, the board shows what the *)
(* server has, misses nothing after a full hydration, and keeps a document *)
(* in the active slot.                                                     *)
(*                                                                         *)
(* The invariant that always holds (Inv) says which requests are formed    *)
(* and that the server has one document at a slot.  What holds while       *)
(* nothing is disturbed (Calm) follows each request: until it is served    *)
(* its document is where the board took it from, afterwards where the      *)
(* request puts it, and the answer makes the board say so.                 *)
(*                                                                         *)
(* The requests to the server are one kind of step (Puts), the answers     *)
(* another (AnsweredKeeps): what each of them has to establish is stated   *)
(* once, and each handler is shown to do that.                             *)
(***************************************************************************)
EXTENDS SlotBoard, FiniteSetTheorems, TLAPS

\* Requests that take a document from a slot or a list, and from the trash
Leaves(r) == r.kind \in {"detach", "delete", "move"}
OfTrash(r) == r.kind \in {"purge", "restore"}

\* Which parts a request of each kind has
Formed(r) ==
    /\ r.kind # "upload" \/ r.served => r.doc \in Docs
    /\ r.kind \in {"detach", "upload"} => r.slot \in Slots
    /\ OfTrash(r) => r.slot = Nothing
    /\ r.kind = "move" <=> r.to # Nothing
    /\ r.kind = "detach" => r.entry # Nothing
    /\ r.entry # Nothing => r.kind = "detach" \/ (r.kind = "move" /\ r.to \in Slots)
    /\ r.kind = "move" => (r.entry = Nothing <=> r.slot \in Slots)
    /\ r.slot # Nothing => r.slot # r.to

\* A slot has one document, a place only a document that was made
Occupied ==
    /\ \A d, e \in Docs : (at[d] = at[e] /\ at[d] \in Slots) => d = e
    /\ \A d \in Docs : at[d] # Nothing => d \in made

Inv == TypeOK /\ (\A r \in requests : Formed(r)) /\ Occupied

USE BoundsAreNatural, NothingIsOutside, PlacesDiffer

\* No request at first, and no two documents at a slot
LEMMA InvInit == Init => Inv
  <1> SUFFICES ASSUME Init PROVE Inv
    OBVIOUS
  <1>1. TypeOK
    <2>1. at \in [Docs -> Places] /\ from \in [Docs -> Slots \cup {"unassigned", Nothing}]
      BY DEF Init, Places
    <2>2. held \in [Docs -> 0..MaxFiles] /\ made \subseteq Docs
      BY DEF Init, Docs
    <2>3. /\ slots \in [Slots -> Entry \cup {Nothing}]
          /\ unassigned \in [Docs -> Entry \cup {Nothing}]
          /\ trash \in [Docs -> Entry \cup {Nothing}]
          /\ active \in Slots \cup {Nothing} /\ opening \subseteq Slots
          /\ requests \subseteq Request
      BY DEF Init
    <2>4. hydration \in List \cup {Nothing} /\ refresh \in List \cup {Nothing}
      BY DEF Init, List
    <2>5. /\ sent \in 0..MaxRequests /\ files \in 0..MaxFiles
          /\ restored \subseteq Docs /\ complete \in BOOLEAN /\ disturbed \in BOOLEAN
      <3>1. sent = 0 /\ files = 0 /\ restored = {} /\ complete = FALSE /\ disturbed = FALSE
        BY Zenon DEF Init
      <3>2. sent \in 0..MaxRequests /\ files \in 0..MaxFiles
        BY <3>1
      <3>3. restored \subseteq Docs /\ complete \in BOOLEAN /\ disturbed \in BOOLEAN
        BY <3>1, Zenon
      <3> QED BY <3>2, <3>3
    <2> QED BY <2>1, <2>2, <2>3, <2>4, <2>5 DEF TypeOK
  <1>2. \A r \in requests : Formed(r)
    BY DEF Init
  <1>3. ASSUME NEW d \in Docs, NEW e \in Docs, at[d] = at[e], at[d] \in Slots, d # e
        PROVE FALSE
    <2> DEFINE A == At(at[d])
    <2>1. IsFiniteSet(A)
      <3>1. IsFiniteSet(Docs)
        BY FS_Interval DEF Docs
      <3> QED BY <3>1, FS_Subset DEF At
    <2>2. Cardinality({d, e}) = 2
      <3>1. IsFiniteSet({d}) /\ Cardinality({d}) = 1
        BY FS_Singleton
      <3>2. {d} \cup {e} = {d, e} /\ e \notin {d}
        BY <1>3
      <3> QED BY <3>1, <3>2, FS_AddElement
    <2>3. {d, e} \subseteq A
      BY <1>3 DEF At
    <2>4. Cardinality({d, e}) <= Cardinality(A) /\ Cardinality(A) \in Nat
      BY <2>1, <2>3, FS_Subset, FS_CardinalityType
    <2>5. Cardinality(A) <= 1
      BY <1>3 DEF Init
    <2> HIDE DEF A
    <2> QED BY <2>2, <2>4, <2>5
  <1>4. \A d \in Docs : at[d] # Nothing => d \in made
    BY DEF Init
  <1> QED BY <1>1, <1>2, <1>3, <1>4 DEF Inv, Occupied

-----------------------------------------------------------------------------
(* Asking *)

\* The request that Send makes
Asking(kind, d, s, t, entry, file) ==
    [n |-> sent + 1, kind |-> kind, doc |-> d, slot |-> s, to |-> t, entry |-> entry,
     opened |-> active, file |-> file, served |-> FALSE]

\* A request that is well formed is sent, and nothing else happens
LEMMA SendFits ==
  ASSUME Inv,
         NEW kind \in Kinds, NEW d \in Docs \cup {Nothing}, NEW s \in Slots \cup {Nothing},
         NEW t \in Slots \cup {"elsewhere", Nothing}, NEW entry \in Entry \cup {Nothing},
         NEW file \in 0..MaxFiles,
         Send(kind, d, s, t, entry, file), Formed(Asking(kind, d, s, t, entry, file)),
         UNCHANGED board, files' \in 0..MaxFiles
  PROVE  Inv'
  <1> DEFINE q == Asking(kind, d, s, t, entry, file)
  <1>1. sent + 1 \in 1..MaxRequests /\ sent' \in 0..MaxRequests
    BY DEF Send, Inv, TypeOK
  <1>2. q \in Request
    BY <1>1 DEF Asking, Request, Inv, TypeOK
  <1>3. requests' = requests \cup {q} /\ disturbed' \in BOOLEAN
    BY DEF Send, Asking
  <1>4. UNCHANGED <<at, from, held, made, slots, unassigned, trash, active, opening, hydration,
                    refresh, restored, complete>>
    BY DEF Send, server, board, lists
  <1> HIDE DEF q
  <1>5. TypeOK'
    BY <1>1, <1>2, <1>3, <1>4 DEF Inv, TypeOK
  <1>6. \A r \in requests' : Formed(r)
    BY <1>3 DEF Inv, q
  <1> QED BY <1>4, <1>5, <1>6 DEF Inv, Occupied

\* Each click of the user sends a well-formed request, or none
LEMMA UserKeepsInv ==
  ASSUME Inv, User
  PROVE  Inv'
  <1>1. ASSUME NEW s \in Slots, ClearSlot(s) PROVE Inv'
    <2>1. slots[s] \in Entry /\ slots[s].doc \in Docs
      BY <1>1 DEF ClearSlot, Saved, Inv, TypeOK, Entry
    <2>2. Formed(Asking("detach", slots[s].doc, s, Nothing, slots[s], 0))
      BY <1>1, <2>1 DEF Formed, Asking, OfTrash, ClearSlot, Saved
    <2> QED BY <1>1, <2>1, <2>2, SendFits DEF ClearSlot, Kinds, Inv, TypeOK
  <1>2. ASSUME NEW s \in Slots, ClearUnsaved(s) PROVE Inv'
    <2>1. slots' \in [Slots -> Entry \cup {Nothing}] /\ active' \in Slots \cup {Nothing}
      BY <1>2 DEF ClearUnsaved, Inv, TypeOK
    <2>2. UNCHANGED <<at, from, held, made, unassigned, trash, opening, requests, hydration,
                      refresh, sent, files, restored, complete, disturbed>>
      BY <1>2 DEF ClearUnsaved, server, lists, counters, history
    <2> QED BY <2>1, <2>2 DEF Inv, TypeOK, Occupied
  <1>3. ASSUME NEW s \in Slots, UploadTo(s) PROVE Inv'
    <2> DEFINE d == IF slots[s] # Nothing THEN slots[s].doc ELSE Nothing
    <2>1. d \in Docs \cup {Nothing}
      BY DEF Inv, TypeOK, Entry
    <2>2. files + 1 \in 0..MaxFiles /\ files' = files + 1
      BY <1>3 DEF UploadTo, Inv, TypeOK
    <2>3. Formed(Asking("upload", d, s, Nothing, Nothing, files + 1))
      BY DEF Formed, Asking, OfTrash
    <2>4. Send("upload", d, s, Nothing, Nothing, files + 1) /\ UNCHANGED board
      BY <1>3 DEF UploadTo
    <2> HIDE DEF d
    <2> QED BY <2>1, <2>2, <2>3, <2>4, SendFits DEF Kinds
  <1>4. ASSUME NEW s \in Slots, OpenSlot(s) PROVE Inv'
    <2>1. opening' \subseteq Slots /\ sent' \in 0..MaxRequests
      BY <1>4 DEF OpenSlot, Inv, TypeOK
    <2>2. UNCHANGED <<at, from, held, made, slots, unassigned, trash, active, requests, hydration,
                      refresh, files, restored, complete, disturbed>>
      BY <1>4 DEF OpenSlot, server, lists, history
    <2> QED BY <2>1, <2>2 DEF Inv, TypeOK, Occupied
  <1>5. ASSUME NEW d \in Docs, Delete(d) PROVE Inv'
    <2>0. UNCHANGED board /\ files' \in 0..MaxFiles
      BY <1>5 DEF Delete, Inv, TypeOK
    <2>1. ASSUME NEW s \in Slots \cup {Nothing}, Send("delete", d, s, Nothing, Nothing, 0)
          PROVE Inv'
      <3>1. Formed(Asking("delete", d, s, Nothing, Nothing, 0))
        BY DEF Formed, Asking, OfTrash
      <3> QED BY <2>0, <2>1, <3>1, SendFits DEF Kinds
    <2> QED BY <1>5, <2>1 DEF Delete
  <1>6. ASSUME NEW k \in {"purge", "restore"}, NEW d \in Docs, FromTrash(k, d) PROVE Inv'
    <2>1. Formed(Asking(k, d, Nothing, Nothing, Nothing, 0))
      BY DEF Formed, Asking, OfTrash
    <2>2. k \in Kinds /\ 0 \in 0..MaxFiles /\ files \in 0..MaxFiles
      BY DEF Kinds, Inv, TypeOK
    <2>3. Send(k, d, Nothing, Nothing, Nothing, 0) /\ UNCHANGED <<board, files>>
      BY <1>6 DEF FromTrash
    <2> QED BY <2>1, <2>2, <2>3, SendFits
  <1>7. ASSUME NEW d \in Docs, NEW s \in Slots, Assign(d, s) PROVE Inv'
    <2>1. unassigned[d] \in Entry /\ unassigned[d] # Nothing
      BY <1>7 DEF Assign, Inv, TypeOK
    <2>2. Formed(Asking("move", d, Nothing, s, unassigned[d], 0))
      BY <2>1 DEF Formed, Asking, OfTrash
    <2> QED BY <1>7, <2>1, <2>2, SendFits DEF Assign, Kinds, Inv, TypeOK
  <1>8. ASSUME NEW s \in Slots, NEW t \in Slots \cup {"elsewhere"}, RelocateDoc(s, t) PROVE Inv'
    <2>1. slots[s].doc \in Docs /\ t # s
      BY <1>8 DEF RelocateDoc, Saved, Inv, TypeOK, Entry
    <2>2. Formed(Asking("move", slots[s].doc, s, t, Nothing, 0))
      BY <2>1 DEF Formed, Asking, OfTrash
    <2>3. "move" \in Kinds /\ 0 \in 0..MaxFiles /\ files \in 0..MaxFiles
      BY DEF Kinds, Inv, TypeOK
    <2>4. Send("move", slots[s].doc, s, t, Nothing, 0) /\ UNCHANGED <<board, files>>
      BY <1>8 DEF RelocateDoc
    <2> QED BY <2>1, <2>2, <2>3, <2>4, SendFits
  <1>9. CASE Hydrate
    <2>1. /\ hydration' \in List /\ disturbed' \in BOOLEAN /\ sent' \in 0..MaxRequests
          /\ UNCHANGED <<at, from, held, made, slots, unassigned, trash, active, opening, requests,
                         refresh, files, restored, complete>>
      BY <1>9 DEF Hydrate, List, Inv, TypeOK, server, board
    <2> QED BY <2>1 DEF Inv, TypeOK, Occupied
  <1> QED BY <1>1, <1>2, <1>3, <1>4, <1>5, <1>6, <1>7, <1>8, <1>9 DEF User

-----------------------------------------------------------------------------
(* The server *)

\* The request with its answer, and where it puts its document (a restore asks
\* the server where)
Replied(r, d) == [r EXCEPT !.served = TRUE, !.doc = d]

Target(r) == CASE r.kind = "detach" -> "unassigned"
               [] r.kind = "delete" -> "trash"
               [] r.kind = "purge" -> Nothing
               [] r.kind = "move" -> r.to
               [] r.kind = "upload" -> r.slot

\* The request r is served by putting the document d at p
Puts(r, d, p) ==
    /\ at' = [at EXCEPT ![d] = p]
    /\ \A e \in Docs : at[e] = p /\ p \in Slots => e = d
    /\ requests' = (requests \ {r}) \cup {Replied(r, d)}
    /\ r.kind = "upload" => /\ at[d] = r.slot \/ d \notin made
                            /\ held' = [held EXCEPT ![d] = r.file]
                            /\ made' = made \cup {d}
    /\ r.kind # "upload" => d = r.doc /\ at[d] # Nothing /\ UNCHANGED <<held, made>>
    /\ r.kind # "restore" => p = Target(r)
    /\ UNCHANGED <<slots, unassigned, trash, active, opening, hydration, refresh, sent, files,
                   restored, complete, disturbed>>

\* Every handler of the server does that
LEMMA ServePuts ==
  ASSUME Inv, NEW r \in requests, Serve(r)
  PROVE  \E d \in Docs, p \in Places : Puts(r, d, p)
  <1>1. UNCHANGED <<slots, unassigned, trash, active, opening, hydration, refresh, sent, files,
                    restored, complete, disturbed>>
    BY DEF Serve, board, lists, counters, history
  <1>2. r \in Request /\ r.kind \in Kinds /\ Formed(r) /\ r.to \in Slots \cup {"elsewhere", Nothing}
        /\ r.slot \in Slots \cup {Nothing}
    BY DEF Inv, TypeOK, Request
  <1>3. ASSUME r.kind # "upload", Answered(r)
        PROVE  r.doc \in Docs /\ requests' = (requests \ {r}) \cup {Replied(r, r.doc)}
    <2>1. Replied(r, r.doc) = [r EXCEPT !.served = TRUE]
      BY <1>2 DEF Replied, Request
    <2> QED BY <1>2, <1>3, <2>1 DEF Answered, Formed
  <1>4. CASE ServeDetach(r)
    <2>1. "unassigned" \in Places /\ Puts(r, r.doc, "unassigned")
      BY <1>1, <1>3, <1>4 DEF ServeDetach, Puts, Target, Places
    <2> QED BY <2>1, <1>3, <1>4 DEF ServeDetach
  <1>5. CASE ServeDelete(r)
    <2>1. "trash" \in Places /\ Puts(r, r.doc, "trash")
      BY <1>1, <1>3, <1>5 DEF ServeDelete, Puts, Target, Places
    <2> QED BY <2>1, <1>3, <1>5 DEF ServeDelete
  <1>6. CASE ServePurge(r)
    <2>1. Nothing \in Places /\ Puts(r, r.doc, Nothing)
      BY <1>1, <1>3, <1>6 DEF ServePurge, Puts, Target, Places
    <2> QED BY <2>1, <1>3, <1>6 DEF ServePurge
  <1>7. CASE ServeRestore(r)
    <2>0. r.doc \in Docs
      BY <1>3, <1>7 DEF ServeRestore
    <2>1. from[r.doc] \in Places
      BY <2>0 DEF Places, Inv, TypeOK
    <2>2. Puts(r, r.doc, from[r.doc])
      BY <1>1, <1>3, <1>7, <2>0 DEF ServeRestore, Puts, At
    <2> QED BY <2>0, <2>1, <2>2
  <1>8. CASE ServeMove(r)
    <2>1. r.doc \in Docs /\ r.to \in Places
      BY <1>2, <1>3, <1>8 DEF ServeMove, Places
    <2>2. Puts(r, r.doc, r.to)
      BY <1>1, <1>3, <1>8, <2>1 DEF ServeMove, Puts, Target, At
    <2> QED BY <2>1, <2>2
  <1>9. CASE ServeUpload(r)
    <2>1. PICK d \in Docs :
            /\ IF At(r.slot) = {} THEN d \notin made /\ (d - 1) \in made \cup {0}
                                  ELSE d \in At(r.slot)
            /\ at' = [at EXCEPT ![d] = r.slot]
            /\ held' = [held EXCEPT ![d] = r.file]
            /\ made' = made \cup {d}
            /\ requests' = (requests \ {r}) \cup {Replied(r, d)}
      BY <1>9 DEF ServeUpload, Replied
    <2>2. r.slot \in Slots /\ r.slot \in Places /\ r.kind = "upload"
      BY <1>2, <1>9 DEF ServeUpload, Formed, Places
    <2>3. \A e \in Docs : at[e] = r.slot => e = d
      BY <2>1, <2>2 DEF At, Inv, Occupied
    <2>4. at[d] = r.slot \/ d \notin made
      BY <2>1 DEF At
    <2>5. Puts(r, d, r.slot)
      BY <1>1, <2>1, <2>2, <2>3, <2>4 DEF Puts, Target
    <2> QED BY <2>2, <2>5
  <1> QED BY <1>4, <1>5, <1>6, <1>7, <1>8, <1>9 DEF Serve

\* A document is put at a slot that no other document has
LEMMA PutsKeepsInv ==
  ASSUME Inv, NEW r \in requests, NEW d \in Docs, NEW p \in Places, Puts(r, d, p),
         from' \in [Docs -> Slots \cup {"unassigned", Nothing}]
  PROVE  Inv'
  <1>1. r \in Request /\ Formed(r) /\ r.slot \in Slots \cup {Nothing}
    BY DEF Inv, TypeOK, Request
  <1>2. Replied(r, d) \in Request
    BY <1>1 DEF Replied, Request
  <1>3. Formed(Replied(r, d))
    BY <1>1 DEF Formed, Replied, Request, OfTrash
  <1>4. requests' \subseteq Request /\ \A q \in requests' : Formed(q)
    BY <1>2, <1>3 DEF Puts, Inv, TypeOK
  <1>5. held' \in [Docs -> 0..MaxFiles] /\ made' \subseteq Docs
    <2>1. CASE r.kind = "upload"
      BY <1>1, <2>1 DEF Puts, Inv, TypeOK, Request
    <2>2. CASE r.kind # "upload"
      BY <2>2 DEF Puts, Inv, TypeOK
    <2> QED BY <2>1, <2>2
  <1>6. at' \in [Docs -> Places]
    BY DEF Puts, Inv, TypeOK
  <1>7. TypeOK'
    BY <1>4, <1>5, <1>6, Zenon DEF Puts, Inv, TypeOK
  <1>8. ASSUME NEW e \in Docs, NEW f \in Docs, at'[e] = at'[f], at'[e] \in Slots
        PROVE  e = f
    BY <1>8 DEF Puts, Inv, TypeOK, Occupied
  <1>9. ASSUME NEW e \in Docs, at'[e] # Nothing PROVE e \in made'
    <2>1. CASE e # d
      BY <1>9, <2>1 DEF Puts, Inv, TypeOK, Occupied
    <2>2. CASE e = d /\ r.kind = "upload"
      BY <2>2 DEF Puts
    <2>3. CASE e = d /\ r.kind # "upload"
      BY <2>3 DEF Puts, Inv, Occupied
    <2> QED BY <2>1, <2>2, <2>3
  <1> QED BY <1>4, <1>7, <1>8, <1>9 DEF Inv, Occupied

\* So every handler of the server keeps the invariant
LEMMA ServeKeepsInv ==
  ASSUME Inv, NEW r \in requests, Serve(r)
  PROVE  Inv'
  <1>1. PICK d \in Docs, p \in Places : Puts(r, d, p)
    BY ServePuts
  <1>2. from' \in [Docs -> Slots \cup {"unassigned", Nothing}]
    <2>1. ASSUME r.kind # "upload" PROVE r.doc \in Docs
      BY <2>1 DEF Inv, Formed
    <2> QED BY <2>1 DEF Serve, ServeDetach, ServeDelete, ServePurge, ServeRestore, ServeMove,
                       ServeUpload, Inv, TypeOK
  <1> QED BY <1>1, <1>2, PutsKeepsInv

-----------------------------------------------------------------------------
(* The answers and the lists *)

\* An answer puts entries on the board and asks the server nothing
LEMMA AnswerKeepsInv ==
  ASSUME Inv, NEW r \in requests, Answer(r)
  PROVE  Inv'
  <1> DEFINE boardOK == /\ slots' \in [Slots -> Entry \cup {Nothing}]
                        /\ unassigned' \in [Docs -> Entry \cup {Nothing}]
                        /\ trash' \in [Docs -> Entry \cup {Nothing}]
                        /\ active' \in Slots \cup {Nothing} /\ opening' \subseteq Slots
             listsOK == hydration' \in List \cup {Nothing} /\ refresh' \in List \cup {Nothing}
             historyOK == /\ restored' \subseteq Docs
                          /\ complete' \in BOOLEAN /\ disturbed' \in BOOLEAN
  <1>1. /\ r \in Request /\ Formed(r) /\ r.slot \in Slots \cup {Nothing}
        /\ r.to \in Slots \cup {"elsewhere", Nothing} /\ r.entry \in Entry \cup {Nothing}
        /\ r.doc \in Docs \cup {Nothing} /\ r.file \in 0..MaxFiles
    BY DEF Inv, TypeOK, Request
  <1>2. requests' = requests \ {r} /\ UNCHANGED <<at, from, held, made, sent, files>>
    BY Zenon DEF Answer, Detached, Deleted, LeftTrash, Assigned, Relocated, Uploaded, Fails, Done,
       server, counters
  <1>3. ASSUME Nonce, UNCHANGED hydration PROVE listsOK
    BY <1>3 DEF Nonce, List, Inv, TypeOK
  <1>4. boardOK /\ listsOK /\ historyOK
    <2>1. CASE Detached(r)
      <3>1. r.entry \in Entry /\ r.doc \in Docs
        BY <1>1, <2>1 DEF Detached, Formed
      <3>2. boardOK
        BY <3>1, <2>1 DEF Detached, Close, Inv, TypeOK
      <3>3. listsOK /\ historyOK
        BY <2>1 DEF Detached, lists, history, Inv, TypeOK
      <3> QED BY <3>2, <3>3
    <2>2. CASE Deleted(r)
      <3>1. boardOK
        BY <2>2 DEF Deleted, Close, Inv, TypeOK
      <3>2. listsOK
        BY <1>3, <2>2 DEF Deleted
      <3>3. historyOK
        BY <2>2 DEF Deleted, history, Inv, TypeOK
      <3> QED BY <3>1, <3>2, <3>3
    <2>3. CASE LeftTrash(r)
      <3>1. boardOK
        BY <2>3 DEF LeftTrash, Inv, TypeOK
      <3>2. listsOK
        BY <1>3, <2>3 DEF LeftTrash
      <3>3. historyOK
        BY <1>1, <2>3 DEF LeftTrash, Formed, Inv, TypeOK
      <3> QED BY <3>1, <3>2, <3>3
    <2>4. CASE Assigned(r)
      <3>1. boardOK
        BY <1>1, <2>4 DEF Assigned, Inv, TypeOK
      <3>2. listsOK
        BY <1>3, <2>4 DEF Assigned
      <3>3. historyOK
        BY <2>4 DEF Assigned, history, Inv, TypeOK
      <3> QED BY <3>1, <3>2, <3>3
    <2>5. CASE Relocated(r)
      <3>0. r.slot \in Slots /\ r.to \in Slots \cup {"elsewhere"}
        BY <1>1, <2>5 DEF Relocated, Formed
      <3>1. boardOK
        BY <3>0, <2>5 DEF Relocated, Close, Inv, TypeOK
      <3>2. listsOK
        BY <1>3, <2>5 DEF Relocated
      <3>3. historyOK
        BY <2>5 DEF Relocated, history, Inv, TypeOK
      <3> QED BY <3>1, <3>2, <3>3
    <2>6. CASE Uploaded(r)
      <3>0. r.slot \in Slots /\ r.doc \in Docs
        BY <1>1, <2>6 DEF Uploaded, Formed, Done
      <3>1. [doc |-> r.doc, persisted |-> TRUE, file |-> r.file, label |-> r.file] \in Entry
        BY <1>1, <3>0 DEF Entry
      <3>2. boardOK
        BY <3>0, <3>1, <2>6 DEF Uploaded, Inv, TypeOK
      <3>3. listsOK
        BY <1>3, <2>6 DEF Uploaded
      <3>4. historyOK
        BY <2>6 DEF Uploaded, history, Inv, TypeOK
      <3> QED BY <3>2, <3>3, <3>4
    <2>7. CASE Fails(r)
      <3>1. [doc |-> Nothing, persisted |-> FALSE, file |-> r.file, label |-> 0] \in Entry
        BY <1>1 DEF Entry
      <3>2. boardOK
        <4>1. CASE UNCHANGED board
          BY <4>1 DEF board, Inv, TypeOK
        <4>2. CASE ~UNCHANGED board
          <5>1. r.kind = "upload" /\ r.slot \in Slots
            BY <4>2, <2>7, <1>1 DEF Fails, Formed
          <5> QED BY <5>1, <4>2, <3>1, <2>7 DEF Fails, Inv, TypeOK
        <4> QED BY <4>1, <4>2
      <3>3. listsOK /\ restored' \subseteq Docs
        BY <2>7 DEF Fails, lists, Inv, TypeOK
      <3>4. complete' \in BOOLEAN /\ disturbed' \in BOOLEAN
        BY <2>7 DEF Fails, Inv, TypeOK
      <3> QED BY <3>2, <3>3, <3>4
    <2> QED BY <2>1, <2>2, <2>3, <2>4, <2>5, <2>6, <2>7 DEF Answer
  <1>5. TypeOK'
    BY <1>2, <1>4 DEF Inv, TypeOK
  <1> QED BY <1>2, <1>5 DEF Inv, Occupied

\* An item shows a document as it is listed
LEMMA ItemsFit == Inv => Items \in SUBSET Item
  <1> SUFFICES ASSUME Inv, NEW d \in Docs, at[d] \notin {Nothing, "elsewhere"}
               PROVE  [doc |-> d, at |-> at[d], label |-> held[d]] \in Item
    BY DEF Items
  <1> QED BY DEF Item, Inv, TypeOK

\* What is shown for an item is an entry
LEMMA ShownFits ==
  ASSUME Inv, NEW i \in Item
  PROVE  Shown(i) \in Entry
  BY DEF Shown, Entry, Item, Inv, TypeOK

ListSteps == \/ HydrationListed \/ HydrationReturns \/ HydrationFails
             \/ RefreshListed \/ RefreshReturns \/ RefreshFails

\* A slot that was opened becomes the active one
LEMMA ActivateKeepsInv ==
  ASSUME Inv, NEW s \in Slots, Activate(s)
  PROVE  Inv'
  <1>1. active' \in Slots /\ opening' \subseteq Slots /\ disturbed' \in BOOLEAN
    BY DEF Activate, Inv, TypeOK
  <1>2. UNCHANGED <<at, from, held, made, slots, unassigned, trash, requests, hydration, refresh,
                    sent, files, restored, complete>>
    BY DEF Activate, server, lists, counters
  <1> QED BY <1>1, <1>2 DEF Inv, TypeOK, Occupied

\* What was listed are items, and what is shown of them entries
LEMMA ListsKeepInv ==
  ASSUME Inv, ListSteps
  PROVE  Inv'
  <1>1. [items |-> Items, listed |-> TRUE] \in List
    BY ItemsFit DEF List
  <1>2. CASE HydrationListed
    <2>1. /\ hydration' \in List
          /\ UNCHANGED <<at, from, held, made, slots, unassigned, trash, active, opening, requests,
                         refresh, sent, files, restored, complete, disturbed>>
      BY <1>1, <1>2 DEF HydrationListed, server, board, counters, history
    <2> QED BY <2>1 DEF Inv, TypeOK, Occupied
  <1>3. CASE HydrationReturns
    <2>1. hydration \in List /\ hydration' = Nothing
      BY <1>3 DEF HydrationReturns, Inv, TypeOK
    <2>2. PICK got \in SUBSET hydration.items :
            /\ slots' = [s \in Slots |->
                           IF \E i \in got : i.at = s
                           THEN Shown(CHOOSE i \in got : i.at = s) ELSE slots[s]]
            /\ unassigned' = [d \in Docs |-> IF Listed(got, d, "unassigned")
                                             THEN Shown(ItemOf(got, d)) ELSE Nothing]
            /\ trash' = [d \in Docs |-> IF Listed(got, d, "trash")
                                        THEN Shown(ItemOf(got, d)) ELSE Nothing]
            /\ complete' = (got = hydration.items)
            /\ restored' = restored \ {i.doc : i \in got}
      BY <1>3 DEF HydrationReturns
    <2>3. got \subseteq Item
      BY <2>1 DEF List
    <2>4. slots' \in [Slots -> Entry \cup {Nothing}]
      <3> SUFFICES ASSUME NEW s \in Slots
                   PROVE  (IF \E i \in got : i.at = s
                           THEN Shown(CHOOSE i \in got : i.at = s) ELSE slots[s])
                          \in Entry \cup {Nothing}
        BY <2>2
      <3>1. CASE \E i \in got : i.at = s
        <4>1. (CHOOSE i \in got : i.at = s) \in Item
          BY <3>1, <2>3
        <4> QED BY <3>1, <4>1, ShownFits
      <3> QED BY <3>1 DEF Inv, TypeOK
    <2>5. ASSUME NEW d \in Docs, NEW x, Listed(got, d, x) PROVE Shown(ItemOf(got, d)) \in Entry
      <3>1. ItemOf(got, d) \in Item
        BY <2>3, <2>5 DEF Listed, ItemOf
      <3> QED BY <3>1, ShownFits
    <2>6. /\ unassigned' \in [Docs -> Entry \cup {Nothing}]
          /\ trash' \in [Docs -> Entry \cup {Nothing}]
      BY <2>2, <2>5
    <2>7. restored' \subseteq Docs /\ complete' \in BOOLEAN
      BY <2>2 DEF Inv, TypeOK
    <2>8. UNCHANGED <<at, from, held, made, active, opening, requests, refresh, sent, files,
                      disturbed>>
      BY <1>3 DEF HydrationReturns, server, counters
    <2> QED BY <2>1, <2>4, <2>6, <2>7, <2>8 DEF Inv, TypeOK, Occupied
  <1>4. CASE HydrationFails
    <2>1. /\ hydration' = Nothing
          /\ UNCHANGED <<at, from, held, made, slots, unassigned, trash, active, opening, requests,
                         refresh, sent, files, restored, complete, disturbed>>
      BY <1>4 DEF HydrationFails, server, board, counters, history
    <2> QED BY <2>1 DEF Inv, TypeOK, Occupied
  <1>5. CASE RefreshListed
    <2>1. /\ refresh' \in List
          /\ UNCHANGED <<at, from, held, made, slots, unassigned, trash, active, opening, requests,
                         hydration, sent, files, restored, complete, disturbed>>
      BY <1>1, <1>5 DEF RefreshListed, server, board, counters, history
    <2> QED BY <2>1 DEF Inv, TypeOK, Occupied
  <1>6. CASE RefreshReturns
    <2>1. refresh \in List /\ refresh' = Nothing /\ disturbed' \in BOOLEAN
      BY <1>6 DEF RefreshReturns, Inv, TypeOK
    <2>2. slots' \in [Slots -> Entry \cup {Nothing}]
      <3>1. ASSUME NEW s \in Slots, slots[s] # Nothing, \E i \in refresh.items : i.at = s
            PROVE  LET i == CHOOSE i \in refresh.items : i.at = s
                   IN  [slots[s] EXCEPT !.doc = i.doc, !.label = i.label] \in Entry
        <4>1. (CHOOSE i \in refresh.items : i.at = s) \in Item
          BY <3>1, <2>1 DEF List
        <4>2. slots[s] \in Entry
          BY <3>1 DEF Inv, TypeOK
        <4> QED BY <4>1, <4>2 DEF Entry, Item
      <3> QED BY <3>1, <1>6 DEF RefreshReturns, Inv, TypeOK
    <2>3. UNCHANGED <<at, from, held, made, unassigned, trash, active, opening, requests, hydration,
                      sent, files, restored, complete>>
      BY <1>6 DEF RefreshReturns, server, counters
    <2> QED BY <2>1, <2>2, <2>3 DEF Inv, TypeOK, Occupied
  <1>7. CASE RefreshFails
    <2>1. /\ refresh' = Nothing
          /\ UNCHANGED <<at, from, held, made, slots, unassigned, trash, active, opening, requests,
                         hydration, sent, files, restored, complete, disturbed>>
      BY <1>7 DEF RefreshFails, server, board, counters, history
    <2> QED BY <2>1 DEF Inv, TypeOK, Occupied
  <1> QED BY <1>2, <1>3, <1>4, <1>5, <1>6, <1>7 DEF ListSteps

LEMMA InvKept == Inv /\ [Next]_vars => Inv'
  <1> SUFFICES ASSUME Inv, [Next]_vars PROVE Inv'
    OBVIOUS
  <1>1. CASE User
    BY <1>1, UserKeepsInv
  <1>2. ASSUME NEW r \in requests, Serve(r) PROVE Inv'
    BY <1>2, ServeKeepsInv
  <1>3. ASSUME NEW r \in requests, Answer(r) PROVE Inv'
    BY <1>3, AnswerKeepsInv
  <1>4. CASE ListSteps
    BY <1>4, ListsKeepInv
  <1>5. ASSUME NEW s \in Slots, Activate(s) PROVE Inv'
    BY <1>5, ActivateKeepsInv
  <1>6. CASE UNCHANGED vars
    BY <1>6 DEF vars, server, board, lists, counters, history, Inv, TypeOK, Occupied
  <1> QED BY <1>1, <1>2, <1>3, <1>4, <1>5, <1>6 DEF Next, ListSteps

\* Requests are well formed and the server has one document at a slot.
THEOREM BoardInvariant == Spec => []Inv
  BY InvInit, InvKept, PTL DEF Spec

-----------------------------------------------------------------------------
(* What holds while nothing is disturbed *)

Served == {r \in requests : r.served}

\* A document as the board shows it
Card(d) == [doc |-> d, persisted |-> TRUE, file |-> held[d], label |-> held[d]]

Apart == \A q, r \in requests : q # r => ~Clashes(q, r)

\* Where the document of a request is until it is served, and afterwards
Source(r) == IF OfTrash(r) THEN "trash" ELSE IF r.slot = Nothing THEN "unassigned" ELSE r.slot

Placed ==
    \A r \in requests :
        /\ r.doc # Nothing => r.doc \in made /\ (~r.served => at[r.doc] = Source(r))
        /\ r.served => /\ r.kind # "restore" => at[r.doc] = Target(r)
                       /\ r.kind = "upload" => held[r.doc] = r.file

\* A request that takes a document from a slot: the slot still shows it, nothing
\* comes there, and the request knows whether the slot is open
Carried ==
    \A r \in requests :
        /\ r.entry # Nothing => r.entry = Card(r.doc)
        /\ (Leaves(r) /\ r.slot # Nothing) =>
              /\ slots[r.slot] = Card(r.doc)
              /\ r.served => \A d \in Docs : at[d] # r.slot
              /\ active = r.slot => r.opened = r.slot

\* What is shown is there, but for a served request that will correct it
Slotted(s) ==
    \/ slots[s] = Card(slots[s].doc) /\ at[slots[s].doc] = s
    \/ \E r \in Served : r.slot = s /\ r.doc = slots[s].doc

Corrected(d, kinds) == \E r \in Served : r.doc = d /\ r.kind \in kinds /\ r.slot = Nothing

Shows ==
    /\ \A s \in Slots : slots[s] # Nothing => /\ slots[s].persisted <=> slots[s].doc # Nothing
                                              /\ slots[s].persisted => Slotted(s)
    /\ \A d \in Docs :
          /\ unassigned[d] # Nothing =>
                /\ unassigned[d] = Card(d)
                /\ at[d] = "unassigned" \/ Corrected(d, {"delete", "move"})
          /\ trash[d] # Nothing => at[d] = "trash" \/ Corrected(d, {"purge", "restore"})

\* Nothing changes on the server while the lists of a hydration are read
Hydrating ==
    hydration # Nothing => requests = {} /\ (hydration.listed => hydration.items = Items)

\* A listed refresh changes no saved slot but one with an upload that is being
\* answered, and names the document of each slot unless it came there since
Answering(d) == \E r \in Served : r.doc = d
Uploading(d) == \E r \in Served : r.doc = d /\ r.kind = "upload"

Refreshing ==
    (refresh # Nothing /\ refresh.listed) =>
        \A i \in refresh.items : i.at \in Slots =>
            /\ Saved(slots[i.at]) => /\ i.doc = slots[i.at].doc
                                     /\ i.label = held[i.doc] \/ Uploading(i.doc)
            /\ \A e \in Docs : at[e] = i.at =>
                  (i.doc = e /\ i.label = held[e]) \/ Answering(e)

\* No document is missing but one that an answer will show
Covered ==
    complete => \A d \in Docs \ restored :
        /\ at[d] \in Slots => (Saved(slots[at[d]]) /\ slots[at[d]].doc = d) \/ Answering(d)
        /\ at[d] = "unassigned" => unassigned[d] # Nothing \/ Answering(d)

OpenShown == active # Nothing => slots[active] # Nothing

Calm == Apart /\ Placed /\ Carried /\ Shows /\ Hydrating /\ Refreshing /\ Covered /\ OpenShown
Undisturbed == ~disturbed => Calm

\* Nothing is shown and nothing asked at first
LEMMA UndisturbedInit == Init => Undisturbed
  <1> SUFFICES ASSUME Init PROVE Calm
    BY DEF Undisturbed
  <1>1. Apart /\ Placed /\ Carried
    BY DEF Init, Apart, Placed, Carried
  <1>2. Shows /\ OpenShown
    BY DEF Init, Shows, OpenShown
  <1>3. Hydrating /\ Refreshing
    BY DEF Init, Hydrating, Refreshing
  <1>4. Covered
    BY DEF Init, Covered
  <1> QED BY <1>1, <1>2, <1>3, <1>4 DEF Calm

\* A card is a saved entry
LEMMA CardFits ==
  ASSUME Inv, NEW d \in Docs
  PROVE  Card(d) \in Entry /\ Card(d) # Nothing /\ Saved(Card(d)) /\ Card(d).doc = d
  <1>1. held[d] \in 0..MaxFiles /\ d # Nothing
    BY DEF Inv, TypeOK, Docs
  <1>2. Card(d) \in Entry
    BY <1>1 DEF Card, Entry
  <1>3. Card(d) # Nothing
    BY <1>2, NothingIsNoRecord
  <1> QED BY <1>1, <1>2, <1>3 DEF Card, Saved

\* The types of the parts of a request
LEMMA RequestFits ==
  ASSUME Inv, NEW r \in requests
  PROVE  /\ r.kind \in Kinds /\ r.doc \in Docs \cup {Nothing}
         /\ r.slot \in Slots \cup {Nothing} /\ r.to \in Slots \cup {"elsewhere", Nothing}
         /\ r.entry \in Entry \cup {Nothing} /\ r.opened \in Slots \cup {Nothing}
         /\ r.file \in 0..MaxFiles /\ r.served \in BOOLEAN /\ Formed(r) /\ r \in Request
  BY DEF Inv, TypeOK, Request

\* The order of the two does not matter
LEMMA ClashesBothWays ==
  ASSUME NEW q, NEW r, Clashes(q, r)
  PROVE  Clashes(r, q)
  BY DEF Clashes, Concerns

\* A saved slot that no request is about shows its document
LEMMA SlotShows ==
  ASSUME Inv, Calm, NEW s \in Slots, Saved(slots[s]),
         \A r \in requests : ~(r.slot = s /\ r.doc = slots[s].doc)
  PROVE  slots[s] = Card(slots[s].doc) /\ at[slots[s].doc] = s /\ slots[s].doc \in Docs
  BY DEF Saved, Calm, Shows, Slotted, Served, Inv, TypeOK, Entry

-----------------------------------------------------------------------------
(* The user *)

\* A request that clashes with none is sent about a document that is where it
\* says
LEMMA SendKeeps ==
  ASSUME Inv, Calm, ~disturbed',
         NEW kind \in Kinds, NEW d \in Docs \cup {Nothing}, NEW s \in Slots \cup {Nothing},
         NEW t \in Slots \cup {"elsewhere", Nothing}, NEW entry \in Entry \cup {Nothing}, NEW file,
         Send(kind, d, s, t, entry, file), UNCHANGED board,
         LET q == Asking(kind, d, s, t, entry, file)
         IN  (\A r \in requests : ~Clashes(q, r)) =>
                /\ d # Nothing => d \in made /\ at[d] = Source(q)
                /\ entry # Nothing => entry = Card(d)
                /\ (Leaves(q) /\ s # Nothing) => slots[s] = Card(d)
  PROVE  Calm'
  <1> DEFINE q == Asking(kind, d, s, t, entry, file)
  <1>1. /\ requests' = requests \cup {q} /\ hydration = Nothing
        /\ \A r \in requests : ~Clashes(q, r)
    BY DEF Send, Asking
  <1>2. UNCHANGED <<at, from, held, made, slots, unassigned, trash, active, opening, hydration,
                    refresh, restored, complete>>
    BY DEF Send, server, board, lists
  <1>3. /\ d # Nothing => d \in made /\ at[d] = Source(q)
        /\ entry # Nothing => entry = Card(d)
        /\ (Leaves(q) /\ s # Nothing) => slots[s] = Card(d)
    BY <1>1
  <1>4. /\ q.doc = d /\ q.slot = s /\ q.entry = entry /\ q.served = FALSE /\ q.kind = kind
        /\ q.opened = active
    BY DEF Asking
  <1> HIDE DEF q
  <1>5. Served' = Served
    BY <1>1, <1>4 DEF Served
  <1>6. Apart'
    <2>1. \A r \in requests : ~Clashes(r, q)
      BY <1>1, ClashesBothWays
    <2> QED BY <1>1, <2>1 DEF Apart, Calm
  <1>7. Placed'
    BY <1>1, <1>2, <1>3, <1>4 DEF Placed, Calm, Source, Target
  <1>8. Carried'
    BY <1>1, <1>2, <1>3, <1>4 DEF Carried, Calm, Card
  <1>9. Shows'
    BY <1>2, <1>5 DEF Shows, Calm, Slotted, Corrected, Card
  <1>10. Refreshing'
    BY <1>2, <1>5 DEF Refreshing, Calm, Uploading, Answering, Saved
  <1>11. Covered'
    BY <1>2, <1>5 DEF Covered, Calm, Answering, Saved
  <1>12. Hydrating' /\ OpenShown'
    BY <1>1, <1>2 DEF Hydrating, OpenShown, Calm
  <1> QED BY <1>6, <1>7, <1>8, <1>9, <1>10, <1>11, <1>12 DEF Calm

\* Each click finds its document where the board shows it
LEMMA UserKeeps ==
  ASSUME Inv, Calm, ~disturbed', User
  PROVE  Calm'
  <1>1. ASSUME NEW s \in Slots, Saved(slots[s]), NEW q, q.slot = s \/ q.doc = slots[s].doc,
               \A r \in requests : ~Clashes(q, r)
        PROVE  slots[s] = Card(slots[s].doc) /\ at[slots[s].doc] = s /\ slots[s].doc \in made
    <2>1. \A r \in requests : ~(r.slot = s /\ r.doc = slots[s].doc)
      BY <1>1 DEF Clashes, Concerns, Saved
    <2> QED BY <1>1, <2>1, SlotShows DEF Inv, Occupied
  <1>2. ASSUME NEW d \in Docs, NEW q, q.doc = d, \A r \in requests : ~Clashes(q, r)
        PROVE  /\ unassigned[d] # Nothing => unassigned[d] = Card(d) /\ at[d] = "unassigned"
               /\ trash[d] # Nothing => at[d] = "trash"
               /\ at[d] # Nothing => d \in made
    <2>1. \A r \in requests : r.doc # d
      BY <1>2 DEF Clashes, Docs
    <2> QED BY <2>1 DEF Calm, Shows, Corrected, Served, Inv, Occupied
  <1>3. ASSUME NEW s \in Slots, ClearSlot(s) PROVE Calm'
    <2> DEFINE q == Asking("detach", slots[s].doc, s, Nothing, slots[s], 0)
    <2>1. /\ Saved(slots[s]) /\ slots[s] \in Entry /\ slots[s].doc \in Docs
          /\ Send("detach", slots[s].doc, s, Nothing, slots[s], 0) /\ UNCHANGED board
      BY <1>3 DEF ClearSlot, Saved, Inv, TypeOK, Entry
    <2>2. q.slot = s /\ q.kind = "detach" /\ Source(q) = s
      BY DEF Asking, Source, OfTrash
    <2> HIDE DEF q
    <2>3. (\A r \in requests : ~Clashes(q, r)) =>
             slots[s].doc \in made /\ at[slots[s].doc] = Source(q) /\ slots[s] = Card(slots[s].doc)
      BY <1>1, <2>1, <2>2
    <2> QED BY <2>1, <2>3, SendKeeps DEF Kinds, q
  <1>4. ASSUME NEW s \in Slots, ClearUnsaved(s) PROVE Calm'
    <2>1. /\ slots[s] # Nothing /\ ~Saved(slots[s]) /\ slots' = [slots EXCEPT ![s] = Nothing]
          /\ active' = (IF active = s THEN Nothing ELSE active)
          /\ UNCHANGED <<at, from, held, made, unassigned, trash, opening, requests, hydration,
                         refresh, restored, complete>>
      BY <1>4 DEF ClearUnsaved, server, lists, history
    <2>2. \A x \in Slots : slots'[x] = IF x = s THEN Nothing ELSE slots[x]
      BY <2>1 DEF Inv, TypeOK
    <2>3. \A x \in Slots : Saved(slots[x]) => slots'[x] = slots[x]
      BY <2>1, <2>2
    <2>4. Served' = Served
      BY <2>1 DEF Served
    <2>5. Apart' /\ Placed' /\ Hydrating'
      BY <2>1 DEF Calm, Apart, Placed, Source, Target, Hydrating, Items
    <2>6. Carried'
      <3> SUFFICES ASSUME NEW r \in requests, Leaves(r), r.slot # Nothing
                   PROVE  slots'[r.slot] = slots[r.slot] /\ (active' = r.slot => active = r.slot)
        BY <2>1 DEF Calm, Carried, Card
      <3>1. r.slot \in Slots /\ r.doc \in Docs
        BY RequestFits DEF Leaves, Formed
      <3>2. Saved(slots[r.slot])
        BY <3>1, CardFits DEF Calm, Carried
      <3> QED BY <2>1, <2>3, <3>1, <3>2
    <2>7. Shows'
      BY <2>1, <2>2, <2>4 DEF Calm, Shows, Slotted, Corrected, Card
    <2>8. Refreshing'
      <3>1. \A x \in Slots : Saved(slots'[x]) => slots'[x] = slots[x]
        BY <2>2 DEF Saved
      <3> QED BY <2>1, <2>4, <3>1 DEF Calm, Refreshing, Uploading, Answering, Saved
    <2>9. Covered'
      BY <2>1, <2>3, <2>4 DEF Calm, Covered, Answering, Saved
    <2>10. OpenShown'
      BY <2>1, <2>2 DEF Calm, OpenShown, Inv, TypeOK
    <2> QED BY <2>5, <2>6, <2>7, <2>8, <2>9, <2>10 DEF Calm
  <1>5. ASSUME NEW s \in Slots, UploadTo(s) PROVE Calm'
    <2> DEFINE d == IF slots[s] # Nothing THEN slots[s].doc ELSE Nothing
               q == Asking("upload", d, s, Nothing, Nothing, files + 1)
    <2>1. d \in Docs \cup {Nothing} /\ (d # Nothing => Saved(slots[s]) /\ d = slots[s].doc)
      BY DEF Saved, Calm, Shows, Inv, TypeOK, Entry
    <2>2. /\ Send("upload", d, s, Nothing, Nothing, files + 1) /\ UNCHANGED board
      BY <1>5 DEF UploadTo
    <2>3. q.slot = s /\ q.kind = "upload" /\ Source(q) = s
      BY DEF Asking, Source, OfTrash
    <2> HIDE DEF q, d
    <2>4. (\A r \in requests : ~Clashes(q, r)) => (d # Nothing => d \in made /\ at[d] = Source(q))
      BY <1>1, <2>1, <2>3
    <2>5. ~Leaves(q)
      BY <2>3 DEF Leaves
    <2> QED BY <2>1, <2>2, <2>4, <2>5, SendKeeps DEF Kinds, q
  <1>6. ASSUME NEW s \in Slots, OpenSlot(s) PROVE Calm'
    <2>1. UNCHANGED <<at, from, held, made, slots, unassigned, trash, active, requests, hydration,
                      refresh, restored, complete>>
      BY <1>6 DEF OpenSlot, server, lists, history
    <2>2. Apart' /\ Placed' /\ Carried' /\ Served' = Served /\ Hydrating' /\ OpenShown'
      <3>1. Apart' /\ Served' = Served
        BY <2>1 DEF Calm, Apart, Served
      <3>2. Placed' /\ Carried'
        BY <2>1 DEF Calm, Placed, Carried, Source, Target, Card
      <3>3. Hydrating' /\ OpenShown'
        BY <2>1 DEF Calm, Hydrating, Items, OpenShown
      <3> QED BY <3>1, <3>2, <3>3
    <2>3. Shows'
      BY <2>1, <2>2 DEF Calm, Shows, Slotted, Corrected, Card
    <2>4. Refreshing' /\ Covered'
      BY <2>1, <2>2 DEF Calm, Refreshing, Covered, Uploading, Answering, Saved
    <2> QED BY <2>2, <2>3, <2>4 DEF Calm
  <1>7. ASSUME NEW d \in Docs, Delete(d) PROVE Calm'
    <2>1. CASE unassigned[d] # Nothing /\ Send("delete", d, Nothing, Nothing, Nothing, 0)
      <3> DEFINE q == Asking("delete", d, Nothing, Nothing, Nothing, 0)
      <3>1. q.doc = d /\ Source(q) = "unassigned"
        BY DEF Asking, Source, OfTrash
      <3> HIDE DEF q
      <3>2. (\A r \in requests : ~Clashes(q, r)) => d \in made /\ at[d] = Source(q)
        BY <1>2, <2>1, <3>1
      <3> QED BY <1>7, <2>1, <3>2, SendKeeps DEF Kinds, Delete, q
    <2>2. ASSUME NEW s \in Slots, slots[s] # Nothing, slots[s].doc = d,
                 Send("delete", d, s, Nothing, Nothing, 0)
          PROVE  Calm'
      <3> DEFINE q == Asking("delete", d, s, Nothing, Nothing, 0)
      <3>1. q.slot = s /\ Source(q) = s
        BY DEF Asking, Source, OfTrash
      <3> HIDE DEF q
      <3>2. Saved(slots[s])
        BY <2>2 DEF Saved, Calm, Shows, Docs
      <3>3. (\A r \in requests : ~Clashes(q, r)) =>
               d \in made /\ at[d] = Source(q) /\ slots[s] = Card(d)
        BY <1>1, <2>2, <3>1, <3>2
      <3> QED BY <1>7, <2>2, <3>3, SendKeeps DEF Kinds, Delete, q
    <2> QED BY <1>7, <2>1, <2>2 DEF Delete
  <1>8. ASSUME NEW k \in {"purge", "restore"}, NEW d \in Docs, FromTrash(k, d) PROVE Calm'
    <2> DEFINE q == Asking(k, d, Nothing, Nothing, Nothing, 0)
    <2>1. q.doc = d /\ Source(q) = "trash"
      BY DEF Asking, Source, OfTrash
    <2>2. /\ trash[d] # Nothing /\ Send(k, d, Nothing, Nothing, Nothing, 0) /\ UNCHANGED board
          /\ k \in Kinds
      BY <1>8 DEF FromTrash, Kinds
    <2> HIDE DEF q
    <2>3. (\A r \in requests : ~Clashes(q, r)) => d \in made /\ at[d] = Source(q)
      BY <1>2, <2>1, <2>2
    <2> QED BY <2>2, <2>3, SendKeeps DEF q
  <1>9. ASSUME NEW d \in Docs, NEW s \in Slots, Assign(d, s) PROVE Calm'
    <2> DEFINE q == Asking("move", d, Nothing, s, unassigned[d], 0)
    <2>1. q.doc = d /\ Source(q) = "unassigned"
      BY DEF Asking, Source, OfTrash
    <2>2. /\ unassigned[d] # Nothing /\ unassigned[d] \in Entry
          /\ Send("move", d, Nothing, s, unassigned[d], 0) /\ UNCHANGED board
      BY <1>9 DEF Assign, Inv, TypeOK
    <2> HIDE DEF q
    <2>3. (\A r \in requests : ~Clashes(q, r)) =>
             d \in made /\ at[d] = Source(q) /\ unassigned[d] = Card(d)
      BY <1>2, <2>1, <2>2
    <2> QED BY <2>2, <2>3, SendKeeps DEF Kinds, q
  <1>10. ASSUME NEW s \in Slots, NEW t \in Slots \cup {"elsewhere"}, RelocateDoc(s, t) PROVE Calm'
    <2> DEFINE q == Asking("move", slots[s].doc, s, t, Nothing, 0)
    <2>1. q.slot = s /\ Source(q) = s
      BY DEF Asking, Source, OfTrash
    <2>2. /\ Saved(slots[s]) /\ slots[s].doc \in Docs
          /\ Send("move", slots[s].doc, s, t, Nothing, 0) /\ UNCHANGED board
      BY <1>10 DEF RelocateDoc, Saved, Inv, TypeOK, Entry
    <2> HIDE DEF q
    <2>3. (\A r \in requests : ~Clashes(q, r)) =>
             slots[s].doc \in made /\ at[slots[s].doc] = Source(q) /\ slots[s] = Card(slots[s].doc)
      BY <1>1, <2>1, <2>2
    <2> QED BY <2>2, <2>3, SendKeeps DEF Kinds, q
  <1>11. CASE Hydrate
    <2>1. /\ hydration' = [items |-> {}, listed |-> FALSE] /\ requests = {}
          /\ UNCHANGED <<at, from, held, made, slots, unassigned, trash, active, opening, requests,
                         refresh, restored, complete>>
      BY <1>11 DEF Hydrate, server, board
    <2>2. Apart' /\ Placed' /\ Carried' /\ Served' = Served /\ Hydrating' /\ OpenShown'
      BY <2>1 DEF Calm, Apart, Placed, Carried, Hydrating, OpenShown, Served
    <2>3. Shows'
      BY <2>1, <2>2 DEF Calm, Shows, Slotted, Corrected, Card
    <2>4. Refreshing' /\ Covered'
      BY <2>1, <2>2 DEF Calm, Refreshing, Covered, Uploading, Answering, Saved
    <2> QED BY <2>2, <2>3, <2>4 DEF Calm
  <1> QED BY <1>3, <1>4, <1>5, <1>6, <1>7, <1>8, <1>9, <1>10, <1>11 DEF User

\* The slot that becomes the active one shows a document, which no request takes
LEMMA ActivateKeeps ==
  ASSUME Inv, Calm, ~disturbed', NEW s \in Slots, Activate(s)
  PROVE  Calm'
  <1>1. /\ active' = s /\ slots[s] # Nothing /\ \A r \in requests : ~Concerns(r, s)
        /\ UNCHANGED <<at, from, held, made, slots, unassigned, trash, requests, hydration,
                       refresh, restored, complete>>
    BY DEF Activate, server, lists
  <1>2. \A r \in requests : r.slot # s
    BY <1>1 DEF Concerns
  <1>3. Apart' /\ Placed' /\ Served' = Served /\ Hydrating' /\ OpenShown'
    BY <1>1 DEF Calm, Apart, Placed, Source, Target, Hydrating, Items, OpenShown, Served
  <1>4. Carried'
    BY <1>1, <1>2 DEF Calm, Carried, Card
  <1>5. Shows'
    BY <1>1, <1>3 DEF Calm, Shows, Slotted, Corrected, Card
  <1>6. Refreshing' /\ Covered'
    BY <1>1, <1>3 DEF Calm, Refreshing, Covered, Uploading, Answering, Saved
  <1> QED BY <1>3, <1>4, <1>5, <1>6 DEF Calm

-----------------------------------------------------------------------------
(* The server *)

\* No other request is about the document that is moved or filed
LEMMA OthersElsewhere ==
  ASSUME Inv, Calm, NEW r \in requests, ~r.served, NEW d \in Docs, NEW p \in Places,
         Puts(r, d, p), NEW q \in requests, q # r
  PROVE  q.doc # d
  <1>1. ~Clashes(q, r)
    BY DEF Calm, Apart
  <1>2. CASE r.kind # "upload"
    BY <1>1, <1>2 DEF Puts, Clashes, Docs
  <1>3. CASE r.kind = "upload"
    <2>1. SUFFICES ASSUME q.doc = d PROVE FALSE
      OBVIOUS
    <2>2. q.doc \in made /\ at[d] = r.slot /\ r.slot \in Slots
      BY <1>3, <2>1 DEF Puts, Calm, Placed, Docs, Inv, Formed
    <2>3. CASE ~q.served
      <3>1. Source(q) = r.slot
        BY <2>1, <2>2, <2>3 DEF Calm, Placed, Docs
      <3>2. q.slot = r.slot
        BY <2>2, <3>1 DEF Source
      <3> QED BY <1>1, <2>2, <3>2 DEF Clashes, Concerns
    <2>4. CASE q.served
      <3>1. q.kind # "restore"
        BY <1>1 DEF Clashes
      <3>2. Target(q) = r.slot
        BY <2>1, <2>2, <2>4, <3>1 DEF Calm, Placed
      <3>3. q.kind \in Kinds
        BY RequestFits
      <3>4. q.slot = r.slot \/ q.to = r.slot
        BY <2>2, <3>1, <3>2, <3>3 DEF Target, Kinds
      <3> QED BY <1>1, <2>2, <3>4 DEF Clashes, Concerns
    <2> QED BY <2>3, <2>4
  <1> QED BY <1>2, <1>3

\* A request that is served moves its document to where the answer will show it
LEMMA PutsKeeps ==
  ASSUME Inv, Calm, NEW r \in requests, ~r.served, NEW d \in Docs, NEW p \in Places,
         Puts(r, d, p), Inv'
  PROVE  Calm'
  <1> DEFINE a == Replied(r, d)
  <1>1. /\ a.doc = d /\ a.served = TRUE /\ a.kind = r.kind /\ a.slot = r.slot /\ a.to = r.to
        /\ a.entry = r.entry /\ a.opened = r.opened /\ a.file = r.file
    BY RequestFits DEF Replied, Request
  <1>2. /\ requests' = (requests \ {r}) \cup {a}
        /\ UNCHANGED <<slots, unassigned, trash, active, opening, hydration, refresh, restored,
                       complete>>
    BY DEF Puts
  <1>3. at'[d] = p /\ \A e \in Docs : e # d => at'[e] = at[e] /\ held'[e] = held[e]
    BY DEF Puts, Inv, TypeOK
  <1>4. r.kind # "upload" => held' = held /\ r.doc = d /\ at[d] = Source(r)
    BY DEF Puts, Calm, Placed, Docs
  <1>5. r.kind = "upload" => /\ held'[d] = r.file /\ p = r.slot /\ r.slot \in Slots
                             /\ at[d] = r.slot \/ (d \notin made /\ at[d] = Nothing)
    BY DEF Puts, Target, Inv, TypeOK, Occupied, Formed
  <1>6. \A q \in requests : q # r => q.doc # d /\ ~Clashes(q, r)
    BY OthersElsewhere DEF Calm, Apart
  <1>7. Served' = Served \cup {a}
    BY <1>1, <1>2 DEF Served
  <1>8. made \subseteq made' /\ d \in made'
    BY DEF Puts, Inv, Occupied
  <1>9. /\ r.slot \in Slots \cup {Nothing} /\ r.kind \in Kinds /\ Formed(r)
        /\ r.to \in Slots \cup {"elsewhere", Nothing}
    BY RequestFits
  <1> HIDE DEF a
  <1>10. \A e \in Docs : e # d => Card(e)' = Card(e)
    BY <1>3 DEF Card
  <1>11. r.kind # "upload" => Card(d)' = Card(d)
    BY <1>4 DEF Card
  <1>12. Apart'
    <2>1. ASSUME NEW q \in requests, q # r PROVE ~Clashes(q, a) /\ ~Clashes(a, q)
      <3>1. ~Clashes(q, a)
        BY <1>1, <1>6, <2>1 DEF Clashes, Concerns
      <3> QED BY <3>1, ClashesBothWays
    <2> QED BY <1>2, <2>1 DEF Apart, Calm
  <1>13. Placed'
    <2>1. ASSUME NEW q \in requests, q # r
          PROVE  /\ q.doc # Nothing => q.doc \in made' /\ (~q.served => at'[q.doc] = Source(q))
                 /\ q.served => /\ q.kind # "restore" => at'[q.doc] = Target(q)
                                /\ q.kind = "upload" => held'[q.doc] = q.file
      <3>1. q.doc # d /\ Formed(q) /\ q.doc \in Docs \cup {Nothing}
        BY <1>6, <2>1, RequestFits
      <3>2. q.served => q.doc \in Docs
        BY <3>1 DEF Formed
      <3> QED BY <1>3, <1>8, <2>1, <3>1, <3>2 DEF Calm, Placed
    <2>2. a.kind # "restore" => at'[a.doc] = Target(a)
      BY <1>1, <1>3 DEF Puts, Target
    <2>3. a.kind = "upload" => held'[a.doc] = a.file
      BY <1>1, <1>5
    <2> QED BY <1>1, <1>2, <1>8, <2>1, <2>2, <2>3 DEF Placed, Source, Target
  <1>14. Carried'
    <2>1. ASSUME NEW q \in requests, q # r
          PROVE  /\ q.entry # Nothing => q.entry = Card(q.doc)'
                 /\ (Leaves(q) /\ q.slot # Nothing) =>
                       /\ slots[q.slot] = Card(q.doc)'
                       /\ q.served => \A e \in Docs : at'[e] # q.slot
                       /\ active = q.slot => q.opened = q.slot
      <3>1. q.doc # d /\ ~Clashes(q, r) /\ Formed(q) /\ q.doc \in Docs \cup {Nothing}
        BY <1>6, <2>1, RequestFits
      <3>2. q.entry # Nothing \/ Leaves(q) => q.doc \in Docs
        BY <3>1 DEF Formed, Leaves
      <3>3. ASSUME q.slot # Nothing PROVE p # q.slot
        <4>1. q.slot \in Slots
          BY <3>3, RequestFits
        <4>2. r.kind # "restore" /\ q.slot # r.slot /\ q.slot # r.to
          BY <3>1, <3>3 DEF Clashes, Concerns
        <4> QED BY <4>1, <4>2, <1>9 DEF Puts, Target, Kinds
      <3>4. \A e \in Docs : q.slot # Nothing /\ at[e] # q.slot => at'[e] # q.slot
        BY <1>3, <3>3
      <3> QED BY <1>10, <2>1, <3>1, <3>2, <3>4 DEF Calm, Carried
    <2>2. r.entry # Nothing => r.entry = Card(d)'
      BY <1>4, <1>9, <1>11 DEF Calm, Carried, Formed
    <2>3. ASSUME Leaves(r), r.slot # Nothing
          PROVE  /\ slots[r.slot] = Card(d)' /\ (active = r.slot => r.opened = r.slot)
                 /\ \A e \in Docs : at'[e] # r.slot
      <3>1. r.kind # "upload" /\ r.doc = d /\ r.slot \in Slots
        BY <1>4, <1>9, <2>3 DEF Leaves
      <3>2. at[d] = r.slot
        BY <1>4, <2>3, <3>1 DEF Source, OfTrash, Leaves
      <3>3. p # r.slot
        BY <1>9, <2>3, <3>1 DEF Puts, Target, Leaves, Formed
      <3>4. \A e \in Docs : e # d => at[e] # r.slot
        BY <3>1, <3>2 DEF Inv, Occupied
      <3> QED BY <1>3, <1>11, <2>3, <3>1, <3>3, <3>4 DEF Calm, Carried
    <2> QED BY <1>1, <1>2, <2>1, <2>2, <2>3 DEF Carried, Leaves
  <1>15. Shows'
    <2>1. ASSUME NEW s \in Slots, slots[s] # Nothing, slots[s].persisted, Slotted(s)
          PROVE  Slotted(s)'
      <3>1. CASE \E q \in Served : q.slot = s /\ q.doc = slots[s].doc
        BY <1>2, <1>7, <3>1 DEF Slotted
      <3>2. CASE slots[s] = Card(slots[s].doc) /\ at[slots[s].doc] = s /\ slots[s].doc # d
        <4>1. slots[s].doc \in Docs
          BY <2>1 DEF Calm, Shows, Inv, TypeOK, Entry
        <4> QED BY <1>2, <1>3, <1>10, <3>2, <4>1 DEF Slotted
      <3>3. CASE at[slots[s].doc] = s /\ slots[s].doc = d
        <4>1. r.slot = s
          <5>1. CASE r.kind = "upload"
            BY <1>5, <3>3, <5>1
          <5>2. CASE r.kind # "upload"
            BY <1>4, <3>3, <5>2 DEF Source
          <5> QED BY <5>1, <5>2
        <4> QED BY <1>1, <1>2, <1>7, <3>3, <4>1 DEF Slotted
      <3> QED BY <2>1, <3>1, <3>2, <3>3 DEF Slotted
    <2>2. ASSUME NEW e \in Docs, unassigned[e] # Nothing
          PROVE  /\ unassigned[e] = Card(e)'
                 /\ at'[e] = "unassigned" \/ Corrected(e, {"delete", "move"})'
      <3>1. unassigned[e] = Card(e) /\ (at[e] = "unassigned" \/ Corrected(e, {"delete", "move"}))
        BY <2>2 DEF Calm, Shows
      <3>2. CASE e # d
        BY <1>3, <1>7, <1>10, <3>1, <3>2 DEF Corrected
      <3>3. CASE e = d
        <4>1. ~Corrected(d, {"delete", "move"})
          BY <1>6 DEF Corrected, Served
        <4>2. at[d] = "unassigned"
          BY <3>1, <3>3, <4>1
        <4>3. r.kind # "upload" /\ r.slot = Nothing /\ r.kind \notin {"purge", "restore"}
          BY <1>4, <1>5, <1>9, <4>2 DEF Source, OfTrash
        <4>4. r.kind \in {"delete", "move"}
          BY <1>9, <4>3 DEF Kinds, Formed
        <4> QED BY <1>1, <1>7, <1>11, <3>1, <3>3, <4>3, <4>4 DEF Corrected
      <3> QED BY <3>2, <3>3
    <2>3. ASSUME NEW e \in Docs, trash[e] # Nothing
          PROVE  at'[e] = "trash" \/ Corrected(e, {"purge", "restore"})'
      <3>1. at[e] = "trash" \/ Corrected(e, {"purge", "restore"})
        BY <2>3 DEF Calm, Shows
      <3>2. CASE e # d
        BY <1>3, <1>7, <3>1, <3>2 DEF Corrected
      <3>3. CASE e = d
        <4>1. ~Corrected(d, {"purge", "restore"})
          BY <1>6 DEF Corrected, Served
        <4>2. at[d] = "trash"
          BY <3>1, <3>3, <4>1
        <4>3. r.kind # "upload" /\ OfTrash(r)
          BY <1>4, <1>5, <1>9, <4>2 DEF Source
        <4> QED BY <1>1, <1>7, <1>9, <3>3, <4>3 DEF Corrected, OfTrash, Formed
      <3> QED BY <3>2, <3>3
    <2> QED BY <1>2, <2>1, <2>2, <2>3 DEF Calm, Shows
  <1>16. Hydrating'
    BY <1>2 DEF Calm, Hydrating
  <1>17. Refreshing'
    <2> SUFFICES ASSUME refresh # Nothing, refresh.listed, NEW i \in refresh.items, i.at \in Slots
                 PROVE  /\ Saved(slots[i.at]) => /\ i.doc = slots[i.at].doc
                                                 /\ i.label = held'[i.doc] \/ Uploading(i.doc)'
                        /\ \A e \in Docs : at'[e] = i.at =>
                              (i.doc = e /\ i.label = held'[e]) \/ Answering(e)'
      BY <1>2 DEF Refreshing
    <2>0. i.doc \in Docs
      BY DEF Inv, TypeOK, List, Item
    <2>1. ASSUME Saved(slots[i.at])
          PROVE  i.doc = slots[i.at].doc /\ (i.label = held'[i.doc] \/ Uploading(i.doc)')
      <3>1. i.doc = slots[i.at].doc /\ (i.label = held[i.doc] \/ Uploading(i.doc))
        BY <2>1 DEF Calm, Refreshing
      <3>2. Uploading(i.doc) => Uploading(i.doc)'
        BY <1>7 DEF Uploading
      <3>3. CASE i.doc # d
        BY <1>3, <2>0, <3>1, <3>2, <3>3
      <3>4. CASE i.doc = d /\ r.kind = "upload"
        BY <1>1, <1>7, <3>1, <3>4 DEF Uploading
      <3>5. CASE i.doc = d /\ r.kind # "upload"
        BY <1>4, <3>1, <3>2, <3>5
      <3> QED BY <3>3, <3>4, <3>5
    <2>2. ASSUME NEW e \in Docs, at'[e] = i.at
          PROVE  (i.doc = e /\ i.label = held'[e]) \/ Answering(e)'
      <3>1. CASE e = d
        BY <1>1, <1>7, <3>1 DEF Answering
      <3>2. CASE e # d
        BY <1>3, <1>7, <2>2, <3>2 DEF Calm, Refreshing, Answering
      <3> QED BY <3>1, <3>2
    <2> QED BY <2>1, <2>2
  <1>18. Covered'
    <2>1. Answering(d)'
      BY <1>1, <1>7 DEF Answering
    <2>2. \A e \in Docs : Answering(e) => Answering(e)'
      BY <1>7 DEF Answering
    <2> QED BY <1>2, <1>3, <2>1, <2>2 DEF Calm, Covered, Saved
  <1>19. OpenShown'
    BY <1>2 DEF Calm, OpenShown
  <1> QED BY <1>12, <1>13, <1>14, <1>15, <1>16, <1>17, <1>18, <1>19 DEF Calm

-----------------------------------------------------------------------------
(* The answers *)

\* What an answer has to do on the board for the request r to be forgotten
SlotsAnswered(r) ==
    \A s \in Slots :
        slots'[s] # Nothing =>
            \/ slots'[s] = slots[s] /\ ~(r.slot = s /\ r.doc = slots[s].doc)
            \/ \E d \in Docs : slots'[s] = Card(d) /\ at[d] = s

ListsAnswered(r) ==
    \A d \in Docs :
        /\ unassigned'[d] # Nothing =>
              \/ /\ unassigned'[d] = unassigned[d]
                 /\ ~(r.slot = Nothing /\ r.doc = d /\ r.kind \in {"delete", "move"})
              \/ unassigned'[d] = Card(d) /\ at[d] = "unassigned"
        /\ trash'[d] # Nothing => /\ trash'[d] = trash[d]
                                  /\ ~(r.slot = Nothing /\ r.doc = d /\ OfTrash(r))

\* Nothing else is lost, and the document of r is not lost either
CoverAnswered(r) ==
    /\ complete' = complete /\ restored \subseteq restored'
    /\ r.doc \notin restored' =>
          /\ at[r.doc] \in Slots => slots'[at[r.doc]] = Card(r.doc)
          /\ at[r.doc] = "unassigned" => unassigned'[r.doc] # Nothing
    /\ \A d \in Docs \ {r.doc} :
          /\ (at[d] \in Slots /\ Saved(slots[at[d]]) /\ slots[at[d]].doc = d) =>
                slots'[at[d]] = slots[at[d]]
          /\ unassigned[d] # Nothing => unassigned'[d] # Nothing

\* Other requests that take a document from a slot still can
LeavingAnswered(r) ==
    \A q \in requests \ {r} : (Leaves(q) /\ q.slot # Nothing) =>
        slots'[q.slot] = slots[q.slot] /\ (active' = q.slot => active = q.slot)

\* An answer that does all this makes up for what the request had changed
LEMMA AnsweredKeeps ==
  ASSUME Inv, Calm, NEW r \in requests, r.served, requests' = requests \ {r},
         UNCHANGED <<at, from, held, made, hydration>>,
         SlotsAnswered(r), ListsAnswered(r), CoverAnswered(r), LeavingAnswered(r),
         Refreshing', OpenShown'
  PROVE  Calm'
  <1>1. Served' = Served \ {r}
    BY DEF Served
  <1>2. Apart' /\ Placed' /\ Hydrating'
    BY DEF Calm, Apart, Placed, Source, Target, Hydrating, Items
  <1>3. Carried'
    BY DEF Calm, Carried, Card, LeavingAnswered
  <1>4. \A d \in Docs : Card(d)' = Card(d)
    BY DEF Card
  <1>5. Shows'
    <2>1. ASSUME NEW s \in Slots, slots'[s] # Nothing
          PROVE  /\ slots'[s].persisted <=> slots'[s].doc # Nothing
                 /\ slots'[s].persisted => Slotted(s)'
      <3>1. CASE slots'[s] = slots[s] /\ ~(r.slot = s /\ r.doc = slots[s].doc)
        <4>1. /\ slots[s].persisted <=> slots[s].doc # Nothing
              /\ slots[s].persisted => Slotted(s)
          BY <2>1, <3>1 DEF Calm, Shows
        <4>2. Slotted(s) => Slotted(s)'
          BY <1>1, <3>1 DEF Slotted, Card
        <4> QED BY <3>1, <4>1, <4>2
      <3>2. ASSUME NEW d \in Docs, slots'[s] = Card(d), at[d] = s
            PROVE  /\ slots'[s].persisted <=> slots'[s].doc # Nothing
                   /\ slots'[s].persisted => Slotted(s)'
        <4>1. slots'[s].doc = d /\ slots'[s].persisted /\ d # Nothing
          BY <3>2, CardFits DEF Saved
        <4>2. Slotted(s)'
          BY <1>4, <3>2, <4>1 DEF Slotted
        <4> QED BY <4>1, <4>2
      <3> QED BY <2>1, <3>1, <3>2 DEF SlotsAnswered
    <2>2. ASSUME NEW d \in Docs, unassigned'[d] # Nothing
          PROVE  /\ unassigned'[d] = Card(d)
                 /\ at[d] = "unassigned" \/ Corrected(d, {"delete", "move"})'
      <3>1. CASE unassigned'[d] = Card(d) /\ at[d] = "unassigned"
        BY <3>1
      <3>2. CASE /\ unassigned'[d] = unassigned[d]
                 /\ ~(r.slot = Nothing /\ r.doc = d /\ r.kind \in {"delete", "move"})
        <4>1. /\ unassigned[d] = Card(d)
              /\ at[d] = "unassigned" \/ Corrected(d, {"delete", "move"})
          BY <2>2, <3>2 DEF Calm, Shows
        <4>2. Corrected(d, {"delete", "move"}) => Corrected(d, {"delete", "move"})'
          BY <1>1, <3>2 DEF Corrected
        <4> QED BY <3>2, <4>1, <4>2
      <3> QED BY <2>2, <3>1, <3>2 DEF ListsAnswered
    <2>3. ASSUME NEW d \in Docs, trash'[d] # Nothing
          PROVE  at[d] = "trash" \/ Corrected(d, {"purge", "restore"})'
      <3>1. trash[d] # Nothing /\ ~(r.slot = Nothing /\ r.doc = d /\ OfTrash(r))
        BY <2>3 DEF ListsAnswered
      <3>2. at[d] = "trash" \/ Corrected(d, {"purge", "restore"})
        BY <3>1 DEF Calm, Shows
      <3>3. Corrected(d, {"purge", "restore"}) => Corrected(d, {"purge", "restore"})'
        BY <1>1, <3>1 DEF Corrected, OfTrash
      <3> QED BY <3>2, <3>3
    <2> QED BY <1>4, <2>1, <2>2, <2>3 DEF Shows
  <1>6. Covered'
    <2> SUFFICES ASSUME complete', NEW d \in Docs, d \notin restored'
                 PROVE  /\ at[d] \in Slots =>
                              (Saved(slots'[at[d]]) /\ slots'[at[d]].doc = d) \/ Answering(d)'
                        /\ at[d] = "unassigned" => unassigned'[d] # Nothing \/ Answering(d)'
      BY DEF Covered, Saved
    <2>1. CASE d = r.doc
      <3>1. Saved(Card(d)) /\ Card(d).doc = d
        BY CardFits
      <3> QED BY <2>1, <3>1 DEF CoverAnswered
    <2>2. CASE d # r.doc
      <3>1. /\ at[d] \in Slots => (Saved(slots[at[d]]) /\ slots[at[d]].doc = d) \/ Answering(d)
            /\ at[d] = "unassigned" => unassigned[d] # Nothing \/ Answering(d)
        BY DEF Calm, Covered, CoverAnswered
      <3>2. Answering(d) => Answering(d)'
        BY <1>1, <2>2 DEF Answering
      <3>3. /\ (at[d] \in Slots /\ Saved(slots[at[d]]) /\ slots[at[d]].doc = d) =>
                  slots'[at[d]] = slots[at[d]]
            /\ unassigned[d] # Nothing => unassigned'[d] # Nothing
        BY <2>2 DEF CoverAnswered
      <3> QED BY <3>1, <3>2, <3>3
    <2> QED BY <2>1, <2>2
  <1> QED BY <1>2, <1>3, <1>5, <1>6 DEF Calm

\* A request that was not served is forgotten.  A file that could not be saved
\* may show, where it covers no saved document or else is remembered to
LEMMA FailedKeeps ==
  ASSUME Inv, Calm, ~disturbed', NEW r \in requests, Fails(r)
  PROVE  Calm'
  <1>1. /\ ~r.served /\ requests' = requests \ {r}
        /\ UNCHANGED <<at, from, held, made, unassigned, trash, hydration, refresh, restored>>
    BY DEF Fails, server, lists, board
  <1>2. Served' = Served
    BY <1>1 DEF Served
  <1>3. Apart' /\ Placed' /\ Hydrating'
    BY <1>1 DEF Calm, Apart, Placed, Source, Target, Hydrating, Items
  <1>4. CASE UNCHANGED <<board, complete>>
    <2>1. UNCHANGED <<slots, active, complete>>
      BY <1>4 DEF board
    <2>2. Carried' /\ OpenShown'
      BY <1>1, <2>1 DEF Calm, Carried, OpenShown, Card
    <2>3. Shows'
      BY <1>1, <1>2, <2>1 DEF Calm, Shows, Slotted, Corrected, Card
    <2>4. Refreshing' /\ Covered'
      BY <1>1, <1>2, <2>1 DEF Calm, Refreshing, Covered, Uploading, Answering, Saved
    <2> QED BY <1>3, <2>2, <2>3, <2>4 DEF Calm
  <1>5. CASE ~UNCHANGED <<board, complete>>
    <2> DEFINE u == [doc |-> Nothing, persisted |-> FALSE, file |-> r.file, label |-> 0]
    <2>1. /\ r.kind = "upload" /\ complete' = (complete /\ ~Saved(slots[r.slot]))
          /\ slots' = [slots EXCEPT ![r.slot] = u]
          /\ active' = active
      BY <1>5 DEF Fails
    <2>2. r.slot \in Slots /\ u \in Entry
      BY <2>1, RequestFits DEF Formed, Entry
    <2>3. u # Nothing /\ u.doc = Nothing /\ u.persisted = FALSE
      BY <2>2, NothingIsNoRecord
    <2>4. \A s \in Slots : slots'[s] = IF s = r.slot THEN u ELSE slots[s]
      BY <2>1 DEF Inv, TypeOK
    <2> HIDE DEF u
    <2>5. ~Saved(u)
      BY <2>3 DEF Saved
    <2>6. Carried'
      <3> SUFFICES ASSUME NEW q \in requests, q # r, Leaves(q), q.slot # Nothing
                   PROVE  slots'[q.slot] = slots[q.slot] /\ (active' = q.slot => active = q.slot)
        BY <1>1 DEF Calm, Carried, Card
      <3>1. q.slot \in Slots /\ q.slot # r.slot
        BY <2>2, RequestFits DEF Calm, Apart, Clashes, Concerns
      <3> QED BY <2>1, <2>4, <3>1
    <2>7. Shows'
      <3>1. \A s \in Slots : s # r.slot => (Slotted(s) => Slotted(s)')
        BY <1>1, <1>2, <2>4 DEF Slotted, Card
      <3>2. \A s \in Slots : slots'[s] # Nothing =>
               /\ slots'[s].persisted <=> slots'[s].doc # Nothing
               /\ slots'[s].persisted => Slotted(s)'
        BY <2>3, <2>4, <3>1 DEF Calm, Shows
      <3> QED BY <1>1, <1>2, <3>2 DEF Calm, Shows, Corrected, Card
    <2>8. Refreshing'
      <3>1. \A s \in Slots : Saved(slots'[s]) => slots'[s] = slots[s]
        BY <2>4, <2>5
      <3> QED BY <1>1, <1>2, <3>1 DEF Calm, Refreshing, Uploading, Answering, Saved
    <2>9. Covered'
      <3>1. \A s \in Slots : complete' /\ Saved(slots[s]) => complete /\ slots'[s] = slots[s]
        BY <2>1, <2>2, <2>4
      <3>2. complete' => complete
        BY <2>1
      <3> QED BY <1>1, <1>2, <3>1, <3>2 DEF Calm, Covered, Answering, Saved
    <2>10. OpenShown'
      BY <2>1, <2>2, <2>3, <2>4 DEF Calm, OpenShown, Inv, TypeOK
    <2> QED BY <1>3, <2>6, <2>7, <2>8, <2>9, <2>10 DEF Calm
  <1> QED BY <1>4, <1>5

\* Every answer does
LEMMA AnswerKeeps ==
  ASSUME Inv, Calm, ~disturbed', NEW r \in requests, Answer(r)
  PROVE  Calm'
  <1>1. ASSUME ~Fails(r) PROVE /\ r.served /\ requests' = requests \ {r}
                               /\ UNCHANGED <<at, from, held, made, hydration>>
    BY <1>1, Zenon DEF Answer, Detached, Deleted, LeftTrash, Assigned, Relocated, Uploaded, Done,
       server, lists
  <1>2. /\ r.slot \in Slots \cup {Nothing} /\ r.to \in Slots \cup {"elsewhere", Nothing}
        /\ r.doc \in Docs \cup {Nothing} /\ Formed(r)
    BY RequestFits
  <1>3. ASSUME NEW q \in requests \ {r}, Leaves(q), q.slot # Nothing
        PROVE  /\ q.slot \in Slots /\ q.slot # r.slot /\ q.slot # r.to
               /\ slots[q.slot] = Card(q.doc) /\ q.doc \in Docs /\ q.doc # r.doc
    <2>1. ~Clashes(q, r) /\ slots[q.slot] = Card(q.doc)
      BY <1>3 DEF Calm, Apart, Carried
    <2>2. q.slot \in Slots /\ q.doc \in Docs
      BY <1>3, RequestFits DEF Formed, Leaves
    <2> QED BY <1>3, <2>1, <2>2 DEF Clashes, Concerns, Docs
  <1>4. ASSUME Nonce PROVE Refreshing'
    BY <1>4 DEF Nonce, Refreshing
  <1>5. CASE Detached(r)
    <2>1. /\ r.slot \in Slots /\ r.doc \in Docs /\ r.served /\ r.entry = Card(r.doc)
          /\ at[r.doc] = "unassigned" /\ \A d \in Docs : at[d] # r.slot
          /\ active = r.slot => r.opened = r.slot
          /\ r.kind = "detach"
      BY <1>2, <1>5 DEF Detached, Done, Formed, Calm, Carried, Placed, Target, Leaves
    <2>2. /\ \A s \in Slots : slots'[s] = IF s = r.slot THEN Nothing ELSE slots[s]
          /\ \A d \in Docs : unassigned'[d] = IF d = r.doc THEN Card(d) ELSE unassigned[d]
          /\ active' = IF r.opened = r.slot THEN Nothing ELSE active
          /\ UNCHANGED <<trash, refresh, restored, complete>>
      BY <1>5, <2>1 DEF Detached, Close, lists, history, Inv, TypeOK
    <2>3. requests' = requests \ {r} /\ UNCHANGED <<at, from, held, made, hydration>>
      BY <1>5, Zenon DEF Detached, Done, server, lists
    <2>4. SlotsAnswered(r) /\ LeavingAnswered(r)
      BY <1>3, <2>1, <2>2 DEF SlotsAnswered, LeavingAnswered
    <2>5. ListsAnswered(r)
      BY <2>1, <2>2 DEF ListsAnswered, OfTrash
    <2>6. CoverAnswered(r)
      BY <2>1, <2>2, CardFits DEF CoverAnswered
    <2>7. Refreshing'
      <3>1. Served' = Served \ {r}
        BY <2>3 DEF Served
      <3>2. \A s \in Slots : Saved(slots'[s]) => slots'[s] = slots[s]
        BY <2>2 DEF Saved
      <3>3. \A d \in Docs : /\ Uploading(d) => Uploading(d)'
                            /\ at[d] \in Slots /\ Answering(d) => Answering(d)'
        BY <2>1, <3>1 DEF Uploading, Answering
      <3>4. refresh # Nothing => \A i \in refresh.items : i.doc \in Docs
        BY DEF Inv, TypeOK, List, Item
      <3> QED BY <2>2, <2>3, <3>2, <3>3, <3>4 DEF Calm, Refreshing, Saved
    <2>8. OpenShown'
      BY <2>1, <2>2 DEF Calm, OpenShown, Inv, TypeOK
    <2> QED BY <2>1, <2>3, <2>4, <2>5, <2>6, <2>7, <2>8, AnsweredKeeps
  <1>6. CASE Deleted(r)
    <2>1. /\ r.kind = "delete" /\ r.doc \in Docs /\ r.served /\ at[r.doc] = "trash"
      BY <1>2, <1>6 DEF Deleted, Done, Formed, Calm, Placed, Target
    <2>2. /\ \A s \in Slots : slots'[s] = IF slots[s] # Nothing /\ slots[s].doc = r.doc
                                          THEN Nothing ELSE slots[s]
          /\ \A d \in Docs : unassigned'[d] = IF d = r.doc THEN Nothing ELSE unassigned[d]
          /\ active' = IF r.slot # Nothing /\ r.opened = r.slot THEN Nothing ELSE active
          /\ Nonce /\ UNCHANGED <<trash, restored, complete>>
      BY <1>6 DEF Deleted, Close, history, Inv, TypeOK
    <2>3. requests' = requests \ {r} /\ UNCHANGED <<at, from, held, made, hydration>>
      BY <1>6, Zenon DEF Deleted, Done, server
    <2>4. SlotsAnswered(r)
      BY <2>2 DEF SlotsAnswered
    <2>5. ASSUME NEW q \in requests \ {r}, Leaves(q), q.slot # Nothing
          PROVE  slots'[q.slot] = slots[q.slot] /\ (active' = q.slot => active = q.slot)
      <3>1. slots[q.slot].doc # r.doc /\ q.slot \in Slots
        BY <1>3, <2>5, CardFits
      <3> QED BY <2>2, <2>5, <3>1
    <2>6. ListsAnswered(r)
      BY <2>1, <2>2 DEF ListsAnswered, OfTrash
    <2>7. CoverAnswered(r)
      BY <2>1, <2>2 DEF CoverAnswered
    <2>8. OpenShown'
      <3> SUFFICES ASSUME active' # Nothing PROVE slots'[active'] # Nothing
        BY DEF OpenShown
      <3>1. active' = active /\ active \in Slots /\ slots[active] # Nothing
        BY <2>2 DEF Calm, OpenShown, Inv, TypeOK
      <3>2. ASSUME slots[active].doc = r.doc PROVE FALSE
        <4>1. Slotted(active)
          BY <2>1, <3>1, <3>2 DEF Calm, Shows, Docs
        <4>2. PICK q \in Served : q.slot = active /\ q.doc = r.doc
          BY <2>1, <3>1, <3>2, <4>1 DEF Slotted
        <4>3. q = r
          BY <2>1, <4>2 DEF Calm, Apart, Clashes, Served, Docs
        <4>4. r.slot # Nothing /\ r.opened = r.slot
          BY <2>1, <3>1, <4>2, <4>3 DEF Calm, Carried, Leaves
        <4> QED BY <2>2, <3>1, <3>2, <4>4
      <3> QED BY <2>2, <3>1, <3>2
    <2>9. LeavingAnswered(r)
      BY <2>5 DEF LeavingAnswered
    <2> QED BY <1>4, <2>1, <2>2, <2>3, <2>4, <2>6, <2>7, <2>8, <2>9, AnsweredKeeps
  <1>7. CASE LeftTrash(r)
    <2>1. /\ OfTrash(r) /\ r.slot = Nothing /\ r.doc \in Docs /\ r.served
          /\ r.kind = "purge" => at[r.doc] = Nothing
      BY <1>2, <1>7 DEF LeftTrash, Done, Formed, Calm, Placed, Target, OfTrash
    <2>2. /\ \A d \in Docs : trash'[d] = IF d = r.doc THEN Nothing ELSE trash[d]
          /\ restored' = (IF r.kind = "restore" THEN restored \cup {r.doc} ELSE restored)
          /\ Nonce /\ UNCHANGED <<slots, unassigned, active, complete>>
      BY <1>7 DEF LeftTrash, Inv, TypeOK
    <2>3. requests' = requests \ {r} /\ UNCHANGED <<at, from, held, made, hydration>>
      BY <1>7, Zenon DEF LeftTrash, Done, server
    <2>4. SlotsAnswered(r) /\ LeavingAnswered(r)
      BY <2>1, <2>2 DEF SlotsAnswered, LeavingAnswered
    <2>5. ListsAnswered(r)
      BY <2>1, <2>2 DEF ListsAnswered, OfTrash
    <2>6. CoverAnswered(r)
      BY <2>1, <2>2 DEF CoverAnswered, OfTrash
    <2>7. OpenShown'
      BY <2>2 DEF Calm, OpenShown
    <2> QED BY <1>4, <2>1, <2>2, <2>3, <2>4, <2>5, <2>6, <2>7, AnsweredKeeps
  <1>8. CASE Assigned(r)
    <2>1. /\ r.kind = "move" /\ r.slot = Nothing /\ r.to \in Slots /\ r.doc \in Docs /\ r.served
          /\ r.entry = Card(r.doc) /\ at[r.doc] = r.to
      BY <1>2, <1>8 DEF Assigned, Done, Formed, Calm, Carried, Placed, Target
    <2>2. /\ \A s \in Slots : slots'[s] = IF s = r.to THEN Card(r.doc) ELSE slots[s]
          /\ \A d \in Docs : unassigned'[d] = IF d = r.doc THEN Nothing ELSE unassigned[d]
          /\ Nonce /\ UNCHANGED <<trash, active, restored, complete>>
      BY <1>8, <2>1 DEF Assigned, history, Inv, TypeOK
    <2>3. requests' = requests \ {r} /\ UNCHANGED <<at, from, held, made, hydration>>
      BY <1>8, Zenon DEF Assigned, Done, server
    <2>4. SlotsAnswered(r) /\ LeavingAnswered(r)
      BY <1>3, <2>1, <2>2 DEF SlotsAnswered, LeavingAnswered
    <2>5. ListsAnswered(r)
      BY <2>1, <2>2 DEF ListsAnswered, OfTrash
    <2>6. CoverAnswered(r)
      BY <2>1, <2>2 DEF CoverAnswered, Inv, Occupied
    <2>7. OpenShown'
      <3>1. Card(r.doc) # Nothing
        BY <2>1, CardFits
      <3> QED BY <2>2, <3>1 DEF Calm, OpenShown, Inv, TypeOK
    <2> QED BY <1>4, <2>1, <2>2, <2>3, <2>4, <2>5, <2>6, <2>7, AnsweredKeeps
  <1>9. CASE Relocated(r)
    <2>1. /\ r.kind = "move" /\ r.slot \in Slots /\ r.to \in Slots \cup {"elsewhere"}
          /\ r.slot # r.to /\ r.doc \in Docs /\ r.served
          /\ slots[r.slot] = Card(r.doc) /\ at[r.doc] = r.to /\ \A d \in Docs : at[d] # r.slot
          /\ active = r.slot => r.opened = r.slot
      BY <1>2, <1>9 DEF Relocated, Done, Formed, Calm, Carried, Placed, Target, Leaves
    <2>2. Card(r.doc) # Nothing
      BY <2>1, CardFits
    <2>3. /\ \A s \in Slots : slots'[s] = IF s = r.slot THEN Nothing
                                          ELSE IF s = r.to THEN Card(r.doc) ELSE slots[s]
          /\ Nonce /\ UNCHANGED <<unassigned, trash, restored, complete>>
      BY <1>9, <2>1, <2>2 DEF Relocated, history, Inv, TypeOK
    <2>4. active' = IF r.opened = r.slot THEN (IF r.to = "elsewhere" THEN Nothing ELSE r.to)
                    ELSE active
      BY <1>9, <2>1 DEF Relocated, Close
    <2>5. requests' = requests \ {r} /\ UNCHANGED <<at, from, held, made, hydration>>
      BY <1>9, Zenon DEF Relocated, Done, server
    <2>6. SlotsAnswered(r)
      BY <2>1, <2>3 DEF SlotsAnswered
    <2>7. LeavingAnswered(r)
      BY <1>3, <2>1, <2>3, <2>4 DEF LeavingAnswered
    <2>8. ListsAnswered(r)
      BY <2>1, <2>3 DEF ListsAnswered, OfTrash
    <2>9. CoverAnswered(r)
      BY <2>1, <2>3 DEF CoverAnswered, Inv, Occupied
    <2>10. OpenShown'
      BY <2>1, <2>2, <2>3, <2>4 DEF Calm, OpenShown, Inv, TypeOK
    <2> QED BY <1>4, <2>1, <2>3, <2>5, <2>6, <2>7, <2>8, <2>9, <2>10, AnsweredKeeps
  <1>10. CASE Uploaded(r)
    <2>1. /\ r.kind = "upload" /\ r.slot \in Slots /\ r.doc \in Docs /\ r.served
          /\ at[r.doc] = r.slot /\ held[r.doc] = r.file
      BY <1>2, <1>10 DEF Uploaded, Done, Formed, Calm, Placed, Target
    <2>2. /\ \A s \in Slots : slots'[s] = IF s = r.slot THEN Card(r.doc) ELSE slots[s]
          /\ Nonce /\ UNCHANGED <<unassigned, trash, active, restored, complete>>
      BY <1>10, <2>1 DEF Uploaded, history, Inv, TypeOK, Card
    <2>3. requests' = requests \ {r} /\ UNCHANGED <<at, from, held, made, hydration>>
      BY <1>10, Zenon DEF Uploaded, Done, server
    <2>4. SlotsAnswered(r) /\ LeavingAnswered(r)
      BY <1>3, <2>1, <2>2 DEF SlotsAnswered, LeavingAnswered
    <2>5. ListsAnswered(r)
      BY <2>1, <2>2 DEF ListsAnswered, OfTrash
    <2>6. CoverAnswered(r)
      BY <2>1, <2>2 DEF CoverAnswered, Inv, Occupied
    <2>7. OpenShown'
      <3>1. Card(r.doc) # Nothing
        BY <2>1, CardFits
      <3> QED BY <2>1, <2>2, <3>1 DEF Calm, OpenShown, Inv, TypeOK
    <2> QED BY <1>4, <2>1, <2>2, <2>3, <2>4, <2>5, <2>6, <2>7, AnsweredKeeps
  <1> QED BY <1>5, <1>6, <1>7, <1>8, <1>9, <1>10, FailedKeeps DEF Answer

-----------------------------------------------------------------------------
(* The lists *)

\* An item that was listed just now shows its document as a card
LEMMA ItemShows ==
  ASSUME Inv, NEW i \in Items
  PROVE  /\ i.doc \in Docs /\ i.at = at[i.doc] /\ i.label = held[i.doc]
         /\ Shown(i) = Card(i.doc)
  <1>1. PICK d \in Docs : i = [doc |-> d, at |-> at[d], label |-> held[d]]
    BY DEF Items
  <1>2. i.doc = d /\ i.at = at[d] /\ i.label = held[d]
    BY <1>1
  <1> QED BY <1>2 DEF Shown, Card

\* A hydration shows what is on the server, since nothing changed meanwhile
LEMMA HydrationKeeps ==
  ASSUME Inv, Calm, HydrationReturns
  PROVE  Calm'
  <1>1. requests = {} /\ hydration.items = Items /\ hydration' = Nothing
    BY DEF HydrationReturns, Calm, Hydrating
  <1>2. PICK got \in SUBSET Items :
          /\ slots' = [s \in Slots |->
                         IF \E i \in got : i.at = s
                         THEN Shown(CHOOSE i \in got : i.at = s) ELSE slots[s]]
          /\ unassigned' = [d \in Docs |-> IF Listed(got, d, "unassigned")
                                           THEN Shown(ItemOf(got, d)) ELSE Nothing]
          /\ trash' = [d \in Docs |-> IF Listed(got, d, "trash")
                                      THEN Shown(ItemOf(got, d)) ELSE Nothing]
          /\ complete' = (got = Items)
          /\ restored' = restored \ {i.doc : i \in got}
    BY <1>1 DEF HydrationReturns
  <1>3. UNCHANGED <<at, from, held, made, active, opening, requests, refresh>>
    BY DEF HydrationReturns, server
  <1>4. Served' = {} /\ Served = {}
    BY <1>1, <1>3 DEF Served
  <1>5. ASSUME NEW s \in Slots
        PROVE  \/ slots'[s] = slots[s] /\ \A i \in got : i.at # s
               \/ \E d \in Docs : slots'[s] = Card(d) /\ at[d] = s
    <2>1. CASE \E i \in got : i.at = s
      <3> DEFINE i == CHOOSE i \in got : i.at = s
      <3>1. i \in Items /\ i.at = s
        BY <2>1
      <3>2. slots'[s] = Shown(i)
        BY <1>2, <2>1
      <3> HIDE DEF i
      <3> QED BY <3>1, <3>2, ItemShows
    <2>2. CASE ~\E i \in got : i.at = s
      BY <1>2, <2>2
    <2> QED BY <2>1, <2>2
  <1>6. ASSUME NEW d \in Docs, NEW x, Listed(got, d, x)
        PROVE  Shown(ItemOf(got, d)) = Card(d) /\ at[d] = x
    <2>1. ItemOf(got, d) \in Items /\ ItemOf(got, d).doc = d
      BY <1>6 DEF Listed, ItemOf
    <2>2. PICK i \in got : i.doc = d /\ i.at = x
      BY <1>6 DEF Listed
    <2> QED BY <2>1, <2>2, ItemShows
  <1>7. \A d \in Docs : Card(d)' = Card(d) /\ Card(d) # Nothing /\ Saved(Card(d)) /\ Card(d).doc = d
    BY <1>3, CardFits DEF Card
  <1>8. Apart' /\ Placed' /\ Carried' /\ Hydrating'
    BY <1>1, <1>3 DEF Apart, Placed, Carried, Hydrating
  <1>9. Shows'
    <2>1. ASSUME NEW s \in Slots, slots'[s] # Nothing
          PROVE  /\ slots'[s].persisted <=> slots'[s].doc # Nothing
                 /\ slots'[s].persisted => Slotted(s)'
      <3>1. CASE slots'[s] = slots[s]
        <4>1. /\ slots[s].persisted <=> slots[s].doc # Nothing
              /\ slots[s].persisted => Slotted(s)
          BY <2>1, <3>1 DEF Calm, Shows
        <4>2. Slotted(s) => Slotted(s)'
          BY <1>3, <1>4, <3>1 DEF Slotted, Card
        <4> QED BY <3>1, <4>1, <4>2
      <3>2. ASSUME NEW d \in Docs, slots'[s] = Card(d), at[d] = s
            PROVE  /\ slots'[s].persisted <=> slots'[s].doc # Nothing
                   /\ slots'[s].persisted => Slotted(s)'
        <4>1. slots'[s].doc = d /\ slots'[s].persisted /\ d # Nothing
          BY <1>7, <3>2 DEF Saved
        <4>2. Slotted(s)'
          BY <1>3, <1>7, <3>2, <4>1 DEF Slotted
        <4> QED BY <4>1, <4>2
      <3> QED BY <1>5, <3>1, <3>2
    <2>2. ASSUME NEW d \in Docs
          PROVE  /\ unassigned'[d] # Nothing => unassigned'[d] = Card(d) /\ at[d] = "unassigned"
                 /\ trash'[d] # Nothing => at[d] = "trash"
      BY <1>2, <1>6
    <2> QED BY <1>3, <1>7, <2>1, <2>2 DEF Shows
  <1>10. Refreshing'
    <2> SUFFICES ASSUME refresh # Nothing, refresh.listed, NEW i \in refresh.items, i.at \in Slots
                 PROVE  /\ Saved(slots'[i.at]) => i.doc = slots'[i.at].doc /\ i.label = held[i.doc]
                        /\ \A e \in Docs : at[e] = i.at => i.doc = e /\ i.label = held[e]
      BY <1>3 DEF Refreshing, Saved
    <2>1. \A e \in Docs : at[e] = i.at => i.doc = e /\ i.label = held[e]
      BY <1>4 DEF Calm, Refreshing, Answering
    <2>2. Saved(slots[i.at]) => i.doc = slots[i.at].doc /\ i.label = held[i.doc]
      BY <1>4 DEF Calm, Refreshing, Uploading
    <2> QED BY <1>5, <1>7, <2>1, <2>2
  <1>11. Covered'
    <2> SUFFICES ASSUME got = Items, NEW d \in Docs
                 PROVE  /\ at[d] \in Slots => Saved(slots'[at[d]]) /\ slots'[at[d]].doc = d
                        /\ at[d] = "unassigned" => unassigned'[d] # Nothing
      BY <1>2, <1>3 DEF Covered, Saved
    <2> DEFINE i == [doc |-> d, at |-> at[d], label |-> held[d]]
    <2>1. at[d] \in Slots \cup {"unassigned"} => i \in got
      BY DEF Items
    <2>2. i.at = at[d] /\ i.doc = d
      OBVIOUS
    <2> HIDE DEF i
    <2>3. ASSUME at[d] \in Slots PROVE Saved(slots'[at[d]]) /\ slots'[at[d]].doc = d
      <3>1. PICK e \in Docs : slots'[at[d]] = Card(e) /\ at[e] = at[d]
        BY <1>5, <2>1, <2>2, <2>3
      <3>2. e = d
        BY <2>3, <3>1 DEF Inv, Occupied
      <3> QED BY <1>7, <3>1, <3>2
    <2>4. ASSUME at[d] = "unassigned" PROVE unassigned'[d] # Nothing
      <3>1. Listed(got, d, "unassigned")
        BY <2>1, <2>2, <2>4 DEF Listed
      <3> QED BY <1>2, <1>6, <1>7, <3>1
    <2> QED BY <2>3, <2>4
  <1>12. OpenShown'
    BY <1>3, <1>5, <1>7 DEF Calm, OpenShown, Inv, TypeOK
  <1> QED BY <1>8, <1>9, <1>10, <1>11, <1>12 DEF Calm

\* A refresh changes no slot that shows its document
LEMMA RefreshKeeps ==
  ASSUME Inv, Calm, ~disturbed', RefreshReturns
  PROVE  Calm'
  <1>1. /\ refresh # Nothing /\ refresh.listed /\ refresh' = Nothing
        /\ UNCHANGED <<at, from, held, made, unassigned, trash, active, opening, requests, hydration,
                       restored, complete>>
    BY DEF RefreshReturns, server
  <1>2. Served' = Served
    BY <1>1 DEF Served
  <1>3. \A s \in Slots : slots[s] \in Entry \cup {Nothing}
    BY DEF Inv, TypeOK
  <1>4. ASSUME NEW s \in Slots
        PROVE  \/ slots'[s] = slots[s]
               \/ /\ Saved(slots[s]) /\ slots'[s] # Nothing /\ Saved(slots'[s])
                  /\ slots'[s].doc = slots[s].doc
                  /\ slots[s] = Card(slots[s].doc) => slots'[s] = slots[s] \/ Uploading(slots[s].doc)
    <2> DEFINE i == CHOOSE i \in refresh.items : i.at = s
    <2>1. CASE slots[s] # Nothing /\ \E j \in refresh.items : j.at = s
      <3>1. i \in refresh.items /\ i.at = s
        BY <2>1
      <3>2. slots'[s] = [slots[s] EXCEPT !.doc = i.doc, !.label = i.label]
        BY <2>1 DEF RefreshReturns
      <3> HIDE DEF i
      <3>3. slots[s].persisted
        BY <2>1, <3>1 DEF RefreshReturns
      <3>4. slots[s] \in Entry /\ Saved(slots[s])
        BY <1>3, <2>1, <3>3 DEF Calm, Shows, Saved
      <3>5. i.doc = slots[s].doc /\ (i.label = held[i.doc] \/ Uploading(i.doc)) /\ i \in Item
        BY <1>1, <3>1, <3>4 DEF Calm, Refreshing, Inv, TypeOK, List
      <3>6. slots'[s] \in Entry /\ slots'[s].doc = slots[s].doc /\ slots'[s].persisted
        BY <3>2, <3>3, <3>4, <3>5 DEF Entry, Item
      <3>7. slots'[s] # Nothing /\ Saved(slots'[s])
        BY <3>4, <3>6, NothingIsNoRecord DEF Saved
      <3>8. ASSUME slots[s] = Card(slots[s].doc), ~Uploading(slots[s].doc)
            PROVE  slots'[s] = slots[s]
        <4>1. i.label = slots[s].label
          BY <3>5, <3>8 DEF Card
        <4> QED BY <3>2, <3>4, <3>5, <4>1 DEF Entry
      <3> QED BY <3>4, <3>6, <3>7, <3>8
    <2>2. CASE ~(slots[s] # Nothing /\ \E j \in refresh.items : j.at = s)
      BY <2>2 DEF RefreshReturns
    <2> QED BY <2>1, <2>2
  <1>5. Apart' /\ Placed' /\ Hydrating' /\ Refreshing'
    <2>1. Items' = Items
      BY <1>1 DEF Items
    <2>2. Apart' /\ Placed'
      BY <1>1 DEF Calm, Apart, Placed, Source, Target
    <2>3. Hydrating' /\ Refreshing'
      BY <1>1, <2>1 DEF Calm, Hydrating, Refreshing
    <2> QED BY <2>2, <2>3
  <1>6. Carried'
    <2> SUFFICES ASSUME NEW r \in requests, Leaves(r), r.slot # Nothing
                 PROVE  slots'[r.slot] = slots[r.slot]
      BY <1>1 DEF Calm, Carried, Card
    <2>1. r.slot \in Slots /\ r.doc \in Docs
      BY RequestFits DEF Leaves, Formed
    <2>2. slots[r.slot] = Card(r.doc) /\ Card(r.doc).doc = r.doc
      BY <2>1, CardFits DEF Calm, Carried
    <2>3. ~Uploading(r.doc)
      <3>1. \A q \in Served : q.doc = r.doc => q = r
        BY <2>1 DEF Calm, Apart, Clashes, Served, Docs
      <3> QED BY <3>1 DEF Uploading, Leaves
    <2> QED BY <1>4, <2>1, <2>2, <2>3
  <1>7. Shows'
    <2>1. ASSUME NEW s \in Slots, slots'[s] # Nothing
          PROVE  /\ slots'[s].persisted <=> slots'[s].doc # Nothing
                 /\ slots'[s].persisted => Slotted(s)'
      <3>1. CASE slots'[s] = slots[s]
        BY <1>1, <1>2, <2>1, <3>1 DEF Calm, Shows, Slotted, Card
      <3>2. CASE slots'[s] # slots[s]
        <4>1. /\ Saved(slots[s]) /\ Saved(slots'[s]) /\ slots'[s].doc = slots[s].doc
              /\ slots[s] = Card(slots[s].doc) => Uploading(slots[s].doc)
          BY <1>4, <3>2
        <4>2. slots'[s].persisted /\ slots'[s].doc # Nothing /\ slots[s].doc \in Docs
          BY <1>3, <4>1 DEF Saved, Entry
        <4>3. \E r \in Served : r.slot = s /\ r.doc = slots[s].doc
          <5>1. CASE at[slots[s].doc] = s /\ slots[s] = Card(slots[s].doc)
            <6>1. PICK r \in Served : r.doc = slots[s].doc /\ r.kind = "upload"
              BY <4>1, <5>1 DEF Uploading
            <6>2. at[r.doc] = r.slot
              BY <6>1 DEF Calm, Placed, Target, Served
            <6> QED BY <5>1, <6>1, <6>2
          <5> QED BY <4>1, <5>1 DEF Calm, Shows, Slotted, Saved
        <4> QED BY <1>2, <4>1, <4>2, <4>3 DEF Slotted
      <3> QED BY <3>1, <3>2
    <2> QED BY <1>1, <1>2, <2>1 DEF Calm, Shows, Corrected, Card
  <1>8. Covered'
    <2>1. \A s \in Slots : Saved(slots[s]) => Saved(slots'[s]) /\ slots'[s].doc = slots[s].doc
      BY <1>4
    <2> QED BY <1>1, <1>2, <2>1 DEF Calm, Covered, Answering, Saved
  <1>9. OpenShown'
    BY <1>1, <1>4 DEF Calm, OpenShown, Inv, TypeOK
  <1> QED BY <1>5, <1>6, <1>7, <1>8, <1>9 DEF Calm

\* What is listed is so at that moment
LEMMA ListsKeep ==
  ASSUME Inv, Calm, ~disturbed', ListSteps
  PROVE  Calm'
  <1>1. CASE HydrationReturns
    BY <1>1, HydrationKeeps
  <1>2. CASE RefreshReturns
    BY <1>2, RefreshKeeps
  <1>3. CASE HydrationListed \/ HydrationFails \/ RefreshListed \/ RefreshFails
    <2>1. UNCHANGED <<at, from, held, made, slots, unassigned, trash, active, opening, requests,
                      restored, complete>>
      BY <1>3, Zenon DEF HydrationListed, HydrationFails, RefreshListed, RefreshFails, server, board,
         history
    <2>2. Apart' /\ Placed' /\ Carried' /\ Served' = Served /\ OpenShown' /\ Items' = Items
      BY <2>1 DEF Calm, Apart, Placed, Carried, OpenShown, Served, Items, Source, Target, Card
    <2>3. Shows' /\ Covered'
      BY <2>1, <2>2 DEF Calm, Shows, Slotted, Corrected, Card, Covered, Answering, Saved
    <2>4. Hydrating'
      <3>1. CASE HydrationListed
        BY <2>1, <2>2, <3>1 DEF HydrationListed, Calm, Hydrating
      <3>2. CASE HydrationFails
        BY <3>2 DEF HydrationFails, Hydrating
      <3>3. CASE RefreshListed \/ RefreshFails
        BY <2>1, <2>2, <3>3 DEF RefreshListed, RefreshFails, Calm, Hydrating
      <3> QED BY <1>3, <3>1, <3>2, <3>3
    <2>5. Refreshing'
      <3>1. CASE RefreshListed
        <4> SUFFICES ASSUME NEW i \in Items, i.at \in Slots
                     PROVE  /\ Saved(slots[i.at]) => i.doc = slots[i.at].doc
                            /\ i.label = held[i.doc]
                            /\ \A e \in Docs : at[e] = i.at => i.doc = e
          BY <2>1, <3>1 DEF RefreshListed, Refreshing, Saved
        <4>1. i.doc \in Docs /\ at[i.doc] = i.at /\ i.label = held[i.doc]
          BY ItemShows
        <4>2. \A e \in Docs : at[e] = i.at => i.doc = e
          BY <4>1 DEF Inv, Occupied
        <4>3. ASSUME Saved(slots[i.at]) PROVE i.doc = slots[i.at].doc
          <5>1. slots[i.at].doc \in Docs /\ Slotted(i.at)
            BY <4>3 DEF Calm, Shows, Saved, Inv, TypeOK, Entry
          <5>2. ASSUME NEW r \in Served, r.slot = i.at, r.doc = slots[i.at].doc
                PROVE  i.doc = slots[i.at].doc
            <6>1. r \in requests /\ r.served /\ r.kind \in Kinds /\ Formed(r)
              BY RequestFits DEF Served
            <6>2. ~Leaves(r)
              BY <4>1, <5>2, <6>1 DEF Calm, Carried
            <6>3. r.kind = "upload"
              BY <5>2, <6>1, <6>2 DEF Leaves, Kinds, Formed, OfTrash
            <6>4. at[r.doc] = i.at
              BY <5>2, <6>1, <6>3 DEF Calm, Placed, Target
            <6> QED BY <4>2, <5>1, <5>2, <6>4
          <5> QED BY <4>2, <5>1, <5>2 DEF Slotted
        <4> QED BY <4>1, <4>2, <4>3
      <3>2. CASE RefreshFails
        BY <3>2 DEF RefreshFails, Refreshing
      <3>3. CASE HydrationListed \/ HydrationFails
        <4>1. UNCHANGED refresh
          BY <3>3 DEF HydrationListed, HydrationFails
        <4> QED BY <2>1, <2>2, <4>1 DEF Calm, Refreshing, Uploading, Answering, Saved
      <3> QED BY <1>3, <3>1, <3>2, <3>3
    <2> QED BY <2>2, <2>3, <2>4, <2>5 DEF Calm
  <1> QED BY <1>1, <1>2, <1>3 DEF ListSteps

-----------------------------------------------------------------------------
(* Together *)

\* A disturbance is never forgotten
LEMMA DisturbedStays == ASSUME disturbed, [Next]_vars PROVE disturbed'
  <1>1. CASE User
    BY <1>1, Zenon DEF User, ClearSlot, ClearUnsaved, UploadTo, OpenSlot, Delete, FromTrash, Assign,
       RelocateDoc, Hydrate, Send, history
  <1>2. ASSUME NEW r \in requests, Serve(r) PROVE disturbed'
    BY <1>2, Zenon DEF Serve, history
  <1>3. ASSUME NEW r \in requests, Answer(r) PROVE disturbed'
    BY <1>3, Zenon DEF Answer, Detached, Deleted, LeftTrash, Assigned, Relocated, Uploaded, Fails,
       history
  <1>4. CASE ListSteps
    BY <1>4, Zenon DEF ListSteps, HydrationListed, HydrationReturns, HydrationFails,
       RefreshListed, RefreshReturns, RefreshFails, history
  <1>5. ASSUME NEW s \in Slots, Activate(s) PROVE disturbed'
    BY <1>5, Zenon DEF Activate
  <1>6. CASE UNCHANGED vars
    BY <1>6, Zenon DEF vars, history
  <1> QED BY <1>1, <1>2, <1>3, <1>4, <1>5, <1>6 DEF Next, ListSteps

\* Until it is disturbed, the board stays calm
LEMMA UndisturbedKept == Inv /\ Inv' /\ Undisturbed /\ [Next]_vars => Undisturbed'
  <1> SUFFICES ASSUME Inv, Inv', Undisturbed, [Next]_vars, ~disturbed' PROVE Calm'
    BY DEF Undisturbed
  <1>1. Calm
    BY DisturbedStays DEF Undisturbed
  <1>2. CASE User
    BY <1>1, <1>2, UserKeeps
  <1>3. ASSUME NEW r \in requests, Serve(r) PROVE Calm'
    <2>1. PICK d \in Docs, p \in Places : Puts(r, d, p)
      BY <1>3, ServePuts
    <2>2. ~r.served
      BY <1>3 DEF Serve
    <2> QED BY <1>1, <2>1, <2>2, PutsKeeps
  <1>4. ASSUME NEW r \in requests, Answer(r) PROVE Calm'
    BY <1>1, <1>4, AnswerKeeps
  <1>5. CASE ListSteps
    BY <1>1, <1>5, ListsKeep
  <1>6. ASSUME NEW s \in Slots, Activate(s) PROVE Calm'
    BY <1>1, <1>6, ActivateKeeps
  <1>7. CASE UNCHANGED vars
    <2>1. UNCHANGED <<at, from, held, made, slots, unassigned, trash, active, opening, requests,
                      hydration, refresh, restored, complete>>
      BY <1>7 DEF vars, server, board, lists, history
    <2>2. Apart' /\ Placed' /\ Carried' /\ Served' = Served /\ OpenShown' /\ Items' = Items
      BY <1>1, <2>1 DEF Calm, Apart, Placed, Carried, OpenShown, Served, Items, Source, Target, Card
    <2>3. Shows' /\ Covered'
      BY <1>1, <2>1, <2>2 DEF Calm, Shows, Slotted, Corrected, Card, Covered, Answering, Saved
    <2>4. Hydrating' /\ Refreshing'
      BY <1>1, <2>1, <2>2 DEF Calm, Hydrating, Refreshing, Uploading, Answering, Saved
    <2> QED BY <2>2, <2>3, <2>4 DEF Calm
  <1> QED BY <1>2, <1>3, <1>4, <1>5, <1>6, <1>7 DEF Next, ListSteps

LEMMA AlwaysUndisturbed == Spec => [](Inv /\ Undisturbed)
  <1>1. Inv /\ Undisturbed /\ [Next]_vars => (Inv /\ Undisturbed)'
    BY InvKept, UndisturbedKept
  <1> QED BY <1>1, InvInit, UndisturbedInit, PTL DEF Spec

\* What the board shows is what the server has, for every number of slots,
\* documents and requests, while no two requests meet.
THEOREM BoardShowsTheServer == Spec => []ShownIsThere
  <1>1. Inv /\ Undisturbed => ShownIsThere
    <2> SUFFICES ASSUME Inv, Calm PROVE ShownIsThere
      BY DEF Undisturbed, ShownIsThere
    <2>1. ASSUME NEW s \in Slots, Saved(slots[s]), Settled(s), Quiet(slots[s].doc)
          PROVE  /\ at[slots[s].doc] = s
                 /\ slots[s].file = held[slots[s].doc] /\ slots[s].label = slots[s].file
      <3>1. slots[s] = Card(slots[s].doc) /\ at[slots[s].doc] = s
        BY <2>1, SlotShows DEF Quiet
      <3> QED BY <3>1 DEF Card
    <2>2. ASSUME NEW d \in Docs, Quiet(d)
          PROVE  /\ unassigned[d] # Nothing => at[d] = "unassigned"
                 /\ trash[d] # Nothing => at[d] = "trash"
      BY <2>2 DEF Calm, Shows, Corrected, Quiet, Served
    <2> QED BY <2>1, <2>2 DEF ShownIsThere
  <1> QED BY <1>1, AlwaysUndisturbed, PTL

\* And then no document of the server is missing from the board after a full
\* hydration, but for those restored since.
THEOREM BoardMissesNothing == Spec => []NothingMissing
  <1>1. Inv /\ Undisturbed => NothingMissing
    BY DEF Undisturbed, Calm, Covered, NothingMissing, Answering, Served, Saved
  <1> QED BY <1>1, AlwaysUndisturbed, PTL

\* And then the active slot shows a document, whatever slots are being opened.
THEOREM OpenSlotShows == Spec => []ActiveIsShown
  <1>1. Inv /\ Undisturbed => ActiveIsShown
    BY DEF Undisturbed, Calm, OpenShown, ActiveIsShown
  <1> QED BY <1>1, AlwaysUndisturbed, PTL
=============================================================================
