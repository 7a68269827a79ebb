----------------------------- MODULE SlotBoard -----------------------------
(***************************************************************************)
(* The board of one client and period in the browser: the slots, the       *)
(* unassigned documents and the trash, as useSlotDocumentMutations changes *)
(* them after each answer and useSlotDocumentHydration fills them from the *)
(* server.                                                                 *)
(*                                                                         *)
(* Nothing is reloaded after a change: the handlers repeat on the board    *)
(* what the server did.  A hydration (opening the period, a new layout or  *)
(* permission) puts the listed documents over those that are shown; a      *)
(* refresh, after most changes, renews the id and the version label of the *)
(* documents that are shown and nothing else.  A slot that is opened       *)
(* becomes the active one only after its pages were read.                  *)
(*                                                                         *)
(* The server is reduced to what these requests see of it: where each      *)
(* document is and which file it holds.  SlotStore is the whole of it.     *)
(* One user works in one browser.                                          *)
(***************************************************************************)
EXTENDS Naturals, FiniteSets

CONSTANTS
    Slots,       \* slots of the period
    MaxDocs,     \* bound: documents ever made
    MaxFiles,    \* bound: files ever uploaded
    MaxRequests, \* bound: changes, hydrations and openings asked for
    Nothing

ASSUME BoundsAreNatural ==
    MaxDocs \in Nat /\ MaxFiles \in Nat /\ MaxRequests \in Nat
ASSUME NothingIsOutside == Nothing \notin Slots /\ Nothing \notin Nat

VARIABLES
    at, from, held, made,     \* server: place, deleted_from_slot_id, file; documents made
    slots, unassigned, trash, \* slotDocs, unassignedDocs, deletedDocs
    active,                   \* activeSlotKey
    opening,                  \* slots whose pages activateDoc is reading
    requests,                 \* changes on their way
    hydration, refresh,       \* the lists that are being read
    sent, files,              \* counters for the bounds
    restored,                 \* history: documents restored since the last hydration
    complete,                 \* history: the last hydration fetched every file, and no
                              \* file that could not be saved covered a saved one
    disturbed                 \* history: two requests were under way for one slot or
                              \* document, a change during a hydration, a slot
                              \* became the active one during or behind a change
                              \* of it, an answer was lost, or a refresh gave the
                              \* id of a document to a file that could not be saved

server == <<at, from, held, made>>
board  == <<slots, unassigned, trash, active, opening>>
lists  == <<hydration, refresh>>
counters == <<sent, files>>
history == <<restored, complete, disturbed>>
vars == <<server, board, requests, lists, counters, history>>

Docs   == 1..MaxDocs
Places == Slots \cup {"unassigned", "trash", "elsewhere", Nothing}

\* A document on the board; a file that could not be saved has no id until a
\* refresh gives it that of the document in its slot
Entry == [doc : Docs \cup {Nothing}, persisted : BOOLEAN,
          file : 0..MaxFiles, label : 0..MaxFiles]
Kinds == {"detach", "delete", "purge", "restore", "move", "upload"}
Request == [n : 1..MaxRequests, kind : Kinds, doc : Docs \cup {Nothing},
            slot : Slots \cup {Nothing}, to : Slots \cup {"elsewhere", Nothing},
            entry : Entry \cup {Nothing}, opened : Slots \cup {Nothing},
            file : 0..MaxFiles, served : BOOLEAN]
Item == [doc : Docs, at : Places, label : 0..MaxFiles]
List == [items : SUBSET Item, listed : BOOLEAN]

\* The places that are no slot are none of the slots, and null is no record
ASSUME PlacesDiffer == {"unassigned", "trash", "elsewhere"} \cap (Slots \cup {Nothing}) = {}
ASSUME NothingIsNoRecord == Nothing \notin Entry /\ Nothing \notin List

TypeOK ==
    /\ at \in [Docs -> Places] /\ from \in [Docs -> Slots \cup {"unassigned", Nothing}]
    /\ held \in [Docs -> 0..MaxFiles] /\ made \subseteq Docs
    /\ slots \in [Slots -> Entry \cup {Nothing}]
    /\ unassigned \in [Docs -> Entry \cup {Nothing}]
    /\ trash \in [Docs -> Entry \cup {Nothing}]
    /\ active \in Slots \cup {Nothing} /\ opening \subseteq Slots
    /\ requests \subseteq Request
    /\ hydration \in List \cup {Nothing} /\ refresh \in List \cup {Nothing}
    /\ sent \in 0..MaxRequests /\ files \in 0..MaxFiles
    /\ restored \subseteq Docs /\ complete \in BOOLEAN /\ disturbed \in BOOLEAN

At(s) == {d \in Docs : at[d] = s}

\* Documents that were there before the period is opened
Init ==
    /\ made \in {1..k : k \in 0..MaxDocs}
    /\ at \in [Docs -> Slots \cup {"unassigned", "trash", Nothing}]
    /\ \A d \in Docs : (at[d] = Nothing) = (d \notin made)
    /\ \A s \in Slots : Cardinality(At(s)) <= 1
    /\ from \in [Docs -> Slots \cup {Nothing}]
    /\ \A d \in Docs : (from[d] = Nothing) = (at[d] # "trash")
    /\ held = [d \in Docs |-> 0]
    /\ slots = [s \in Slots |-> Nothing]
    /\ unassigned = [d \in Docs |-> Nothing] /\ trash = [d \in Docs |-> Nothing]
    /\ active = Nothing /\ opening = {}
    /\ requests = {}
    /\ hydration = [items |-> {}, listed |-> FALSE] /\ refresh = Nothing
    /\ sent = 0 /\ files = 0
    /\ restored = {} /\ complete = FALSE /\ disturbed = FALSE

-----------------------------------------------------------------------------
(* Asking *)

\* A request may concern a slot on either end and a document; which slot a
\* restore goes back to only the server knows
Concerns(r, s) == s # Nothing /\ s \in {r.slot, r.to}
Clashes(q, r) == \/ q.doc # Nothing /\ q.doc = r.doc
                 \/ Concerns(r, q.slot) \/ Concerns(r, q.to)
                 \/ "restore" \in {q.kind, r.kind}

Send(kind, d, s, t, entry, file) ==
    /\ sent < MaxRequests
    /\ sent' = sent + 1
    /\ LET q == [n |-> sent + 1, kind |-> kind, doc |-> d, slot |-> s, to |-> t,
                 entry |-> entry, opened |-> active, file |-> file, served |-> FALSE]
       IN /\ requests' = requests \cup {q}
          /\ disturbed' = (disturbed \/ hydration # Nothing
                                     \/ \E r \in requests : Clashes(q, r))
    /\ UNCHANGED <<server, lists, restored, complete>>

Saved(e) == e # Nothing /\ e.doc # Nothing /\ e.persisted

\* handleClearSlot: a document that was not saved just leaves
ClearSlot(s) ==
    /\ Saved(slots[s])
    /\ Send("detach", slots[s].doc, s, Nothing, slots[s], 0)
    /\ UNCHANGED <<board, files>>

ClearUnsaved(s) ==
    /\ slots[s] # Nothing /\ ~Saved(slots[s])
    /\ slots' = [slots EXCEPT ![s] = Nothing]
    /\ active' = IF active = s THEN Nothing ELSE active
    /\ UNCHANGED <<server, unassigned, trash, opening, requests, lists, counters, history>>

\* handleSoftDeleteDocument
Delete(d) ==
    /\ \/ \E s \in Slots : /\ slots[s] # Nothing /\ slots[s].doc = d
                           /\ Send("delete", d, s, Nothing, Nothing, 0)
       \/ unassigned[d] # Nothing /\ Send("delete", d, Nothing, Nothing, Nothing, 0)
    /\ UNCHANGED <<board, files>>

\* handlePurgeDocument, handleRestoreDocument
FromTrash(kind, d) ==
    /\ trash[d] # Nothing
    /\ Send(kind, d, Nothing, Nothing, Nothing, 0)
    /\ UNCHANGED <<board, files>>

\* handleAssignUnassigned: into a slot that looks empty
Assign(d, s) ==
    /\ unassigned[d] # Nothing /\ slots[s] = Nothing
    /\ Send("move", d, Nothing, s, unassigned[d], 0)
    /\ UNCHANGED <<board, files>>

\* handleRelocateDocument: to another slot, or another period or client
RelocateDoc(s, t) ==
    /\ Saved(slots[s]) /\ t # s
    /\ Send("move", slots[s].doc, s, t, Nothing, 0)
    /\ UNCHANGED <<board, files>>

\* persistFileToSlot
UploadTo(s) ==
    /\ files < MaxFiles
    /\ files' = files + 1
    /\ Send("upload", IF slots[s] # Nothing THEN slots[s].doc ELSE Nothing, s, Nothing, Nothing,
            files + 1)
    /\ UNCHANGED board

\* onOpenSlot: activateDoc reads the pages first (bound: once at a time for
\* one slot)
OpenSlot(s) ==
    /\ slots[s] # Nothing
    /\ active # s /\ s \notin opening
    /\ sent < MaxRequests
    /\ sent' = sent + 1
    /\ opening' = opening \cup {s}
    /\ UNCHANGED <<server, slots, unassigned, trash, active, requests, lists, files, history>>

\* Then it makes the slot the active one, without looking at it again
Activate(s) ==
    /\ s \in opening
    /\ opening' = opening \ {s}
    /\ active' = s
    /\ disturbed' = (disturbed \/ slots[s] = Nothing \/ \E r \in requests : Concerns(r, s))
    /\ UNCHANGED <<server, slots, unassigned, trash, requests, lists, counters, restored,
                   complete>>

-----------------------------------------------------------------------------
(* The server *)

Answered(r) == requests' = (requests \ {r}) \cup {[r EXCEPT !.served = TRUE]}

ServeDetach(r) ==
    /\ r.kind = "detach" /\ at[r.doc] \in Slots \cup {"unassigned"}
    /\ at' = [at EXCEPT ![r.doc] = "unassigned"]
    /\ Answered(r)
    /\ UNCHANGED <<from, held, made>>

ServeDelete(r) ==
    /\ r.kind = "delete" /\ at[r.doc] \in Slots \cup {"unassigned"}
    /\ at' = [at EXCEPT ![r.doc] = "trash"]
    /\ from' = [from EXCEPT ![r.doc] = at[r.doc]]
    /\ Answered(r)
    /\ UNCHANGED <<held, made>>

ServePurge(r) ==
    /\ r.kind = "purge" /\ at[r.doc] # Nothing
    /\ at' = [at EXCEPT ![r.doc] = Nothing]
    /\ from' = [from EXCEPT ![r.doc] = Nothing]
    /\ Answered(r)
    /\ UNCHANGED <<held, made>>

\* Refused when the slot it came from is taken
ServeRestore(r) ==
    /\ r.kind = "restore" /\ at[r.doc] = "trash"
    /\ from[r.doc] \in Slots => At(from[r.doc]) = {}
    /\ at' = [at EXCEPT ![r.doc] = from[r.doc]]
    /\ from' = [from EXCEPT ![r.doc] = Nothing]
    /\ Answered(r)
    /\ UNCHANGED <<held, made>>

\* Refused when the slot is taken ("move-slot-occupied")
ServeMove(r) ==
    /\ r.kind = "move" /\ at[r.doc] # Nothing
    /\ r.to \in Slots => At(r.to) \ {r.doc} = {}
    /\ at' = [at EXCEPT ![r.doc] = r.to]
    /\ Answered(r)
    /\ UNCHANGED <<from, held, made>>

\* The row of the slot gets the file, or a new row is made; the answer names it
ServeUpload(r) ==
    /\ r.kind = "upload"
    /\ \E d \in Docs :
         /\ IF At(r.slot) = {} THEN d \notin made /\ (d - 1) \in made \cup {0} ELSE d \in At(r.slot)
         /\ at' = [at EXCEPT ![d] = r.slot]
         /\ held' = [held EXCEPT ![d] = r.file]
         /\ made' = made \cup {d}
         /\ requests' = (requests \ {r}) \cup {[r EXCEPT !.served = TRUE, !.doc = d]}
    /\ UNCHANGED from

Serve(r) ==
    /\ ~r.served
    /\ \/ ServeDetach(r) \/ ServeDelete(r) \/ ServePurge(r)
       \/ ServeRestore(r) \/ ServeMove(r) \/ ServeUpload(r)
    /\ UNCHANGED <<board, lists, counters, history>>

-----------------------------------------------------------------------------
(* What the handlers do with the answers *)

Done(r) == r.served /\ requests' = requests \ {r}

\* setStatusNonce: the refresh effect starts again
Nonce == refresh' = [items |-> {}, listed |-> FALSE]

\* Mutant: the slot that is emptied stays open.
CloseNever(r, s) == active' = active

\* activeSlotKey as it was when the handler started
Close(r, s) == active' = IF s # Nothing /\ r.opened = s THEN Nothing ELSE active

\* Mutant: a detached document is put nowhere.
DetachedNowhere(r) ==
    /\ r.kind = "detach" /\ Done(r)
    /\ slots' = [slots EXCEPT ![r.slot] = Nothing]
    /\ Close(r, r.slot)
    /\ UNCHANGED <<server, unassigned, trash, opening, lists, counters, history>>

Detached(r) ==
    /\ r.kind = "detach" /\ Done(r)
    /\ unassigned' = [unassigned EXCEPT ![r.doc] = r.entry]
    /\ slots' = [slots EXCEPT ![r.slot] = Nothing]
    /\ Close(r, r.slot)
    /\ UNCHANGED <<server, trash, opening, lists, counters, history>>

\* Mutant: a deleted document leaves the slots only.
DeletedFromSlots(r) ==
    /\ r.kind = "delete" /\ Done(r)
    /\ slots' = [s \in Slots |-> IF slots[s] # Nothing /\ slots[s].doc = r.doc
                                 THEN Nothing ELSE slots[s]]
    /\ Close(r, r.slot)
    /\ Nonce
    /\ UNCHANGED <<server, unassigned, trash, opening, hydration, counters, history>>

\* slotDocs, too, is the one of the handler's start when it looks for the
\* document that is open: it was in the slot the click saw it in
Deleted(r) ==
    /\ r.kind = "delete" /\ Done(r)
    /\ slots' = [s \in Slots |-> IF slots[s] # Nothing /\ slots[s].doc = r.doc
                                 THEN Nothing ELSE slots[s]]
    /\ unassigned' = [unassigned EXCEPT ![r.doc] = Nothing]
    /\ Close(r, r.slot)
    /\ Nonce
    /\ UNCHANGED <<server, trash, opening, hydration, counters, history>>

\* Purged, or restored: it leaves the trash and is put nowhere else
LeftTrash(r) ==
    /\ r.kind \in {"purge", "restore"} /\ Done(r)
    /\ trash' = [trash EXCEPT ![r.doc] = Nothing]
    /\ restored' = IF r.kind = "restore" THEN restored \cup {r.doc} ELSE restored
    /\ Nonce
    /\ UNCHANGED <<server, slots, unassigned, active, opening, hydration, counters, complete,
                   disturbed>>

Assigned(r) ==
    /\ r.kind = "move" /\ r.entry # Nothing /\ Done(r)
    /\ slots' = [slots EXCEPT ![r.to] = r.entry]
    /\ unassigned' = [unassigned EXCEPT ![r.doc] = Nothing]
    /\ Nonce
    /\ UNCHANGED <<server, trash, active, opening, hydration, counters, history>>

Relocated(r) ==
    /\ r.kind = "move" /\ r.entry = Nothing /\ Done(r)
    /\ IF r.to = "elsewhere"
       THEN /\ slots' = [slots EXCEPT ![r.slot] = Nothing]
            /\ Close(r, r.slot)
       ELSE /\ slots' = IF slots[r.slot] = Nothing THEN slots
                        ELSE [slots EXCEPT ![r.slot] = Nothing, ![r.to] = slots[r.slot]]
            /\ active' = IF r.opened = r.slot THEN r.to ELSE active
    /\ Nonce
    /\ UNCHANGED <<server, unassigned, trash, opening, hydration, counters, history>>

Uploaded(r) ==
    /\ r.kind = "upload" /\ Done(r)
    /\ slots' = [slots EXCEPT ![r.slot] = [doc |-> r.doc, persisted |-> TRUE, file |-> r.file,
                                             label |-> r.file]]
    /\ opening' \in {opening, opening \cup {r.slot}}
    /\ Nonce
    /\ UNCHANGED <<server, unassigned, trash, active, hydration, counters, history>>

\* The request or its answer is lost.  A PDF that could not be saved is shown
\* without an id, any other file is not.
Fails(r) ==
    /\ requests' = requests \ {r}
    /\ disturbed' = (disturbed \/ r.served)
    /\ \/ UNCHANGED <<board, complete>>
       \/ /\ r.kind = "upload"
          /\ complete' = (complete /\ ~Saved(slots[r.slot]))
          /\ slots' = [slots EXCEPT ![r.slot] =
                          [doc |-> Nothing, persisted |-> FALSE, file |-> r.file, label |-> 0]]
          /\ opening' \in {opening, opening \cup {r.slot}}
          /\ UNCHANGED <<unassigned, trash, active>>
    /\ UNCHANGED <<server, lists, counters, restored>>

Answer(r) == \/ Detached(r) \/ Deleted(r) \/ LeftTrash(r) \/ Assigned(r) \/ Relocated(r)
             \/ Uploaded(r) \/ Fails(r)

-----------------------------------------------------------------------------
(* Reading the lists *)

Items == {[doc |-> d, at |-> at[d], label |-> held[d]] :
             d \in {e \in Docs : at[e] \notin {Nothing, "elsewhere"}}}

\* The effect runs again: the answers of its last run are dropped
Hydrate ==
    /\ sent < MaxRequests
    /\ sent' = sent + 1
    /\ hydration' = [items |-> {}, listed |-> FALSE]
    /\ disturbed' = (disturbed \/ requests # {})
    /\ UNCHANGED <<server, board, requests, refresh, files, restored, complete>>

HydrationListed ==
    /\ hydration # Nothing /\ ~hydration.listed
    /\ hydration' = [items |-> Items, listed |-> TRUE]
    /\ UNCHANGED <<server, board, requests, refresh, counters, history>>

Shown(i) == [doc |-> i.doc, persisted |-> TRUE, file |-> held[i.doc], label |-> i.label]
Listed(items, d, place) == \E i \in items : i.doc = d /\ i.at = place
ItemOf(items, d) == CHOOSE i \in items : i.doc = d

\* The files are fetched one by one; those that fail are left out.  The slots
\* keep what no item replaces, the other lists are made anew.
HydrationReturns ==
    /\ hydration # Nothing /\ hydration.listed
    /\ hydration' = Nothing
    /\ \E got \in SUBSET hydration.items :
         /\ slots' = [s \in Slots |->
                        IF \E i \in got : i.at = s
                        THEN Shown(CHOOSE i \in got : i.at = s) ELSE slots[s]]
         /\ unassigned' = [d \in Docs |-> IF Listed(got, d, "unassigned")
                                          THEN Shown(ItemOf(got, d)) ELSE Nothing]
         /\ trash' = [d \in Docs |-> IF Listed(got, d, "trash")
                                     THEN Shown(ItemOf(got, d)) ELSE Nothing]
         /\ complete' = (got = hydration.items)
         /\ restored' = restored \ {i.doc : i \in got}
    /\ UNCHANGED <<server, active, opening, requests, refresh, counters, disturbed>>

HydrationFails ==
    /\ hydration # Nothing
    /\ hydration' = Nothing
    /\ UNCHANGED <<server, board, requests, refresh, counters, history>>

RefreshListed ==
    /\ refresh # Nothing /\ ~refresh.listed
    /\ refresh' = [items |-> Items, listed |-> TRUE]
    /\ UNCHANGED <<server, board, requests, hydration, counters, history>>

\* Only the slots that show something, only their id and label
RefreshReturns ==
    /\ refresh # Nothing /\ refresh.listed
    /\ refresh' = Nothing
    /\ slots' = [s \in Slots |->
                   IF slots[s] # Nothing /\ \E i \in refresh.items : i.at = s
                   THEN LET i == CHOOSE i \in refresh.items : i.at = s
                        IN [slots[s] EXCEPT !.doc = i.doc, !.label = i.label]
                   ELSE slots[s]]
    /\ disturbed' = (disturbed \/ \E s \in Slots, i \in refresh.items :
                                    slots[s] # Nothing /\ ~slots[s].persisted /\ i.at = s)
    /\ UNCHANGED <<server, unassigned, trash, active, opening, requests, hydration, counters,
                   restored, complete>>

RefreshFails ==
    /\ refresh # Nothing
    /\ refresh' = Nothing
    /\ UNCHANGED <<server, board, requests, hydration, counters, history>>

-----------------------------------------------------------------------------
User == \/ \E s \in Slots : ClearSlot(s) \/ ClearUnsaved(s) \/ UploadTo(s) \/ OpenSlot(s)
        \/ \E d \in Docs : \/ Delete(d)
                           \/ \E k \in {"purge", "restore"} : FromTrash(k, d)
                           \/ \E s \in Slots : Assign(d, s)
        \/ \E s \in Slots, t \in Slots \cup {"elsewhere"} : RelocateDoc(s, t)
        \/ Hydrate

Next == \/ User
        \/ \E r \in requests : Serve(r) \/ Answer(r)
        \/ \E s \in Slots : Activate(s)
        \/ HydrationListed \/ HydrationReturns \/ HydrationFails
        \/ RefreshListed \/ RefreshReturns \/ RefreshFails

Spec == Init /\ [][Next]_vars

-----------------------------------------------------------------------------
(* Properties *)

Settled(s) == \A r \in requests : ~Concerns(r, s)
Quiet(d) == \A r \in requests : r.doc # d

\* While no two requests met, what the board shows is what the server has: a
\* saved document of a slot is in that slot, with that file under that label,
\* a detached one is detached, one of the trash is in the trash.
ShownIsThere ==
    ~disturbed =>
        /\ \A s \in Slots : (Saved(slots[s]) /\ Settled(s) /\ Quiet(slots[s].doc)) =>
             /\ at[slots[s].doc] = s
             /\ slots[s].file = held[slots[s].doc] /\ slots[s].label = slots[s].file
        /\ \A d \in Docs : Quiet(d) => /\ unassigned[d] # Nothing => at[d] = "unassigned"
                                       /\ trash[d] # Nothing => at[d] = "trash"

\* Then, after a hydration that got every file, no document of a slot and no
\* detached one is missing from the board, but for one that was restored
\* meanwhile or lies behind a file that could not be saved.
NothingMissing ==
    (~disturbed /\ complete /\ requests = {}) =>
        \A d \in Docs \ restored :
            /\ at[d] \in Slots => slots[at[d]] # Nothing /\ slots[at[d]].doc = d
            /\ at[d] = "unassigned" => unassigned[d] # Nothing

\* Then the active slot shows a document: the handlers that empty a slot go by
\* the activeSlotKey of their start, which openings may have changed since.
ActiveIsShown == ~disturbed /\ active # Nothing => slots[active] # Nothing
=============================================================================
