--------------------------- MODULE WorkspaceSync ---------------------------
(***************************************************************************)
(* The DocuGrid workspace of the browser and its copy on the server.       *)
(*                                                                         *)
(* One store (docugrid-store.ts) holds the pages of the slot that is open. *)
(* useDocugridAutoSync saves it two seconds after it becomes dirty and     *)
(* once more when the open slot changes; hydrateDocugridForSlot fills it   *)
(* when a slot is opened, from a stored workspace when the slot has one.   *)
(* The server keeps one row per workspace and, in the slot's row, the id   *)
(* of its workspace (docugrid_persist_service.py).                         *)
(*                                                                         *)
(* Pages are abstracted to the slot they were built from and a revision    *)
(* that every operation on the page list renews.                           *)
(***************************************************************************)
EXTENDS Naturals

CONSTANTS Slots,        \* keys of the slots of one client and period
          Nothing,      \* no slot, no workspace, no pages
          MaxRevs,      \* bound: revisions of page lists ever made
          MaxRequests   \* bound: saves and loads ever sent

ASSUME BoundsAreNatural == MaxRevs \in Nat /\ MaxRequests \in Nat
ASSUME NothingIsOutside ==
    /\ Nothing \notin Slots \cup Nat
    /\ Nothing \notin [of : Slots, rev : Nat]

VARIABLES
    store,       \* the zustand store: pages, persistedDocumentId, sessionSyncStatus
    active,      \* activeSlotKey, hence the scope of the autosave effects
    clientLink,  \* slotDocs[key].docugridDocumentId
    saves,       \* POST /api/docugrid/save in flight
    loads,       \* GET /api/docugrid/load in flight
    workspaces,  \* the server's workspaces: id -> pages
    link,        \* slot_documents.docugrid_document_id
    revs,        \* revisions made so far
    sent,        \* requests sent so far
    overlapped   \* history: the store was edited or refilled behind a pending
                 \* request, or refilled for one slot while another was active

vars == <<store, active, clientLink, saves, loads, workspaces, link, revs, sent, overlapped>>
serverVars == <<workspaces, link>>

\* A new workspace gets an id of its own (uuid4); here the number of its save
Ids    == 1..MaxRequests
Pages  == [of : Slots, rev : 1..MaxRevs]
Status == {"idle", "dirty", "saving", "saved", "error"}
Save   == [n : 1..MaxRequests, scope : Slots, id : Ids \cup {Nothing},
           pages : Pages \cup {Nothing}, stored : Ids \cup {Nothing}]
Load   == [n : 1..MaxRequests, slot : Slots, id : Ids,
           got : Pages \cup {Nothing}, answered : BOOLEAN]

TypeOK ==
    /\ store \in [pages : Pages \cup {Nothing}, id : Ids \cup {Nothing}, status : Status]
    /\ active \in Slots \cup {Nothing}
    /\ clientLink \in [Slots -> Ids \cup {Nothing}]
    /\ saves \subseteq Save
    /\ loads \subseteq Load
    /\ workspaces \in [Ids -> Pages \cup {Nothing}]
    /\ link \in [Slots -> Ids \cup {Nothing}]
    /\ revs \in 0..MaxRevs
    /\ sent \in 0..MaxRequests
    /\ overlapped \in BOOLEAN

Init ==
    /\ store = [pages |-> Nothing, id |-> Nothing, status |-> "idle"]
    /\ active = Nothing
    /\ clientLink = [s \in Slots |-> Nothing]
    /\ saves = {}
    /\ loads = {}
    /\ workspaces = [i \in Ids |-> Nothing]
    /\ link = [s \in Slots |-> Nothing]
    /\ revs = 0
    /\ sent = 0
    /\ overlapped = FALSE

-----------------------------------------------------------------------------
(* The store's own operations *)

Pending == saves \cup loads # {}

\* initialDocugridState
EmptyStore == [pages |-> Nothing, id |-> Nothing, status |-> "idle"]

\* resetDocugrid, then addFile with the pages of the slot's PDF
FreshStore(s) == [pages |-> [of |-> s, rev |-> revs + 1], id |-> Nothing, status |-> "dirty"]

\* hydrateFromServer
LoadedStore(l) == [pages |-> l.got, id |-> l.id, status |-> "saved"]

\* What saveToCloud posts: the body is read from the store as it is now,
\* the scope is the one the effect was created with.
SaveOf(scope, st) ==
    [n |-> sent + 1, scope |-> scope, id |-> st.id, pages |-> st.pages, stored |-> Nothing]

\* The cleanup of the second effect of useDocugridAutoSync runs when the
\* scope changes from `active` to `next`; it looks at the store of that moment
Flushes(next, st) == active \notin {Nothing, next} /\ st.status = "dirty"

\* The store becomes st and `next` the active slot, with that cleanup
SwitchTo(next, st) ==
    /\ active' = next
    /\ IF Flushes(next, st)
       THEN /\ sent < MaxRequests
            /\ sent' = sent + 1
            /\ saves' = saves \cup {SaveOf(active, st)}
            /\ store' = [st EXCEPT !.status = "saving"]
       ELSE /\ store' = st
            /\ UNCHANGED <<saves, sent>>

-----------------------------------------------------------------------------
(* What the user does *)

\* activateDoc for a slot without a stored workspace: reset, addFile, then
\* setActiveSlotKey, with no other handler in between. A PDF whose pages are
\* not counted leaves the store empty.
OpenFresh(s) ==
    /\ s # active
    /\ clientLink[s] = Nothing
    /\ overlapped' = (overlapped \/ Pending \/ active # Nothing)
    /\ \/ /\ revs < MaxRevs
          /\ revs' = revs + 1
          /\ SwitchTo(s, FreshStore(s))
       \/ /\ SwitchTo(s, EmptyStore)
          /\ UNCHANGED revs
    /\ UNCHANGED <<clientLink, loads, serverVars>>

\* activateDoc for a slot with one: the store is emptied and waits, the
\* active slot stays until the answer
OpenStored(s) ==
    /\ s # active
    /\ clientLink[s] # Nothing
    /\ sent < MaxRequests
    /\ sent' = sent + 1
    /\ loads' = loads \cup {[n |-> sent + 1, slot |-> s, id |-> clientLink[s],
                             got |-> Nothing, answered |-> FALSE]}
    /\ store' = [EmptyStore EXCEPT !.status = "saving"]
    /\ overlapped' = (overlapped \/ Pending \/ active # Nothing)
    /\ UNCHANGED <<active, clientLink, saves, serverVars, revs>>

\* Mutant: an operation on the pages that does not mark the store dirty.
EditQuiet ==
    /\ store.pages # Nothing
    /\ revs < MaxRevs
    /\ revs' = revs + 1
    /\ store' = [store EXCEPT !.pages.rev = revs + 1]
    /\ overlapped' = (overlapped \/ Pending)
    /\ UNCHANGED <<active, clientLink, saves, loads, serverVars, sent>>

\* reorderPages, replacePrimaryPageOrder, removePageSlotsAtIndices,
\* keepOnlyPageSlotsAtIndices, ensurePrimaryFilePageCount, addHighlight
Edit ==
    /\ store.pages # Nothing
    /\ revs < MaxRevs
    /\ revs' = revs + 1
    /\ store' = [store EXCEPT !.pages.rev = revs + 1, !.status = "dirty"]
    /\ overlapped' = (overlapped \/ Pending)
    /\ UNCHANGED <<active, clientLink, saves, loads, serverVars, sent>>

\* clearActiveViewer: the slot is closed, the store keeps its pages
CloseSlot ==
    /\ active # Nothing
    /\ SwitchTo(Nothing, store)
    /\ UNCHANGED <<clientLink, loads, serverVars, revs, overlapped>>

\* Another client or period: the slot is closed and the store is reset behind
\* a dynamic import, so the cleanup sees the store before or after the reset
LeavePeriod ==
    /\ active # Nothing \/ store # EmptyStore
    /\ active' = Nothing
    /\ store' = EmptyStore
    /\ \/ /\ Flushes(Nothing, store)
          /\ sent < MaxRequests
          /\ sent' = sent + 1
          /\ saves' = saves \cup {SaveOf(active, store)}
       \/ UNCHANGED <<saves, sent>>
    /\ overlapped' = (overlapped \/ Pending)
    /\ UNCHANGED <<clientLink, loads, serverVars, revs>>

\* The list of the slots is read again and the links with it
Hydrate ==
    /\ clientLink # link
    /\ clientLink' = link
    /\ UNCHANGED <<store, active, saves, loads, serverVars, revs, sent, overlapped>>

-----------------------------------------------------------------------------
(* Saving *)

\* Mutant: only a workspace that the server already has is saved.
AutoSaveKnown ==
    /\ store.status = "dirty" /\ store.id # Nothing
    /\ active # Nothing
    /\ sent < MaxRequests
    /\ sent' = sent + 1
    /\ saves' = saves \cup {SaveOf(active, store)}
    /\ store' = [store EXCEPT !.status = "saving"]
    /\ UNCHANGED <<active, clientLink, loads, serverVars, revs, overlapped>>

\* The two-second timer of the first effect, or the button of the status bar
AutoSave ==
    /\ store.status = "dirty"
    /\ active # Nothing
    /\ sent < MaxRequests
    /\ sent' = sent + 1
    /\ saves' = saves \cup {SaveOf(active, store)}
    /\ store' = [store EXCEPT !.status = "saving"]
    /\ UNCHANGED <<active, clientLink, loads, serverVars, revs, overlapped>>

\* save_workspace replaces the row of the id it is given, or makes one, and
\* the slot named by the scope is linked to it
Target(r) == IF r.id # Nothing THEN r.id ELSE r.n

\* Mutant: the slot is linked to a new id although the row keeps its own.
SaveServedNewLink(r) ==
    /\ r.stored = Nothing
    /\ workspaces' = [workspaces EXCEPT ![Target(r)] = r.pages]
    /\ link' = [link EXCEPT ![r.scope] = r.n]
    /\ saves' = (saves \ {r}) \cup {[r EXCEPT !.stored = Target(r)]}
    /\ UNCHANGED <<store, active, clientLink, loads, revs, sent, overlapped>>

SaveServed(r) ==
    /\ r.stored = Nothing
    /\ workspaces' = [workspaces EXCEPT ![Target(r)] = r.pages]
    /\ link' = [link EXCEPT ![r.scope] = Target(r)]
    /\ saves' = (saves \ {r}) \cup {[r EXCEPT !.stored = Target(r)]}
    /\ UNCHANGED <<store, active, clientLink, loads, revs, sent, overlapped>>

\* markRemotePersisted on whatever the store holds now, then onDocugridSaved
SaveReturns(r) ==
    /\ r.stored # Nothing
    /\ saves' = saves \ {r}
    /\ store' = [store EXCEPT !.id = r.stored, !.status = "saved"]
    /\ clientLink' = [clientLink EXCEPT ![r.scope] = r.stored]
    /\ UNCHANGED <<active, loads, serverVars, revs, sent, overlapped>>

\* The request or its answer is lost: saveToCloud leaves "error"
SaveFails(r) ==
    /\ saves' = saves \ {r}
    /\ store' = [store EXCEPT !.status = "error"]
    /\ UNCHANGED <<active, clientLink, loads, serverVars, revs, sent, overlapped>>

-----------------------------------------------------------------------------
(* Loading *)

LoadServed(l) ==
    /\ ~l.answered
    /\ loads' = (loads \ {l}) \cup {[l EXCEPT !.answered = TRUE, !.got = workspaces[l.id]]}
    /\ UNCHANGED <<store, active, clientLink, saves, serverVars, revs, sent, overlapped>>

LoadReturns(l) ==
    /\ l.answered /\ l.got # Nothing
    /\ loads' = loads \ {l}
    /\ SwitchTo(l.slot, LoadedStore(l))
    /\ UNCHANGED <<clientLink, serverVars, revs, overlapped>>

\* The load failed: the workspace is built again from the PDF
LoadFails(l) ==
    /\ loads' = loads \ {l}
    /\ \/ /\ revs < MaxRevs
          /\ revs' = revs + 1
          /\ SwitchTo(l.slot, FreshStore(l.slot))
       \/ /\ SwitchTo(l.slot, EmptyStore)
          /\ UNCHANGED revs
    /\ UNCHANGED <<clientLink, serverVars, overlapped>>

-----------------------------------------------------------------------------
Server   == (\E r \in saves : SaveServed(r)) \/ (\E l \in loads : LoadServed(l))
SaveEnds == \E r \in saves : SaveReturns(r) \/ SaveFails(r)
LoadEnds == \E l \in loads : LoadReturns(l) \/ LoadFails(l)
User     == \/ \E s \in Slots : OpenFresh(s) \/ OpenStored(s)
            \/ Edit \/ CloseSlot \/ LeavePeriod \/ Hydrate

Next == User \/ AutoSave \/ Server \/ SaveEnds \/ LoadEnds

Spec == Init /\ [][Next]_vars

\* The timer fires, the server answers and the answers are handled
Fairness == WF_vars(AutoSave) /\ WF_vars(Server) /\ WF_vars(SaveEnds) /\ WF_vars(LoadEnds)
FairSpec == Spec /\ Fairness

-----------------------------------------------------------------------------
(* Properties *)

\* The status bar shows "saving" only while a request that will end it is
\* under way: no order of answers, failures and resets leaves the store
\* waiting for nothing.
SavingHasRequest == store.status = "saving" => Pending

\* Every workspace id in the browser or in a slot's row is one that the server
\* holds, whatever order saves and their answers take: opening a slot by its
\* link never asks for a workspace that was not written.
LinksResolve ==
    /\ \A s \in Slots : link[s] # Nothing => workspaces[link[s]] # Nothing
    /\ \A s \in Slots : clientLink[s] # Nothing => workspaces[clientLink[s]] # Nothing
    /\ store.id # Nothing => workspaces[store.id] # Nothing
    /\ \A r \in saves : r.id # Nothing => workspaces[r.id] # Nothing

\* As long as nothing was edited or opened behind a pending request, and no
\* slot was opened over another one, "saved" means that the server holds the
\* pages on the screen, and no slot is linked to pages of another slot.
HonestWhenAlone ==
    ~overlapped =>
        /\ store.status = "saved" /\ store.pages # Nothing =>
               store.id # Nothing /\ workspaces[store.id] = store.pages
        /\ \A s \in Slots : link[s] # Nothing => workspaces[link[s]].of = s

\* Pages that became dirty in an open slot are taken by the autosave and the
\* save ends, unless the slot is left (or the bound on requests is reached).
DirtyIsSaved ==
    \A s \in Slots :
        (store.status = "dirty" /\ active = s)
            ~> (store.status \in {"saved", "error"} \/ active # s \/ sent = MaxRequests)
=============================================================================
