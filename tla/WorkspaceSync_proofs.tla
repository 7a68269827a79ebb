------------------------ MODULE WorkspaceSync_proofs ------------------------
(***************************************************************************)
(* Theorems about WorkspaceSync for every number of slots, revisions and   *)
(* requests: its types, that "saving" is never shown for nothing, that no  *)
(* link ever names a workspace the server does not hold, and that "saved"  *)
(* is honest as long as nothing overlaps a request.                        *)
(*                                                                         *)
(* LinksResolve is not inductive: a save must also carry pages, which it   *)
(* does because a dirty store has some, and a load must ask for a          *)
(* workspace that is there. Written adds this.                             *)
(***************************************************************************)
EXTENDS WorkspaceSync, TLAPS

Written ==
    /\ LinksResolve
    /\ store.status = "dirty" => store.pages # Nothing
    /\ \A r \in saves : /\ r.pages # Nothing
                        /\ r.stored # Nothing => workspaces[r.stored] # Nothing
    /\ \A l \in loads : workspaces[l.id] # Nothing

Inv == TypeOK /\ SavingHasRequest /\ Written

USE BoundsAreNatural, NothingIsOutside

\* The initial state satisfies the invariant: nothing is linked or sent
LEMMA InvInit == Init => Inv
  <1> SUFFICES ASSUME Init PROVE Inv
    OBVIOUS
  <1>1. TypeOK
    <2>1. store \in [pages : Pages \cup {Nothing}, id : Ids \cup {Nothing}, status : Status]
      BY DEF Init, Status
    <2>2. /\ clientLink \in [Slots -> Ids \cup {Nothing}]
          /\ workspaces \in [Ids -> Pages \cup {Nothing}]
          /\ link \in [Slots -> Ids \cup {Nothing}]
      BY DEF Init
    <2>3. saves \subseteq Save /\ loads \subseteq Load
      BY DEF Init
    <2>4. revs \in 0..MaxRevs /\ sent \in 0..MaxRequests
      BY DEF Init
    <2>5. active \in Slots \cup {Nothing} /\ overlapped \in BOOLEAN
      BY DEF Init
    <2> QED BY <2>1, <2>2, <2>3, <2>4, <2>5, Zenon DEF TypeOK
  <1>2. SavingHasRequest
    BY DEF Init, SavingHasRequest
  <1>3. Written
    BY DEF Init, Written, LinksResolve
  <1> QED BY <1>1, <1>2, <1>3 DEF Inv

\* What SwitchTo does to the store, the requests and the active slot
LEMMA SwitchKeeps ==
  ASSUME Inv, NEW next \in Slots \cup {Nothing},
         NEW st \in [pages : Pages \cup {Nothing}, id : Ids \cup {Nothing}, status : Status],
         st.status = "dirty" => st.pages # Nothing,
         st.status = "saving" => saves \cup loads # {},
         st.id # Nothing => workspaces[st.id] # Nothing,
         SwitchTo(next, st)
  PROVE  /\ store' \in [pages : Pages \cup {Nothing}, id : Ids \cup {Nothing}, status : Status]
         /\ active' \in Slots \cup {Nothing}
         /\ saves' \subseteq Save
         /\ sent' \in 0..MaxRequests
         /\ store'.status = "dirty" => store'.pages # Nothing
         /\ store'.id # Nothing => workspaces[store'.id] # Nothing
         /\ \A r \in saves' : /\ r.pages # Nothing
                              /\ r.stored # Nothing => workspaces[r.stored] # Nothing
                              /\ r.id # Nothing => workspaces[r.id] # Nothing
         /\ saves \subseteq saves'
         /\ (store'.status = "saving" /\ st.status # "saving") => saves' # {}
  <1>1. CASE Flushes(next, st)
    <2>1. /\ active \in Slots /\ st.status = "dirty" /\ sent < MaxRequests
          /\ sent' = sent + 1 /\ active' = next
          /\ saves' = saves \cup {SaveOf(active, st)}
          /\ store' = [st EXCEPT !.status = "saving"]
      BY <1>1 DEF SwitchTo, Flushes, Inv, TypeOK
    <2>2. SaveOf(active, st) \in Save
      BY <2>1 DEF SaveOf, Save, Inv, TypeOK, Ids
    <2>3. /\ SaveOf(active, st).pages # Nothing
          /\ SaveOf(active, st).stored = Nothing
          /\ SaveOf(active, st).id = st.id
      BY <2>1 DEF SaveOf
    <2> QED BY <2>1, <2>2, <2>3 DEF Inv, TypeOK, Written, LinksResolve, Status
  <1>2. CASE ~Flushes(next, st)
    BY <1>2 DEF SwitchTo, Inv, TypeOK, Written, LinksResolve
  <1> QED BY <1>1, <1>2

\* A handler that ends with SwitchTo and leaves the rest alone keeps the
\* invariant, whatever the loads it removes and the revision it makes
LEMMA SwitchInv ==
  ASSUME Inv, NEW next \in Slots \cup {Nothing},
         NEW st \in [pages : Pages \cup {Nothing}, id : Ids \cup {Nothing}, status : Status],
         st.status = "dirty" => st.pages # Nothing,
         st.status = "saving" => st = store /\ loads' = loads,
         st.id # Nothing => workspaces[st.id] # Nothing,
         SwitchTo(next, st),
         loads' \subseteq loads, revs' \in 0..MaxRevs, overlapped' \in BOOLEAN,
         UNCHANGED <<clientLink, workspaces, link>>
  PROVE  Inv'
  <1>0. st.status = "saving" => saves \cup loads # {}
    BY DEF Inv, SavingHasRequest, Pending
  <1>a. /\ store' \in [pages : Pages \cup {Nothing}, id : Ids \cup {Nothing}, status : Status]
        /\ active' \in Slots \cup {Nothing}
        /\ saves' \subseteq Save
        /\ sent' \in 0..MaxRequests
    BY <1>0, SwitchKeeps
  <1>b. /\ store'.status = "dirty" => store'.pages # Nothing
        /\ store'.id # Nothing => workspaces[store'.id] # Nothing
        /\ \A r \in saves' : /\ r.pages # Nothing
                             /\ r.stored # Nothing => workspaces[r.stored] # Nothing
                             /\ r.id # Nothing => workspaces[r.id] # Nothing
    BY <1>0, SwitchKeeps
  <1>c. /\ saves \subseteq saves'
        /\ (store'.status = "saving" /\ st.status # "saving") => saves' # {}
    BY <1>0, SwitchKeeps
  <1>1. TypeOK'
    BY <1>a DEF Inv, TypeOK
  <1>2. SavingHasRequest'
    BY <1>0, <1>c DEF SavingHasRequest, Pending
  <1>3. Written'
    BY <1>b DEF Inv, Written, LinksResolve
  <1> QED BY <1>1, <1>2, <1>3 DEF Inv

\* Both ways to fill the store when a slot is opened keep it
LEMMA FreshStoreFits ==
  ASSUME Inv, NEW s \in Slots, revs < MaxRevs
  PROVE  /\ FreshStore(s) \in [pages : Pages \cup {Nothing}, id : Ids \cup {Nothing}, status : Status]
         /\ FreshStore(s).status = "dirty" /\ FreshStore(s).pages # Nothing
         /\ FreshStore(s).id = Nothing
         /\ revs + 1 \in 0..MaxRevs
  <1>1. [of |-> s, rev |-> revs + 1] \in Pages
    BY DEF Pages, Inv, TypeOK
  <1>2. [of |-> s, rev |-> revs + 1] # Nothing
    BY DEF Inv, TypeOK
  <1> QED BY <1>1, <1>2 DEF FreshStore, Status, Inv, TypeOK

LEMMA EmptyStoreFits ==
  /\ EmptyStore \in [pages : Pages \cup {Nothing}, id : Ids \cup {Nothing}, status : Status]
  /\ EmptyStore.status = "idle" /\ EmptyStore.id = Nothing
  BY DEF EmptyStore, Status

\* Opening a slot without a stored workspace keeps the invariant
LEMMA OpenFreshKeeps == ASSUME Inv, NEW s \in Slots, OpenFresh(s) PROVE Inv'
  <1>0. /\ UNCHANGED <<clientLink, workspaces, link>>
        /\ loads' = loads
        /\ overlapped' \in BOOLEAN
        /\ revs \in 0..MaxRevs
    BY DEF OpenFresh, serverVars, Inv, TypeOK
  <1>1. CASE revs < MaxRevs /\ revs' = revs + 1 /\ SwitchTo(s, FreshStore(s))
    BY <1>0, <1>1, FreshStoreFits, SwitchInv
  <1>2. CASE SwitchTo(s, EmptyStore) /\ UNCHANGED revs
    BY <1>0, <1>2, EmptyStoreFits, SwitchInv
  <1> QED BY <1>1, <1>2 DEF OpenFresh

\* Asking for a stored workspace: the store waits for the load
LEMMA OpenStoredKeeps == ASSUME Inv, NEW s \in Slots, OpenStored(s) PROVE Inv'
  <1> DEFINE l == [n |-> sent + 1, slot |-> s, id |-> clientLink[s],
                   got |-> Nothing, answered |-> FALSE]
  <1>0. /\ UNCHANGED <<active, clientLink, saves, workspaces, link, revs>>
        /\ clientLink[s] # Nothing /\ sent' \in 0..MaxRequests
        /\ loads' = loads \cup {l}
        /\ store' = [EmptyStore EXCEPT !.status = "saving"]
        /\ overlapped' \in BOOLEAN
    BY DEF OpenStored, serverVars, Inv, TypeOK
  <1>1. l \in Load /\ l.id = clientLink[s]
    BY DEF OpenStored, Load, Inv, TypeOK
  <1> HIDE DEF l
  <1>2. /\ store' \in [pages : Pages \cup {Nothing}, id : Ids \cup {Nothing}, status : Status]
        /\ store'.status = "saving" /\ store'.id = Nothing
    BY <1>0 DEF EmptyStore, Status
  <1>3. TypeOK'
    BY <1>0, <1>1, <1>2 DEF Inv, TypeOK
  <1>4. SavingHasRequest'
    BY <1>0 DEF SavingHasRequest, Pending
  <1>5. Written'
    BY <1>0, <1>1, <1>2 DEF Inv, TypeOK, Written, LinksResolve
  <1> QED BY <1>3, <1>4, <1>5 DEF Inv

\* An edit has pages to change
LEMMA EditKeeps == ASSUME Inv, Edit PROVE Inv'
  <1>0. /\ UNCHANGED <<active, clientLink, saves, loads, workspaces, link, sent>>
        /\ store.pages \in Pages /\ revs < MaxRevs /\ revs' = revs + 1
        /\ store' = [store EXCEPT !.pages.rev = revs + 1, !.status = "dirty"]
        /\ overlapped' \in BOOLEAN
    BY DEF Edit, serverVars, Inv, TypeOK
  <1>1. [store.pages EXCEPT !.rev = revs + 1] \in Pages
    BY <1>0 DEF Pages, Inv, TypeOK
  <1>2. [store.pages EXCEPT !.rev = revs + 1] # Nothing
    BY <1>1 DEF Pages
  <1>3. store' = [pages |-> [store.pages EXCEPT !.rev = revs + 1],
                  id |-> store.id, status |-> "dirty"]
    BY <1>0 DEF Inv, TypeOK
  <1>4. TypeOK'
    BY <1>0, <1>1, <1>3 DEF Inv, TypeOK, Status
  <1>5. SavingHasRequest'
    BY <1>3 DEF SavingHasRequest
  <1>6. Written'
    BY <1>0, <1>2, <1>3 DEF Inv, Written, LinksResolve
  <1> QED BY <1>4, <1>5, <1>6 DEF Inv

\* Closing the slot, with the save that may be flushed
LEMMA CloseSlotKeeps == ASSUME Inv, CloseSlot PROVE Inv'
  <1>0. /\ UNCHANGED <<clientLink, loads, workspaces, link>>
        /\ revs' \in 0..MaxRevs /\ overlapped' \in BOOLEAN
        /\ SwitchTo(Nothing, store)
    BY DEF CloseSlot, serverVars, Inv, TypeOK
  <1>1. /\ store \in [pages : Pages \cup {Nothing}, id : Ids \cup {Nothing}, status : Status]
        /\ store.status = "dirty" => store.pages # Nothing
        /\ store.id # Nothing => workspaces[store.id] # Nothing
    BY DEF Inv, TypeOK, Written, LinksResolve
  <1> QED BY <1>0, <1>1, SwitchInv

\* Leaving the client or the period, before or after the store is reset
LEMMA LeavePeriodKeeps == ASSUME Inv, LeavePeriod PROVE Inv'
  <1>0. /\ UNCHANGED <<clientLink, loads, workspaces, link, revs>>
        /\ active' = Nothing /\ store' = EmptyStore /\ overlapped' \in BOOLEAN
    BY DEF LeavePeriod, serverVars, Inv, TypeOK
  <1>1. /\ saves' \subseteq Save /\ sent' \in 0..MaxRequests
        /\ \A r \in saves' : /\ r.pages # Nothing
                             /\ r.stored # Nothing => workspaces[r.stored] # Nothing
                             /\ r.id # Nothing => workspaces[r.id] # Nothing
    <2>1. CASE /\ Flushes(Nothing, store) /\ sent < MaxRequests
               /\ sent' = sent + 1 /\ saves' = saves \cup {SaveOf(active, store)}
      <3>1. SaveOf(active, store) \in Save
        BY <2>1 DEF Flushes, SaveOf, Save, Inv, TypeOK, Ids
      <3>2. /\ SaveOf(active, store).pages # Nothing
            /\ SaveOf(active, store).stored = Nothing
            /\ SaveOf(active, store).id = store.id
        BY <2>1 DEF Flushes, SaveOf, Inv, Written
      <3> QED BY <2>1, <3>1, <3>2 DEF Inv, TypeOK, Written, LinksResolve
    <2>2. CASE UNCHANGED <<saves, sent>>
      BY <2>2 DEF Inv, TypeOK, Written, LinksResolve
    <2> QED BY <2>1, <2>2 DEF LeavePeriod
  <1>2. TypeOK'
    BY <1>0, <1>1, EmptyStoreFits DEF Inv, TypeOK
  <1>3. SavingHasRequest'
    BY <1>0, EmptyStoreFits DEF SavingHasRequest
  <1>4. Written'
    BY <1>0, <1>1, EmptyStoreFits DEF Inv, Written, LinksResolve
  <1> QED BY <1>2, <1>3, <1>4 DEF Inv

\* Reading the links again
LEMMA HydrateKeeps == ASSUME Inv, Hydrate PROVE Inv'
  BY DEF Hydrate, serverVars, Inv, TypeOK, SavingHasRequest, Pending, Written, LinksResolve

\* The autosave sends the pages of the store
LEMMA AutoSaveKeeps == ASSUME Inv, AutoSave PROVE Inv'
  <1>0. /\ UNCHANGED <<active, clientLink, loads, workspaces, link, revs, overlapped>>
        /\ active \in Slots /\ store.status = "dirty" /\ sent' \in 1..MaxRequests
        /\ sent' = sent + 1
        /\ saves' = saves \cup {SaveOf(active, store)}
        /\ store' = [store EXCEPT !.status = "saving"]
    BY DEF AutoSave, serverVars, Inv, TypeOK
  <1>1. SaveOf(active, store) \in Save
    BY <1>0 DEF SaveOf, Save, Inv, TypeOK, Ids
  <1>2. /\ SaveOf(active, store).pages = store.pages
        /\ SaveOf(active, store).stored = Nothing
        /\ SaveOf(active, store).id = store.id
    BY DEF SaveOf
  <1>3. store' = [pages |-> store.pages, id |-> store.id, status |-> "saving"]
    BY <1>0 DEF Inv, TypeOK
  <1>4. TypeOK'
    BY <1>0, <1>1, <1>3 DEF Inv, TypeOK, Status
  <1>5. SavingHasRequest'
    BY <1>0 DEF SavingHasRequest, Pending
  <1>6. Written'
    BY <1>0, <1>2, <1>3 DEF Inv, Written, LinksResolve
  <1> QED BY <1>4, <1>5, <1>6 DEF Inv

\* The server stores pages under an id that only grows in use
LEMMA SaveServedKeeps == ASSUME Inv, NEW r \in saves, SaveServed(r) PROVE Inv'
  <1> DEFINE q == [r EXCEPT !.stored = Target(r)]
  <1>0. /\ UNCHANGED <<store, active, clientLink, loads, revs, sent, overlapped>>
        /\ r \in Save /\ r.pages # Nothing
        /\ workspaces' = [workspaces EXCEPT ![Target(r)] = r.pages]
        /\ link' = [link EXCEPT ![r.scope] = Target(r)]
        /\ saves' = (saves \ {r}) \cup {q}
    BY DEF SaveServed, Inv, TypeOK, Written
  <1>1. Target(r) \in Ids /\ Target(r) # Nothing
    BY <1>0 DEF Target, Save, Ids
  <1>2. /\ q \in Save /\ q.pages = r.pages /\ q.stored = Target(r) /\ q.id = r.id
    BY <1>0, <1>1 DEF Save
  <1> HIDE DEF q
  <1>3. \A i \in Ids : workspaces[i] # Nothing => workspaces'[i] # Nothing
    BY <1>0 DEF Inv, TypeOK
  <1>4. workspaces'[Target(r)] # Nothing /\ link'[r.scope] = Target(r)
    BY <1>0, <1>1 DEF Inv, TypeOK, Save
  <1>5. TypeOK'
    BY <1>0, <1>1, <1>2 DEF Inv, TypeOK, Save
  <1>6. SavingHasRequest'
    BY <1>0 DEF Inv, SavingHasRequest, Pending
  <1>7. LinksResolve'
    <2>1. \A s \in Slots : link'[s] # Nothing => workspaces'[link'[s]] # Nothing
      <3> SUFFICES ASSUME NEW s \in Slots, link'[s] # Nothing
                   PROVE  workspaces'[link'[s]] # Nothing
        OBVIOUS
      <3>1. CASE s = r.scope
        BY <3>1, <1>4
      <3>2. CASE s # r.scope
        BY <3>2, <1>0, <1>3 DEF Inv, TypeOK, Written, LinksResolve
      <3> QED BY <3>1, <3>2
    <2>2. \A s \in Slots : clientLink'[s] # Nothing => workspaces'[clientLink'[s]] # Nothing
      BY <1>0, <1>3 DEF Inv, TypeOK, Written, LinksResolve
    <2>3. store'.id # Nothing => workspaces'[store'.id] # Nothing
      BY <1>0, <1>3 DEF Inv, TypeOK, Written, LinksResolve
    <2>4. \A x \in saves' : x.id # Nothing => workspaces'[x.id] # Nothing
      BY <1>0, <1>2, <1>3 DEF Inv, TypeOK, Written, LinksResolve, Save
    <2> QED BY <2>1, <2>2, <2>3, <2>4 DEF LinksResolve
  <1>8. Written'
    <2>1. \A x \in saves' : /\ x.pages # Nothing
                            /\ x.stored # Nothing => workspaces'[x.stored] # Nothing
      BY <1>0, <1>2, <1>3, <1>4 DEF Inv, TypeOK, Written, Save
    <2>2. \A l \in loads' : workspaces'[l.id] # Nothing
      BY <1>0, <1>3 DEF Inv, TypeOK, Written, Load
    <2> QED BY <2>1, <2>2, <1>7, <1>0 DEF Inv, Written
  <1> QED BY <1>5, <1>6, <1>8 DEF Inv

\* The answer names a workspace that was written
LEMMA SaveReturnsKeeps == ASSUME Inv, NEW r \in saves, SaveReturns(r) PROVE Inv'
  <1>0. /\ UNCHANGED <<active, loads, workspaces, link, revs, sent, overlapped>>
        /\ r \in Save /\ r.stored \in Ids /\ workspaces[r.stored] # Nothing
        /\ saves' = saves \ {r}
        /\ store' = [store EXCEPT !.id = r.stored, !.status = "saved"]
        /\ clientLink' = [clientLink EXCEPT ![r.scope] = r.stored]
    BY DEF SaveReturns, serverVars, Inv, TypeOK, Written, Save
  <1>1. store' = [pages |-> store.pages, id |-> r.stored, status |-> "saved"]
    BY <1>0 DEF Inv, TypeOK
  <1>2. TypeOK'
    BY <1>0, <1>1 DEF Inv, TypeOK, Status, Save
  <1>3. SavingHasRequest'
    BY <1>1 DEF SavingHasRequest
  <1>4. \A s \in Slots : clientLink'[s] # Nothing => workspaces'[clientLink'[s]] # Nothing
    BY <1>0 DEF Inv, TypeOK, Written, LinksResolve, Save
  <1>5. Written'
    BY <1>0, <1>1, <1>4 DEF Inv, Written, LinksResolve
  <1> QED BY <1>2, <1>3, <1>5 DEF Inv

\* A failure is shown
LEMMA SaveFailsKeeps == ASSUME Inv, NEW r \in saves, SaveFails(r) PROVE Inv'
  <1>0. /\ UNCHANGED <<active, clientLink, loads, workspaces, link, revs, sent, overlapped>>
        /\ saves' = saves \ {r}
        /\ store' = [pages |-> store.pages, id |-> store.id, status |-> "error"]
    BY DEF SaveFails, serverVars, Inv, TypeOK
  <1> QED BY <1>0 DEF Inv, TypeOK, Status, SavingHasRequest, Written, LinksResolve

\* The server reads the workspace
LEMMA LoadServedKeeps == ASSUME Inv, NEW l \in loads, LoadServed(l) PROVE Inv'
  <1> DEFINE q == [l EXCEPT !.answered = TRUE, !.got = workspaces[l.id]]
  <1>0. /\ UNCHANGED <<store, active, clientLink, saves, workspaces, link, revs, sent, overlapped>>
        /\ l \in Load /\ workspaces[l.id] \in Pages \cup {Nothing}
        /\ loads' = (loads \ {l}) \cup {q}
    BY DEF LoadServed, serverVars, Inv, TypeOK, Load
  <1>1. q \in Load /\ q.id = l.id
    BY <1>0 DEF Load
  <1> HIDE DEF q
  <1> QED BY <1>0, <1>1 DEF Inv, TypeOK, SavingHasRequest, Pending, Written, LinksResolve

\* The workspace arrives and its slot becomes the active one
LEMMA LoadReturnsKeeps == ASSUME Inv, NEW l \in loads, LoadReturns(l) PROVE Inv'
  <1>0. /\ UNCHANGED <<clientLink, workspaces, link>>
        /\ l \in Load /\ l.got # Nothing /\ workspaces[l.id] # Nothing
        /\ loads' \subseteq loads /\ revs' \in 0..MaxRevs /\ overlapped' \in BOOLEAN
        /\ SwitchTo(l.slot, LoadedStore(l))
    BY DEF LoadReturns, serverVars, Inv, TypeOK, Written
  <1>1. /\ LoadedStore(l) \in [pages : Pages \cup {Nothing}, id : Ids \cup {Nothing}, status : Status]
        /\ LoadedStore(l).status = "saved" /\ LoadedStore(l).id = l.id
        /\ l.slot \in Slots
    BY <1>0 DEF LoadedStore, Load, Status
  <1> QED BY <1>0, <1>1, SwitchInv

\* The workspace is built again from the PDF
LEMMA LoadFailsKeeps == ASSUME Inv, NEW l \in loads, LoadFails(l) PROVE Inv'
  <1>0. /\ UNCHANGED <<clientLink, workspaces, link>>
        /\ l.slot \in Slots
        /\ loads' \subseteq loads /\ overlapped' \in BOOLEAN /\ revs \in 0..MaxRevs
    BY DEF LoadFails, serverVars, Inv, TypeOK, Load
  <1>1. CASE revs < MaxRevs /\ revs' = revs + 1 /\ SwitchTo(l.slot, FreshStore(l.slot))
    BY <1>0, <1>1, FreshStoreFits, SwitchInv
  <1>2. CASE SwitchTo(l.slot, EmptyStore) /\ UNCHANGED revs
    BY <1>0, <1>2, EmptyStoreFits, SwitchInv
  <1> QED BY <1>1, <1>2 DEF LoadFails

\* Every step keeps the invariant
LEMMA InvNext == Inv /\ [Next]_vars => Inv'
  <1> SUFFICES ASSUME Inv, [Next]_vars PROVE Inv'
    OBVIOUS
  <1>1. CASE User
    BY <1>1, OpenFreshKeeps, OpenStoredKeeps, EditKeeps, CloseSlotKeeps, LeavePeriodKeeps,
       HydrateKeeps DEF User
  <1>2. CASE AutoSave
    BY <1>2, AutoSaveKeeps
  <1>3. CASE Server
    BY <1>3, SaveServedKeeps, LoadServedKeeps DEF Server
  <1>4. CASE SaveEnds
    BY <1>4, SaveReturnsKeeps, SaveFailsKeeps DEF SaveEnds
  <1>5. CASE LoadEnds
    BY <1>5, LoadReturnsKeeps, LoadFailsKeeps DEF LoadEnds
  <1>6. CASE UNCHANGED vars
    BY <1>6 DEF vars, Inv, TypeOK, SavingHasRequest, Pending, Written, LinksResolve
  <1> QED BY <1>1, <1>2, <1>3, <1>4, <1>5, <1>6 DEF Next

\* In every behaviour the strengthened invariant holds
THEOREM WorkspaceInvariant == Spec => []Inv
  BY InvInit, InvNext, PTL DEF Spec

\* In every behaviour the variables have their types
THEOREM WorkspaceTyped == Spec => []TypeOK
  <1>1. Inv => TypeOK
    BY DEF Inv
  <1> QED BY <1>1, WorkspaceInvariant, PTL

\* In every behaviour "saving" is shown only while a request is under way
THEOREM SavingIsJustified == Spec => []SavingHasRequest
  <1>1. Inv => SavingHasRequest
    BY DEF Inv
  <1> QED BY <1>1, WorkspaceInvariant, PTL

\* In every behaviour no slot, store or save names a missing workspace
THEOREM NoDanglingWorkspace == Spec => []LinksResolve
  <1>1. Inv => LinksResolve
    BY DEF Inv, Written
  <1> QED BY <1>1, WorkspaceInvariant, PTL

-----------------------------------------------------------------------------
(* HonestWhenAlone is not inductive either. While nothing overlaps, at most *)
(* one request is under way; it carries the pages of the store, or of one   *)
(* that was emptied behind it; the id of a new workspace is fresh; and the  *)
(* owner of a workspace never changes, since whoever names it is its owner. *)

OnePending ==
    /\ saves = {} \/ loads = {}
    /\ \A a, b \in saves : a = b
    /\ \A a, b \in loads : a = b

Numbered ==
    /\ \A i \in Ids : workspaces[i] # Nothing => i <= sent
    /\ \A r \in saves : /\ r.n <= sent
                        /\ r.id = Nothing /\ r.stored = Nothing => workspaces[r.n] = Nothing

Owned ==
    /\ \A s \in Slots : link[s] # Nothing => workspaces[link[s]].of = s
    /\ \A s \in Slots : clientLink[s] # Nothing => workspaces[clientLink[s]].of = s
    /\ \A r \in saves : /\ r.pages.of = r.scope
                        /\ r.id # Nothing => workspaces[r.id].of = r.scope
    /\ \A l \in loads : workspaces[l.id].of = l.slot
    /\ store.pages # Nothing /\ store.id # Nothing => workspaces[store.id].of = store.pages.of
    /\ store.pages # Nothing /\ active # Nothing => store.pages.of = active

Agreed ==
    /\ store.status = "dirty" => saves = {} /\ loads = {}
    /\ store.status = "saved" /\ store.pages # Nothing =>
           store.id # Nothing /\ workspaces[store.id] = store.pages
    /\ \A r \in saves :
           /\ store.pages # Nothing => store.pages = r.pages /\ store.status = "saving"
           /\ r.stored # Nothing => workspaces[r.stored] = r.pages
    /\ \A l \in loads : /\ store.pages = Nothing /\ active = Nothing
                        /\ l.got # Nothing => workspaces[l.id] = l.got

Sole  == OnePending /\ Numbered /\ Owned /\ Agreed
Alone == ~overlapped => Sole

\* Nothing is under way at first
LEMMA AloneInit == Init => Alone
  BY DEF Init, Alone, Sole, OnePending, Numbered, Owned, Agreed

\* A save sent while nothing is under way is the only one, numbered with an id
\* that no workspace has, and for the slot that its pages belong to
LEMMA SentAlone ==
  ASSUME Inv, Sole, active \in Slots, store.status = "dirty",
         saves' = saves \cup {SaveOf(active, store)}, sent < MaxRequests, sent' = sent + 1,
         UNCHANGED <<loads, workspaces>>
  PROVE  /\ OnePending' /\ Numbered'
         /\ \A r \in saves' : /\ r.pages = store.pages /\ r.scope = active
                              /\ r.stored = Nothing /\ r.id = store.id
                              /\ r.pages.of = r.scope
                              /\ r.id # Nothing => workspaces[r.id].of = r.scope
  <1> DEFINE q == SaveOf(active, store)
  <1>1. saves = {} /\ loads = {} /\ saves' = {q} /\ loads' = {}
    BY DEF Sole, Agreed
  <1>2. q.n = sent + 1 /\ q.pages = store.pages /\ q.scope = active /\ q.stored = Nothing
        /\ q.id = store.id
    BY DEF SaveOf
  <1>3. store.pages # Nothing /\ store.pages.of = active
        /\ (store.id # Nothing => workspaces[store.id].of = active)
    BY DEF Inv, Written, Sole, Owned
  <1> HIDE DEF q
  <1>4. OnePending'
    BY <1>1 DEF OnePending
  <1>5. sent \in Nat /\ sent + 1 \in Ids
    BY DEF Inv, TypeOK, Ids
  <1>6. workspaces[sent + 1] = Nothing
    BY <1>5 DEF Sole, Numbered
  <1>7. Numbered'
    <2>1. \A i \in Ids : workspaces'[i] # Nothing => i <= sent'
      BY <1>5 DEF Sole, Numbered, Ids
    <2>2. q.n <= sent' /\ workspaces'[q.n] = Nothing
      BY <1>2, <1>5, <1>6
    <2> QED BY <1>1, <2>1, <2>2 DEF Numbered
  <1> QED BY <1>1, <1>2, <1>3, <1>4, <1>7

\* Opening a slot while nothing is under way and none is open
LEMMA OpenedAlone ==
  ASSUME Inv, Sole, saves = {}, loads' = {}, active = Nothing,
         NEW s \in Slots, NEW st,
         st.pages # Nothing => st.pages.of = s,
         st.pages # Nothing /\ st.id # Nothing => workspaces[st.id].of = s,
         st.status = "saved" /\ st.pages # Nothing => st.id # Nothing /\ workspaces[st.id] = st.pages,
         SwitchTo(s, st), UNCHANGED <<clientLink, workspaces, link>>
  PROVE  Sole'
  <1>1. active' = s /\ store' = st /\ saves' = {} /\ sent' = sent
    BY DEF SwitchTo, Flushes
  <1>2. OnePending' /\ Numbered'
    BY <1>1 DEF Sole, OnePending, Numbered
  <1>3. Owned'
    BY <1>1 DEF Sole, Owned
  <1>4. Agreed'
    BY <1>1 DEF Sole, Agreed
  <1> QED BY <1>2, <1>3, <1>4 DEF Sole

LEMMA FreshIsOwn ==
  ASSUME NEW s \in Slots
  PROVE  /\ FreshStore(s).pages.of = s /\ FreshStore(s).id = Nothing
         /\ FreshStore(s).status = "dirty"
         /\ EmptyStore.pages = Nothing /\ EmptyStore.id = Nothing /\ EmptyStore.status = "idle"
  BY DEF FreshStore, EmptyStore

LEMMA OpenFreshAlone == ASSUME Inv, Sole, ~overlapped', NEW s \in Slots, OpenFresh(s) PROVE Sole'
  <1>1. /\ saves = {} /\ loads' = {} /\ active = Nothing
        /\ UNCHANGED <<clientLink, workspaces, link>>
    BY DEF OpenFresh, Pending, serverVars
  <1>2. CASE SwitchTo(s, FreshStore(s))
    BY <1>1, <1>2, FreshIsOwn, OpenedAlone
  <1>3. CASE SwitchTo(s, EmptyStore)
    BY <1>1, <1>3, FreshIsOwn, OpenedAlone
  <1> QED BY <1>2, <1>3 DEF OpenFresh

LEMMA OpenStoredAlone == ASSUME Inv, Sole, ~overlapped', NEW s \in Slots, OpenStored(s) PROVE Sole'
  <1> DEFINE l == [n |-> sent + 1, slot |-> s, id |-> clientLink[s],
                   got |-> Nothing, answered |-> FALSE]
  <1>1. /\ saves = {} /\ loads' = {l} /\ active' = Nothing /\ clientLink[s] # Nothing
        /\ sent' = sent + 1
        /\ UNCHANGED <<saves, clientLink, workspaces, link>>
        /\ store' = [EmptyStore EXCEPT !.status = "saving"]
    BY DEF OpenStored, Pending, serverVars
  <1>2. l.slot = s /\ l.id = clientLink[s] /\ l.got = Nothing
    OBVIOUS
  <1> HIDE DEF l
  <1>3. store'.pages = Nothing /\ store'.status = "saving"
    BY <1>1 DEF EmptyStore
  <1>4. OnePending'
    BY <1>1 DEF OnePending
  <1>5. Numbered'
    BY <1>1 DEF Inv, TypeOK, Sole, Numbered, Ids
  <1>6. Owned'
    BY <1>1, <1>2, <1>3 DEF Sole, Owned
  <1>7. Agreed'
    BY <1>1, <1>2, <1>3 DEF Agreed
  <1> QED BY <1>4, <1>5, <1>6, <1>7 DEF Sole

LEMMA EditAlone == ASSUME Inv, Sole, ~overlapped', Edit PROVE Sole'
  <1>1. /\ saves = {} /\ loads = {} /\ UNCHANGED <<active, clientLink, saves, loads, workspaces, link, sent>>
        /\ store.pages \in Pages
        /\ store' = [store EXCEPT !.pages.rev = revs + 1, !.status = "dirty"]
    BY DEF Edit, Pending, serverVars, Inv, TypeOK
  <1>2. store'.pages.of = store.pages.of /\ store'.status = "dirty" /\ store'.id = store.id
    BY <1>1 DEF Inv, TypeOK, Pages
  <1>3. OnePending' /\ Numbered'
    BY <1>1 DEF Sole, OnePending, Numbered
  <1>4. Owned'
    BY <1>1, <1>2 DEF Sole, Owned, Inv, TypeOK, Pages
  <1>5. Agreed'
    BY <1>1, <1>2 DEF Agreed
  <1> QED BY <1>3, <1>4, <1>5 DEF Sole

\* What remains of the store while its save is under way
LEMMA SavingAlone ==
  ASSUME Inv, Sole, active \in Slots, store.status = "dirty",
         saves' = saves \cup {SaveOf(active, store)}, sent < MaxRequests, sent' = sent + 1,
         UNCHANGED <<loads, clientLink, workspaces, link>>,
         \/ store'.pages = Nothing /\ store'.status = "idle"
         \/ store'.pages = store.pages /\ store'.id = store.id /\ store'.status = "saving",
         active' \in {active, Nothing}
  PROVE  Sole'
  <1>1. OnePending' /\ Numbered'
    BY SentAlone
  <1>2. \A r \in saves' : /\ r.pages = store.pages /\ r.scope = active
                          /\ r.stored = Nothing /\ r.id = store.id
                          /\ r.pages.of = r.scope
                          /\ r.id # Nothing => workspaces[r.id].of = r.scope
    BY SentAlone
  <1>3. loads' = {}
    BY DEF Sole, Agreed
  <1>4. Owned'
    BY <1>2, <1>3 DEF Sole, Owned
  <1>5. Agreed'
    BY <1>2, <1>3 DEF Sole, Agreed
  <1> QED BY <1>1, <1>4, <1>5 DEF Sole

LEMMA CloseSlotAlone == ASSUME Inv, Sole, CloseSlot PROVE Sole'
  <1>1. /\ UNCHANGED <<loads, clientLink, workspaces, link>> /\ active' = Nothing
        /\ active \in Slots /\ SwitchTo(Nothing, store)
    BY DEF CloseSlot, SwitchTo, serverVars, Inv, TypeOK
  <1>2. CASE Flushes(Nothing, store)
    <2>1. /\ store.status = "dirty" /\ sent < MaxRequests /\ sent' = sent + 1
          /\ saves' = saves \cup {SaveOf(active, store)}
          /\ store' = [store EXCEPT !.status = "saving"]
      BY <1>1, <1>2 DEF SwitchTo, Flushes
    <2>2. store'.pages = store.pages /\ store'.id = store.id /\ store'.status = "saving"
      BY <2>1 DEF Inv, TypeOK
    <2> QED BY <1>1, <2>1, <2>2, SavingAlone
  <1>3. CASE ~Flushes(Nothing, store)
    <2>1. UNCHANGED <<store, saves, sent>>
      BY <1>1, <1>3 DEF SwitchTo
    <2> QED BY <1>1, <2>1 DEF Sole, OnePending, Numbered, Owned, Agreed
  <1> QED BY <1>2, <1>3

LEMMA LeavePeriodAlone == ASSUME Inv, Sole, ~overlapped', LeavePeriod PROVE Sole'
  <1>1. /\ UNCHANGED <<loads, clientLink, workspaces, link>> /\ active' = Nothing
        /\ saves = {} /\ loads = {}
        /\ store'.pages = Nothing /\ store'.status = "idle"
    BY DEF LeavePeriod, Pending, serverVars, EmptyStore
  <1>2. CASE /\ Flushes(Nothing, store) /\ sent < MaxRequests
             /\ sent' = sent + 1 /\ saves' = saves \cup {SaveOf(active, store)}
    <2>1. active \in Slots /\ store.status = "dirty"
      BY <1>2 DEF Flushes, Inv, TypeOK
    <2> QED BY <1>1, <1>2, <2>1, SavingAlone
  <1>3. CASE UNCHANGED <<saves, sent>>
    BY <1>1, <1>3 DEF Sole, OnePending, Numbered, Owned, Agreed
  <1> QED BY <1>2, <1>3 DEF LeavePeriod

LEMMA HydrateAlone == ASSUME Inv, Sole, Hydrate PROVE Sole'
  BY DEF Hydrate, serverVars, Sole, OnePending, Numbered, Owned, Agreed

LEMMA AutoSaveAlone == ASSUME Inv, Sole, AutoSave PROVE Sole'
  <1>1. /\ UNCHANGED <<loads, clientLink, workspaces, link>> /\ active' = active
        /\ active \in Slots /\ store.status = "dirty" /\ sent < MaxRequests /\ sent' = sent + 1
        /\ saves' = saves \cup {SaveOf(active, store)}
        /\ store' = [store EXCEPT !.status = "saving"]
    BY DEF AutoSave, serverVars, Inv, TypeOK
  <1>2. store'.pages = store.pages /\ store'.id = store.id /\ store'.status = "saving"
    BY <1>1 DEF Inv, TypeOK
  <1> QED BY <1>1, <1>2, SavingAlone

\* A workspace is written by its owner, or under an id that nobody names
LEMMA SaveServedAlone == ASSUME Inv, Sole, NEW r \in saves, SaveServed(r) PROVE Sole'
  <1> DEFINE q == [r EXCEPT !.stored = Target(r)]
             t == Target(r)
  <1>0. /\ UNCHANGED <<store, active, clientLink, loads, sent>>
        /\ r \in Save /\ r.stored = Nothing
        /\ workspaces' = [workspaces EXCEPT ![t] = r.pages]
        /\ link' = [link EXCEPT ![r.scope] = t]
        /\ saves = {r} /\ saves' = {q} /\ loads = {}
    BY DEF SaveServed, Inv, TypeOK, Sole, OnePending
  <1>1. t \in Ids /\ t # Nothing /\ t <= sent
    BY <1>0 DEF Target, Save, Ids, Sole, Numbered, Inv, TypeOK, Written, LinksResolve
  <1>2. /\ q.n = r.n /\ q.pages = r.pages /\ q.stored = t /\ q.id = r.id /\ q.scope = r.scope
    BY <1>0 DEF Save
  <1>3. workspaces[t] # Nothing => workspaces[t].of = r.scope
    BY <1>0 DEF Target, Sole, Numbered, Owned
  <1>4. r.pages \in Pages /\ r.pages # Nothing /\ r.pages.of = r.scope /\ r.scope \in Slots
    BY <1>0 DEF Sole, Owned, Save, Inv, Written
  <1> HIDE DEF q, t
  <1>5. workspaces'[t] = r.pages /\ \A i \in Ids : i # t => workspaces'[i] = workspaces[i]
    BY <1>0, <1>1 DEF Inv, TypeOK
  <1>6. \A i \in Ids : workspaces[i] # Nothing =>
            workspaces'[i] # Nothing /\ workspaces'[i].of = workspaces[i].of
    BY <1>3, <1>4, <1>5
  <1>7. OnePending'
    BY <1>0 DEF OnePending
  <1>8. Numbered'
    BY <1>0, <1>1, <1>2, <1>5 DEF Sole, Numbered
  <1>9. Owned'
    <2>1. \A s \in Slots : link'[s] # Nothing => workspaces'[link'[s]].of = s
      <3> SUFFICES ASSUME NEW s \in Slots, link'[s] # Nothing PROVE workspaces'[link'[s]].of = s
        OBVIOUS
      <3>1. CASE s = r.scope
        BY <3>1, <1>0, <1>4, <1>5 DEF Inv, TypeOK
      <3>2. CASE s # r.scope
        <4>1. link'[s] = link[s] /\ link[s] \in Ids /\ workspaces[link[s]] # Nothing
              /\ workspaces[link[s]].of = s
          BY <3>2, <1>0 DEF Inv, TypeOK, Written, LinksResolve, Sole, Owned
        <4> QED BY <4>1, <1>6
      <3> QED BY <3>1, <3>2
    <2>2. \A s \in Slots : clientLink'[s] # Nothing => workspaces'[clientLink'[s]].of = s
      <3> SUFFICES ASSUME NEW s \in Slots, clientLink[s] # Nothing
                   PROVE  workspaces'[clientLink[s]].of = s
        BY <1>0
      <3>1. clientLink[s] \in Ids /\ workspaces[clientLink[s]] # Nothing
            /\ workspaces[clientLink[s]].of = s
        BY DEF Inv, TypeOK, Written, LinksResolve, Sole, Owned
      <3> QED BY <3>1, <1>6
    <2>3. q.pages.of = q.scope /\ (q.id # Nothing => workspaces'[q.id].of = q.scope)
      <3>1. r.id # Nothing => r.id = t
        BY DEF t, Target
      <3> QED BY <3>1, <1>2, <1>4, <1>5
    <2>4. store.pages # Nothing /\ store.id # Nothing => workspaces'[store.id].of = store.pages.of
      BY <1>6 DEF Inv, TypeOK, Written, LinksResolve, Sole, Owned
    <2> QED BY <2>1, <2>2, <2>3, <2>4, <1>0 DEF Sole, Owned
  <1>10. Agreed'
    BY <1>0, <1>2, <1>5 DEF Sole, Agreed
  <1> QED BY <1>7, <1>8, <1>9, <1>10 DEF Sole

LEMMA SaveReturnsAlone == ASSUME Inv, Sole, NEW r \in saves, SaveReturns(r) PROVE Sole'
  <1>1. /\ UNCHANGED <<active, loads, workspaces, link, sent>>
        /\ saves = {r} /\ saves' = {} /\ loads = {} /\ r \in Save /\ r.stored # Nothing
        /\ store' = [pages |-> store.pages, id |-> r.stored, status |-> "saved"]
        /\ clientLink' = [clientLink EXCEPT ![r.scope] = r.stored]
    BY DEF SaveReturns, serverVars, Inv, TypeOK, Sole, OnePending
  <1>2. workspaces[r.stored] = r.pages /\ r.pages.of = r.scope
        /\ (store.pages # Nothing => store.pages = r.pages)
    BY <1>1 DEF Sole, Agreed, Owned
  <1>3. OnePending' /\ Numbered'
    BY <1>1 DEF Sole, OnePending, Numbered
  <1>4. Owned'
    BY <1>1, <1>2 DEF Sole, Owned, Inv, TypeOK, Save
  <1>5. Agreed'
    BY <1>1, <1>2 DEF Agreed
  <1> QED BY <1>3, <1>4, <1>5 DEF Sole

LEMMA SaveFailsAlone == ASSUME Inv, Sole, NEW r \in saves, SaveFails(r) PROVE Sole'
  <1>1. /\ UNCHANGED <<active, clientLink, loads, workspaces, link, sent>>
        /\ saves' = {} /\ loads = {}
        /\ store' = [pages |-> store.pages, id |-> store.id, status |-> "error"]
    BY DEF SaveFails, serverVars, Inv, TypeOK, Sole, OnePending
  <1> QED BY <1>1 DEF Sole, OnePending, Numbered, Owned, Agreed

LEMMA LoadServedAlone == ASSUME Inv, Sole, NEW l \in loads, LoadServed(l) PROVE Sole'
  <1> DEFINE q == [l EXCEPT !.answered = TRUE, !.got = workspaces[l.id]]
  <1>1. /\ UNCHANGED <<store, active, clientLink, saves, workspaces, link, sent>>
        /\ saves = {} /\ loads' = {q} /\ l \in Load /\ loads = {l}
    BY DEF LoadServed, serverVars, Inv, TypeOK, Sole, OnePending
  <1>2. q.id = l.id /\ q.slot = l.slot /\ q.got = workspaces[l.id]
    BY <1>1 DEF Load
  <1> HIDE DEF q
  <1> QED BY <1>1, <1>2 DEF Sole, OnePending, Numbered, Owned, Agreed

LEMMA LoadReturnsAlone == ASSUME Inv, Sole, NEW l \in loads, LoadReturns(l) PROVE Sole'
  <1>1. /\ UNCHANGED <<clientLink, workspaces, link>>
        /\ saves = {} /\ loads' = {} /\ active = Nothing /\ l.slot \in Slots
        /\ workspaces[l.id] = l.got /\ workspaces[l.id].of = l.slot
        /\ l.id # Nothing /\ SwitchTo(l.slot, LoadedStore(l))
    BY DEF LoadReturns, serverVars, Inv, TypeOK, Sole, OnePending, Owned, Agreed, Load, Ids
  <1>2. /\ LoadedStore(l).pages = l.got /\ LoadedStore(l).id = l.id
        /\ LoadedStore(l).status = "saved"
    BY DEF LoadedStore
  <1> QED BY <1>1, <1>2, OpenedAlone

LEMMA LoadFailsAlone == ASSUME Inv, Sole, NEW l \in loads, LoadFails(l) PROVE Sole'
  <1>1. /\ UNCHANGED <<clientLink, workspaces, link>>
        /\ saves = {} /\ loads' = {} /\ active = Nothing /\ l.slot \in Slots
    BY DEF LoadFails, serverVars, Inv, TypeOK, Sole, OnePending, Agreed, Load
  <1>2. CASE SwitchTo(l.slot, FreshStore(l.slot))
    BY <1>1, <1>2, FreshIsOwn, OpenedAlone
  <1>3. CASE SwitchTo(l.slot, EmptyStore)
    BY <1>1, <1>3, FreshIsOwn, OpenedAlone
  <1> QED BY <1>2, <1>3 DEF LoadFails

\* An overlap is never forgotten
LEMMA OverlapStays == ASSUME overlapped, [Next]_vars PROVE overlapped'
  <1>1. CASE User
    BY <1>1, Zenon DEF User, OpenFresh, OpenStored, Edit, CloseSlot, LeavePeriod, Hydrate
  <1>2. CASE AutoSave
    BY <1>2, Zenon DEF AutoSave
  <1>3. CASE Server
    BY <1>3, Zenon DEF Server, SaveServed, LoadServed
  <1>4. CASE SaveEnds
    BY <1>4, Zenon DEF SaveEnds, SaveReturns, SaveFails
  <1>5. CASE LoadEnds
    BY <1>5, Zenon DEF LoadEnds, LoadReturns, LoadFails
  <1>6. CASE UNCHANGED vars
    BY <1>6, Zenon DEF vars
  <1> QED BY <1>1, <1>2, <1>3, <1>4, <1>5, <1>6 DEF Next

\* Every step keeps it as long as nothing overlaps
LEMMA AloneNext == Inv /\ Alone /\ [Next]_vars => Alone'
  <1> SUFFICES ASSUME Inv, Sole, ~overlapped', [Next]_vars PROVE Sole'
    BY OverlapStays DEF Alone
  <1>1. CASE User
    BY <1>1, OpenFreshAlone, OpenStoredAlone, EditAlone, CloseSlotAlone, LeavePeriodAlone,
       HydrateAlone DEF User
  <1>2. CASE AutoSave
    BY <1>2, AutoSaveAlone
  <1>3. CASE Server
    BY <1>3, SaveServedAlone, LoadServedAlone DEF Server
  <1>4. CASE SaveEnds
    BY <1>4, SaveReturnsAlone, SaveFailsAlone DEF SaveEnds
  <1>5. CASE LoadEnds
    BY <1>5, LoadReturnsAlone, LoadFailsAlone DEF LoadEnds
  <1>6. CASE UNCHANGED vars
    BY <1>6 DEF vars, serverVars, Sole, OnePending, Numbered, Owned, Agreed
  <1> QED BY <1>1, <1>2, <1>3, <1>4, <1>5, <1>6 DEF Next

\* In every behaviour, as long as nothing was edited or opened behind a
\* pending request, "saved" means that the server has the pages on the screen,
\* and a slot is linked to a workspace of its own pages
THEOREM SavedIsHonest == Spec => []HonestWhenAlone
  <1>1. Inv /\ Alone => HonestWhenAlone
    BY DEF Alone, Sole, Owned, Agreed, HonestWhenAlone
  <1>2. Init => Inv /\ Alone
    BY InvInit, AloneInit
  <1>3. (Inv /\ Alone) /\ [Next]_vars => (Inv /\ Alone)'
    BY InvNext, AloneNext
  <1> QED BY <1>1, <1>2, <1>3, PTL DEF Spec
=============================================================================
