----------------------------- MODULE AuditLinks -----------------------------
(***************************************************************************)
(* Audit links and the history of versions in the PDF viewer.              *)
(*                                                                         *)
(* An audit link joins a point of the left file to a point of the right    *)
(* one and belongs to the version that is shown.  usePdfViewerSession      *)
(* loads the links whenever the shown version changes and posts the whole  *)
(* list when one is added; the server replaces the list of that version    *)
(* (api/routers/audit.py).  The shown version is an index into a history   *)
(* that useAuditWorkflow extends at once on every workflow step, with an   *)
(* id the server never heard of, and that is replaced by the server's list *)
(* when one arrives.                                                       *)
(*                                                                         *)
(* One viewer is modelled, from the moment it opens until a deletion       *)
(* leaves the document without a version, which closes it; somebody else   *)
(* may save and delete versions meanwhile.                                 *)
(***************************************************************************)
EXTENDS Naturals, Sequences, SequencesExt

CONSTANTS
    Nothing,
    Initial,      \* the entry of INITIAL_HISTORY: links have no endpoint
    Phantom,      \* an entry made by createNewVersion, with an id of its own
    Meta,         \* an entry about a deletion or a share
    Event,        \* an entry made of a review event: the document has no version
    MaxVersions,  \* bound: versions of the document
    MaxTasks,     \* bound: workflow steps, deletions and refreshes asked for
    MaxClicks,    \* bound: check points clicked
    MaxPosts      \* bound: lists of links posted

ASSUME BoundsAreNatural ==
    MaxVersions \in Nat \ {0} /\ MaxTasks \in Nat /\ MaxClicks \in Nat /\ MaxPosts \in Nat
ASSUME EntriesDiffer ==
    /\ Initial \notin Nat /\ Phantom \notin Nat /\ Meta \notin Nat /\ Event \notin Nat
    /\ Initial \notin {Phantom, Meta, Event} /\ Phantom \notin {Meta, Event} /\ Meta # Event

VARIABLES
    rows,      \* server: versions and meta events, newest first
    open,      \* the viewer shows the document
    server,    \* server: the links of each version
    history,   \* the list of the history panel
    shown,     \* activeVerIdx
    links,     \* auditCheckLinks
    point,     \* pendingCheckPoint
    status,    \* linkSaveStatus
    clicks,    \* check points whose file is being hashed
    load,      \* the load of links whose answer will be used
    posts,     \* lists of links on their way
    reload,    \* the list of versions that is being read
    tasks,     \* workflow steps and deletions on their way
    busy,      \* versionDeleteBusyId
    newest,    \* the number of the newest version
    clicked, posted, asked,  \* counters for the bounds
    missed,    \* history: a step or a list failed, or somebody else deleted a
               \* version, and the list has not been asked for since
    disturbed  \* history: a list was posted while another or a load was under
               \* way or for a version that is not shown, a load was answered
               \* ahead of a list of its version, or it failed

panel   == <<open, history, shown>>
listing == <<reload, tasks, busy, missed>>
drawing == <<links, point, status, clicks, load, posts>>
counters == <<clicked, posted, asked>>
historyVars == <<rows, newest, asked, panel, listing>>
vars == <<rows, server, panel, listing, drawing, newest, counters, disturbed>>

Versions == 1..MaxVersions
Marks    == {Meta, Event}
Entries  == Versions \cup Marks \cup {Initial, Phantom}
Sides    == {"left", "right"}
Link     == [n : 1..MaxClicks, of : Entries]
Click    == [n : 1..MaxClicks, side : Sides, point : Sides \cup {Nothing}, entry : Entries]
Load     == [entry : Entries, got : SUBSET Link, answered : BOOLEAN]
Post     == [n : 1..MaxPosts, entry : Entries, links : SUBSET Link, stored : BOOLEAN]
Rows     == Seq(Versions \cup {Meta})
Lists    == Seq(Versions \cup Marks)
Task     == [n : 1..MaxTasks, kind : {"save", "event", "delete"}, ver : Versions \cup {Nothing},
             phase : {"asked", "stored", "done", "listed", "fetching"}, rows : Lists]

ASSUME NothingIsNoRequest == Nothing \notin Load \cup [rows : Lists \cup {Nothing}]

TypeOK ==
    /\ rows \in Rows
    /\ server \in [Versions -> SUBSET Link]
    /\ open \in BOOLEAN /\ history \in Seq(Entries) /\ shown \in Nat \ {0}
    /\ links \subseteq Link
    /\ point \in Sides \cup {Nothing}
    /\ status \in {"idle", "saving", "saved", "error"}
    /\ clicks \subseteq Click
    /\ load \in Load \cup {Nothing}
    /\ posts \subseteq Post
    /\ reload \in [rows : Lists \cup {Nothing}] \cup {Nothing}
    /\ tasks \subseteq Task /\ busy \in Versions \cup {Nothing} /\ missed \in BOOLEAN
    /\ newest \in Versions
    /\ clicked \in 0..MaxClicks /\ posted \in 0..MaxPosts /\ asked \in 0..MaxTasks
    /\ disturbed \in BOOLEAN

Init ==
    /\ rows = <<1>>
    /\ server = [v \in Versions |-> {}]
    /\ open = TRUE
    /\ history = <<Initial>>
    /\ shown = 1
    /\ busy = Nothing /\ missed = FALSE
    /\ links = {}
    /\ point = Nothing
    /\ status = "idle"
    /\ clicks = {} /\ posts = {} /\ tasks = {}
    /\ load = Nothing
    /\ reload = [rows |-> Nothing]
    /\ newest = 1
    /\ clicked = 0 /\ posted = 0 /\ asked = 0
    /\ disturbed = FALSE

-----------------------------------------------------------------------------
(* The shown version *)

\* A place past the end is fallbackActiveVersion, which is not persisted either
EntryAt(h, i) == IF i \in 1..Len(h) THEN h[i] ELSE Initial
Active == EntryAt(history, shown)

\* isPersistedDocumentVersionId: only the initial entry has no endpoint
HasEndpoint(e) == e # Initial

\* The versions that the server holds
Held == ToSet(rows) \cap Versions

\* findLatestVersionEntryIndex: an event's entry has an id as well
IsVersion(e) == e \notin {Initial, Meta}
LatestIdx(h) == IF \E i \in 1..Len(h) : IsVersion(h[i])
                THEN SelectInSeq(h, IsVersion)
                ELSE 0

\* The effect that leaves a meta entry, or a place past the end, for the latest
Settled(h, i) == IF LatestIdx(h) # 0 /\ (i > Len(h) \/ h[i] = Meta) THEN LatestIdx(h) ELSE i

\* Mutant: the links on the screen are taken along to the new entry.
ShowEntryKeepLinks(h, i) ==
    /\ history' = h
    /\ shown' = Settled(h, i)
    /\ UNCHANGED <<links, load>>

\* The id is certainly the same, or may be: an event's entry has the id of its
\* version, which is deleted, or one of its own; two phantoms differ
SameId(h, i) == (h = history /\ i = shown)
                \/ (EntryAt(h, i) = Active /\ Active \in Versions \cup {Initial})
MayBeSameId(e) == /\ {e, Active} \subseteq Marks \cup (Versions \ Held)
                  /\ {e, Active} \cap Marks # {}

\* The shown entry changes and the links are loaded for it, unless its id is
\* the one they were loaded for
ShowEntry(h, i) ==
    LET j == Settled(h, i)
        e == EntryAt(h, j)
    IN  /\ history' = h /\ shown' = j /\ UNCHANGED links
        /\ \/ (SameId(h, j) \/ MayBeSameId(e)) /\ UNCHANGED load
           \/ ~SameId(h, j) /\ load' = [entry |-> e, got |-> {}, answered |-> FALSE]

-----------------------------------------------------------------------------
(* The history *)

\* HistoryPanel: the user picks a version
PickVersion(i) ==
    /\ history[i] # Meta /\ i # shown
    /\ ShowEntry(history, i)
    /\ UNCHANGED <<rows, server, open, point, status, clicks, posts, listing, newest, counters,
                   disturbed>>

\* The list of versions is asked for; the answer of an earlier read is dropped
Restart == reload' = [rows |-> Nothing] /\ missed' = FALSE

\* historyRefreshKey, historyRevision: after a stamp, a share or an action of
\* the parent
Refresh ==
    /\ asked < MaxTasks
    /\ asked' = asked + 1
    /\ Restart
    /\ UNCHANGED <<rows, server, panel, drawing, tasks, busy, newest, clicked, posted, disturbed>>

\* buildHistoryFromVersions, or, without a version, the review events as they
\* are: beside the deletions at least the one of opening the viewer
Listed == IF Held # {} THEN {rows} ELSE {<<Event>> \o rows, Append(rows, Event)}

RefreshServed ==
    /\ reload # Nothing /\ reload.rows = Nothing
    /\ \E list \in Listed : reload' = [rows |-> list]
    /\ UNCHANGED <<rows, server, panel, drawing, tasks, busy, missed, newest, counters, disturbed>>

RefreshReturns ==
    /\ reload # Nothing /\ reload.rows # Nothing
    /\ reload' = Nothing
    /\ ShowEntry(reload.rows, shown)
    /\ UNCHANGED <<rows, server, open, point, status, clicks, posts, tasks, busy, missed, newest,
                   counters, disturbed>>

RefreshFails ==
    /\ reload # Nothing
    /\ reload' = Nothing
    /\ missed' = TRUE
    /\ UNCHANGED <<rows, server, panel, drawing, tasks, busy, newest, counters, disturbed>>

\* createNewVersion: WORKFLOW_BUMP of "save" stores the file as a version, an
\* "event" is only recorded
WorkflowStep(kind) ==
    /\ asked < MaxTasks
    /\ asked' = asked + 1
    /\ ShowEntry(<<Phantom>> \o history, 1)
    /\ tasks' = tasks \cup {[n |-> asked + 1, kind |-> kind, ver |-> Nothing,
                             phase |-> IF kind = "save" THEN "asked" ELSE "done", rows |-> <<>>]}
    /\ UNCHANGED <<rows, server, open, point, status, clicks, posts, reload, busy, missed, newest,
                   clicked, posted, disturbed>>

\* handleDeleteVersion: only the button of the version that is busy is disabled
DeleteVersion(i) ==
    /\ history[i] \in Versions /\ history[i] # busy
    /\ asked < MaxTasks
    /\ asked' = asked + 1
    /\ busy' = history[i]
    /\ tasks' = tasks \cup {[n |-> asked + 1, kind |-> "delete", ver |-> history[i],
                             phase |-> "asked", rows |-> <<>>]}
    /\ UNCHANGED <<rows, server, panel, drawing, reload, missed, newest, clicked, posted,
                   disturbed>>

Moved(t, phase) == tasks' = (tasks \ {t}) \cup {[t EXCEPT !.phase = phase]}

NewVersion ==
    /\ newest < MaxVersions
    /\ newest' = newest + 1
    /\ rows' = <<newest + 1>> \o rows
    /\ UNCHANGED server

\* delete_document_version_endpoint: the version, its links, and an event; 404
\* for a version that is deleted already
RemoveVersion(v) ==
    /\ \E i \in 1..Len(rows) : rows[i] = v /\ rows' = <<Meta>> \o RemoveAt(rows, i)
    /\ server' = [server EXCEPT ![v] = {}]
    /\ UNCHANGED newest

TaskServed(t) ==
    /\ t.phase = "asked"
    /\ \/ t.kind = "save" /\ NewVersion /\ Moved(t, "stored")
       \/ t.kind = "delete" /\ RemoveVersion(t.ver) /\ Moved(t, "done")
    /\ UNCHANGED <<panel, drawing, reload, busy, missed, counters, disturbed>>

\* onVersionCreated
TaskAnswered(t) ==
    /\ t.phase = "stored"
    /\ Moved(t, "done")
    /\ Restart
    /\ UNCHANGED <<rows, server, panel, drawing, busy, newest, counters, disturbed>>

\* The lists of versions and events are read after the step
TaskListed(t) ==
    /\ t.phase = "done"
    /\ \E list \in Listed :
         tasks' = (tasks \ {t}) \cup {[t EXCEPT !.phase = "listed", !.rows = list]}
    /\ UNCHANGED <<rows, server, panel, drawing, reload, busy, missed, newest, counters,
                   disturbed>>

\* onVersionDeleted without a file: the viewer closes, and what it was waiting
\* for is not followed any further, but for the posts
Close(t) ==
    /\ open' = FALSE
    /\ history' = t.rows /\ shown' = 1
    /\ links' = {} /\ point' = Nothing /\ clicks' = {}
    /\ load' = Nothing /\ reload' = Nothing /\ tasks' = {} /\ busy' = Nothing
    /\ UNCHANGED missed

\* setPersistedHistory; a deletion goes on with the file of the latest version
ListShown(t) ==
    /\ ShowEntry(t.rows, shown)
    /\ IF t.kind = "delete" THEN Moved(t, "fetching") ELSE tasks' = tasks \ {t}
    /\ UNCHANGED <<open, point, clicks, busy>>

LastDeleted(t) == t.kind = "delete" /\ ToSet(t.rows) \cap Versions = {}

\* Mutant: the list is not asked for again after a step.
TaskReturnsQuietly(t) ==
    /\ t.phase = "listed"
    /\ IF LastDeleted(t) THEN Close(t) ELSE ListShown(t) /\ UNCHANGED <<reload, missed>>
    /\ UNCHANGED <<rows, server, status, posts, newest, counters, disturbed>>

\* Then onAuditStateChange, or setHistoryRefreshKey, asks for the list again
TaskReturns(t) ==
    /\ t.phase = "listed"
    /\ IF LastDeleted(t) THEN Close(t) ELSE ListShown(t) /\ Restart
    /\ UNCHANGED <<rows, server, status, posts, newest, counters, disturbed>>

\* The file is there: the latest entry of the list read with the deletion is
\* shown, as an index into the history of now, the new file drops the pending
\* check point, and the list is asked for once more
FileFetched(t) ==
    /\ t.phase = "fetching"
    /\ tasks' = tasks \ {t}
    /\ ShowEntry(history, IF LatestIdx(t.rows) = 0 THEN 1 ELSE LatestIdx(t.rows))
    /\ point' = Nothing /\ busy' = Nothing
    /\ Restart
    /\ UNCHANGED <<rows, server, open, status, clicks, posts, newest, counters, disturbed>>

\* Any request of the chain failed: the history stays as it is
TaskFails(t) ==
    /\ t.phase # "listed"
    /\ tasks' = tasks \ {t}
    /\ busy' = IF t.kind = "delete" THEN Nothing ELSE busy
    /\ missed' = (missed \/ t.phase # "fetching")
    /\ UNCHANGED <<rows, server, panel, drawing, reload, newest, counters, disturbed>>

\* Somebody else saves or deletes a version of the document
OtherSaves ==
    /\ NewVersion
    /\ UNCHANGED <<panel, listing, drawing, counters, disturbed>>

OtherDeletes(v) ==
    /\ RemoveVersion(v)
    /\ missed' = TRUE
    /\ UNCHANGED <<panel, drawing, reload, tasks, busy, counters, disturbed>>

\* An edit, a swap of the sides or another file in the split view
NewFile ==
    /\ point # Nothing
    /\ point' = Nothing
    /\ UNCHANGED <<historyVars, server, links, status, clicks, load, posts, clicked, posted,
                   disturbed>>

-----------------------------------------------------------------------------
(* Links *)

\* Mutant: the first link of a version is not posted.
PersistKnown(e, list) ==
    IF HasEndpoint(e) /\ links # {}
    THEN /\ posted < MaxPosts
         /\ posted' = posted + 1
         /\ posts' = posts \cup {[n |-> posted + 1, entry |-> e, links |-> list, stored |-> FALSE]}
         /\ status' = "saving"
         /\ disturbed' = (disturbed \/ e # Active \/ load # Nothing \/ posts # {})
    ELSE /\ disturbed' = (disturbed \/ e # Active)
         /\ UNCHANGED <<posted, posts, status>>

\* persistAuditLinks of the render that showed entry e
Persist(e, list) ==
    IF HasEndpoint(e)
    THEN /\ posted < MaxPosts
         /\ posted' = posted + 1
         /\ posts' = posts \cup {[n |-> posted + 1, entry |-> e, links |-> list, stored |-> FALSE]}
         /\ status' = "saving"
         /\ disturbed' = (disturbed \/ e # Active \/ load # Nothing \/ posts # {})
    ELSE /\ disturbed' = (disturbed \/ e # Active)
         /\ UNCHANGED <<posted, posts, status>>

\* handleSplitCheckPoint, handleAutoVouchMatch: the pending point and the
\* endpoint are those of the click, the file is hashed behind an await
ClickPoint(side) ==
    /\ clicked < MaxClicks
    /\ clicked' = clicked + 1
    /\ clicks' = clicks \cup {[n |-> clicked + 1, side |-> side, point |-> point,
                               entry |-> Active]}
    /\ UNCHANGED <<historyVars, server, links, point, status, load, posts, posted, disturbed>>

\* The first point of a pair, or another one on the same side
FirstPoint(c) ==
    /\ c.point \in {Nothing, c.side}
    /\ clicks' = clicks \ {c}
    /\ point' = c.side
    /\ UNCHANGED <<historyVars, server, links, status, load, posts, clicked, posted, disturbed>>

\* The second: the link joins the list on the screen and the list is posted
SecondPoint(c) ==
    /\ c.point \notin {Nothing, c.side}
    /\ clicks' = clicks \ {c}
    /\ point' = Nothing
    /\ links' = links \cup {[n |-> c.n, of |-> c.entry]}
    /\ Persist(c.entry, links')
    /\ UNCHANGED <<historyVars, server, load, clicked>>

\* handleSaveAuditLinks, flushAuditLinkComments
SaveLinks ==
    /\ Persist(Active, links)
    /\ UNCHANGED <<historyVars, server, links, point, clicks, load, clicked>>

\* Mutants: the list is stored with the newest version; the links of the whole
\* document are replaced by it.
PostServedNewest(p) ==
    /\ ~p.stored
    /\ p.entry \in Held
    /\ server' = [server EXCEPT ![newest] = p.links]
    /\ posts' = (posts \ {p}) \cup {[p EXCEPT !.stored = TRUE]}
    /\ UNCHANGED <<historyVars, links, point, status, clicks, load, clicked, posted, disturbed>>

PostServedDocument(p) ==
    /\ ~p.stored
    /\ p.entry \in Held
    /\ server' = [v \in Versions |-> IF v = p.entry THEN p.links ELSE {}]
    /\ posts' = (posts \ {p}) \cup {[p EXCEPT !.stored = TRUE]}
    /\ UNCHANGED <<historyVars, links, point, status, clicks, load, clicked, posted, disturbed>>

\* save_audit_links: the list of the version is replaced
PostServed(p) ==
    /\ ~p.stored
    /\ p.entry \in Held
    /\ server' = [server EXCEPT ![p.entry] = p.links]
    /\ posts' = (posts \ {p}) \cup {[p EXCEPT !.stored = TRUE]}
    /\ UNCHANGED <<historyVars, links, point, status, clicks, load, clicked, posted, disturbed>>

PostReturns(p) ==
    /\ p.stored
    /\ posts' = posts \ {p}
    /\ status' = "saved"
    /\ UNCHANGED <<historyVars, server, links, point, clicks, load, clicked, posted, disturbed>>

\* 404 for an id the server does not have, or the post, its answer or the
\* review event after it failed
PostFails(p) ==
    /\ posts' = posts \ {p}
    /\ status' = "error"
    /\ UNCHANGED <<historyVars, server, links, point, clicks, load, clicked, posted, disturbed>>

LoadServed ==
    /\ load # Nothing /\ ~load.answered
    /\ load.entry \in Held
    /\ load' = [load EXCEPT !.answered = TRUE, !.got = server[load.entry]]
    /\ disturbed' = (disturbed \/ \E p \in posts : p.entry = load.entry /\ ~p.stored)
    /\ UNCHANGED <<historyVars, server, links, point, status, clicks, posts, clicked, posted>>

LoadReturns ==
    /\ load # Nothing /\ load.answered
    /\ load' = Nothing
    /\ links' = load.got
    /\ UNCHANGED <<historyVars, server, point, status, clicks, posts, clicked, posted, disturbed>>

\* No such version, no endpoint, or a failure: the list on the screen is empty
LoadFails ==
    /\ load # Nothing
    /\ load' = Nothing
    /\ links' = {}
    /\ disturbed' = (disturbed \/ load.entry \in Held)
    /\ UNCHANGED <<historyVars, server, point, status, clicks, posts, clicked, posted>>

-----------------------------------------------------------------------------
User == /\ open
        /\ \/ \E i \in 1..Len(history) : PickVersion(i) \/ DeleteVersion(i)
           \/ \E k \in {"save", "event"} : WorkflowStep(k)
           \/ \E s \in Sides : ClickPoint(s)
           \/ Refresh \/ NewFile \/ SaveLinks
Others    == OtherSaves \/ \E v \in Versions : OtherDeletes(v)
Posting   == \E p \in posts : PostServed(p) \/ PostReturns(p) \/ PostFails(p)
Hashing   == \E c \in clicks : FirstPoint(c) \/ SecondPoint(c)
Listing   == RefreshServed \/ RefreshReturns \/ RefreshFails
Loading   == LoadServed \/ LoadReturns \/ LoadFails
Progress  == \E t \in tasks : TaskServed(t) \/ TaskAnswered(t) \/ TaskListed(t)
                              \/ TaskReturns(t) \/ FileFetched(t) \/ TaskFails(t)

Next == User \/ Others \/ Posting \/ Hashing \/ Listing \/ Loading \/ Progress

Spec == Init /\ [][Next]_vars

\* A post is answered or fails; no property needs more
Fairness == WF_vars(Posting)
FairSpec == Spec /\ Fairness

-----------------------------------------------------------------------------
(* Properties *)

\* "saving" is shown only while a list is on its way, whichever order the
\* answers take and whatever else happens to the history.
SavingHasPost == status = "saving" => posts # {}

\* Once the lists that were asked for have arrived, the panel shows a version
\* that the server holds, and offers no other one: neither the entries that the
\* workflow steps put there nor the deleted versions are left, whatever order
\* the steps, deletions, reads and late indices took.  A document without a
\* version may leave the panel on an event.
Quiet == open /\ ~missed /\ reload = Nothing /\ \A t \in tasks : t.phase = "fetching"
ShownIsHeld ==
    Quiet => /\ ToSet(history) \subseteq Held \cup Marks
             /\ Active \in Held \/ ToSet(history) \subseteq Marks

\* As long as no list was posted behind another request, a link is stored
\* with the version it was made on and with no other.
StoredWithItsVersion ==
    ~disturbed => \A v \in Versions : \A l \in server[v] : l.of = v

\* Then the links on the screen of a version that the server holds are the
\* stored ones once nothing is on its way and the last save was not refused.
ScreenIsStored ==
    (~disturbed /\ posts = {} /\ load = Nothing /\ Active \in Held /\ status # "error")
        => links = server[Active]

\* Then a stored link stays until its version is deleted.
LinksKept ==
    [][~disturbed' =>
         \A v \in Versions : server[v] \subseteq server'[v] \/ v \notin Held']_vars

\* Then a link that was added to a version is stored, or the panel shows an
\* error, or the user has gone to another version.  (The first click only
\* starts a pair: links are numbered by the later ones.)
OnScreen(n) == \E l \in links : l.n = n /\ l.of = Active /\ Active \in Held
AddedIsStored ==
    \A n \in 2..MaxClicks :
        OnScreen(n) ~> \/ \E v \in Versions : \E l \in server[v] : l.n = n
                       \/ status = "error" \/ disturbed
                       \/ ~OnScreen(n)
=============================================================================
