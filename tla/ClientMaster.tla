---------------------------- MODULE ClientMaster ----------------------------
(***************************************************************************)
(* The client master of all firms and the transfer of a client between     *)
(* firms.                                                                  *)
(*                                                                         *)
(* The master is one JSON file.  Every writer reads all of it, changes its *)
(* part and writes all of it back: the handlers of the event loop (PUT     *)
(* /api/client-master, the claim of a transfer, the intake of a document)  *)
(* one after the other, and the threads of the OCR jobs at any time beside *)
(* them.  The screens of the browser and the MCP tool send a copy of their *)
(* firm's part that they have read some time before.                       *)
(*                                                                         *)
(* One profile field stands for all of them; its history travels in the    *)
(* record of the client.  A relation is a pair of clients.                 *)
(***************************************************************************)
EXTENDS Naturals, Sequences, FiniteSets, Functions

CONSTANTS
    Firms, DefaultFirm,
    Clients,     \* the clients of the file to begin with
    Home,        \* the firm of each
    Values,      \* of its field; "" is no value
    Stored,      \* what it is to begin with
    Demo,        \* the clients of the built-in demo master
    Names,       \* the ids slugClientId makes from names
    Copies,      \* the ids a claim draws
    Screens, Threads, Codes,
    Typed, Read, \* what people type into the field, what documents say it is
    NULL,
    MaxDeeds,    \* bound: pages opened, things typed, requests, jobs begun
    MaxCrashes   \* bound: restarts of the server

ASSUME FirmsAssumption ==
    /\ DefaultFirm \in Firms
    /\ Home \in [Clients -> Firms]
    /\ Stored \in [Clients -> Values]
    /\ "" \in Values /\ Typed \subseteq Values /\ Read \subseteq Values \ {""}
ASSUME IdsAreDistinct ==
    /\ Clients \cap Demo = {} /\ Clients \cap Copies = {} /\ Demo \cap Copies = {}
    /\ Names \cap (Clients \cup Demo \cup Copies) = {}
ASSUME CopiesAreFinite == IsFiniteSet(Copies)
ASSUME BoundsAreNatural == MaxDeeds \in Nat /\ MaxCrashes \in Nat
ASSUME NothingIsNoValue == "loop" \notin Threads /\ NULL \notin Codes \cup Copies

VARIABLES
    file,         \* client_master.json; NULL while it is cut short
    job,          \* what the event loop and each thread do with it
    screen,       \* the pages, each with the request it has sent
    transfers,    \* the transfer codes
    deeds, crashes,
    known,        \* history: the firm of every client that was ever stored
    origin,       \* history: the code an imported client comes from
    interrupted,  \* history: claims of a code that a crash cut off
    stale,        \* history: an intake wrote a field it had checked before
                  \* the field changed
    spoilt        \* history: the file was written from an older copy of it,
                  \* from a cut one, or left cut by a crash

vars == <<file, job, screen, transfers, deeds, crashes,
          known, origin, interrupted, stale, spoilt>>

Loop    == "loop"
Writers == Threads \cup {Loop}
Ids     == Clients \cup Demo \cup Names \cup Copies
Edges   == {e \in Ids \X Ids : e[1] # e[2]}
Sources == {"manual", "ocr", "master"}

Change == [value : Values, previous : Values, source : {"manual", "ocr"}]
Client == [firm : Firms, value : Values, source : Sources, history : Seq(Change)]

Pages == {"settings", "relations", "data", "mcp"}

Blank(f) == [firm |-> f, value |-> "", source |-> "master", history |-> <<>>]

-----------------------------------------------------------------------------
(* Reading the file.                                                       *)

\* (A master that holds the client c1 of the demo is also completed with the
\* rest of the demo when it is read; nothing here takes clients of it away.)
DemoMaster == [clients |-> [c \in Demo |-> Blank(DefaultFirm)], edges |-> {}]

\* A file that does not parse gives the demo master.
Loaded == IF file = NULL THEN DemoMaster ELSE file

Within(e, S) == e[1] \in S /\ e[2] \in S

OfFirm(m, f) == {c \in DOMAIN m.clients : m.clients[c].firm = f}

\* What a user of the firm gets.
View(m, f) ==
    [clients |-> Restrict(m.clients, OfFirm(m, f)),
     edges   |-> {e \in m.edges : Within(e, OfFirm(m, f))}]

-----------------------------------------------------------------------------
(* PUT /api/client-master.                                                 *)

\* The firm's clients are added or replaced one by one and never removed;
\* its relations are replaced as a whole; other firms keep theirs.
OfOthers(m, f) == DOMAIN m.clients \ OfFirm(m, f)

Overlaid(clients, new, f) ==
    [c \in DOMAIN clients \cup DOMAIN new |->
        IF c \in DOMAIN new THEN [new[c] EXCEPT !.firm = f] ELSE clients[c]]

\* Mutants: the firm's clients are replaced as a whole; the relations of the
\* other firms are forgotten.
MergedReplacing(m, f, body) ==
    [clients |-> Overlaid(Restrict(m.clients, OfOthers(m, f)), body.clients, f),
     edges   |-> {e \in m.edges : Within(e, OfOthers(m, f))} \cup body.edges]

MergedForgetting(m, f, body) ==
    [clients |-> Overlaid(m.clients, body.clients, f), edges |-> body.edges]

Merged(m, f, body) ==
    [clients |-> Overlaid(m.clients, body.clients, f),
     edges   |-> {e \in m.edges : Within(e, OfOthers(m, f))}
                    \cup {e \in body.edges : Within(e, OfFirm(m, f) \cup DOMAIN body.clients)}]

Accepted(m, f, body) ==
    /\ \A c \in DOMAIN body.clients : c \in DOMAIN m.clients => m.clients[c].firm = f
    /\ \A e \in body.edges : Within(e, DOMAIN body.clients)

-----------------------------------------------------------------------------
(* The history of the field.                                               *)

\* The newest change comes first.
Noted(c, value, previous, source) ==
    [c EXCEPT !.history =
        <<[value |-> value, previous |-> previous, source |-> source]>> \o @]

\* One field of a fresh copy is changed.
Updated(c, value) ==
    [Noted(c, value, c.value, "manual") EXCEPT !.value = value, !.source = "manual"]

\* The settings page compares what is typed with what it has loaded.
Recorded(before, after) ==
    IF after.value = before.value THEN after
    ELSE [Noted(after, after.value, before.value, "manual") EXCEPT !.source = "manual"]

Rank == [manual |-> 100, ocr |-> 50, master |-> 30]

\* Whether a document may set the field of a client.
Admits(c, value, source) ==
    /\ value # c.value
    /\ ~(c.source = "manual" /\ c.value # "")
    /\ c.value # "" => Rank[c.source] < Rank[source]

-----------------------------------------------------------------------------
Idle == [phase |-> "idle", task |-> NULL, copy |-> NULL, fresh |-> TRUE, mixed |-> FALSE]

LoopFree == job[Loop] = Idle

Deed == deeds < MaxDeeds /\ deeds' = deeds + 1

Init ==
    /\ file = [clients |-> [c \in Clients |-> [Blank(Home[c]) EXCEPT !.value = Stored[c]]],
               edges   |-> {}]
    /\ job = [w \in Writers |-> Idle]
    /\ screen = [s \in Screens |-> NULL]
    /\ transfers = [t \in Codes |-> NULL]
    /\ deeds = 0 /\ crashes = 0
    /\ known = Home
    /\ origin = [n \in Copies |-> NULL]
    /\ interrupted = [t \in Codes |-> 0]
    /\ stale = FALSE /\ spoilt = FALSE

-----------------------------------------------------------------------------
(* The pages.  Each reads the master through the event loop.               *)

serverSide == <<file, job, transfers, crashes, known, origin, interrupted, stale, spoilt>>

Shows(s, page) == screen[s] # NULL /\ screen[s].page = page
Quiet(s) == screen[s].put = NULL

OpenPage(s, page, f) ==
    /\ screen[s] = NULL
    /\ LoopFree
    /\ Deed
    /\ LET v == View(Loaded, f) IN
       screen' = [screen EXCEPT ![s] =
           [page |-> page, firm |-> f, shown |-> v, draft |-> v.clients, put |-> NULL]]
    /\ UNCHANGED serverSide

\* The reload event replaces what is shown and what is typed.
Reload(s) ==
    /\ Shows(s, "settings")
    /\ LoopFree
    /\ LET v == View(Loaded, screen[s].firm) IN
       screen' = [screen EXCEPT ![s].shown = v, ![s].draft = v.clients]
    /\ UNCHANGED <<serverSide, deeds>>

ClosePage(s) ==
    /\ screen[s] # NULL /\ Quiet(s)
    /\ screen' = [screen EXCEPT ![s] = NULL]
    /\ UNCHANGED <<serverSide, deeds>>

Type(s, c, value) ==
    /\ Shows(s, "settings")
    /\ c \in DOMAIN screen[s].draft
    /\ value # screen[s].draft[c].value
    /\ Deed
    /\ screen' = [screen EXCEPT ![s].draft[c].value = value]
    /\ UNCHANGED serverSide

\* The id is made from the name; only the firm's own ids are avoided.
AddClient(s, n) ==
    /\ Shows(s, "settings")
    /\ n \notin DOMAIN screen[s].draft
    /\ Deed
    /\ screen' = [screen EXCEPT ![s].draft =
           [c \in DOMAIN @ \cup {n} |-> IF c = n THEN Blank(screen[s].firm) ELSE @[c]]]
    /\ UNCHANGED serverSide

\* A CSV list of clients replaces the list: their profiles are left out.
ImportReplacing(s) ==
    /\ Shows(s, "settings")
    /\ Deed
    /\ \E S \in SUBSET DOMAIN screen[s].draft :
        screen' = [screen EXCEPT ![s].draft = [c \in S |-> Blank(screen[s].firm)]]
    /\ UNCHANGED serverSide

Send(s, body) == screen' = [screen EXCEPT ![s].put = body]

Save(s) ==
    /\ Shows(s, "settings") /\ Quiet(s)
    /\ LET shown == screen[s].shown
           draft == screen[s].draft
       IN  Send(s, [clients |-> [c \in DOMAIN draft |->
                                   IF c \in DOMAIN shown.clients
                                   THEN Recorded(shown.clients[c], draft[c])
                                   ELSE draft[c]],
                    edges   |-> shown.edges])
    /\ UNCHANGED <<serverSide, deeds>>

\* A relation is added or deleted: fresh clients, the page's relations.
Relate(s, e) ==
    /\ Shows(s, "relations") /\ Quiet(s)
    /\ LoopFree
    /\ Within(e, DOMAIN screen[s].shown.clients)
    /\ Deed
    /\ LET edges == screen[s].shown.edges IN
       Send(s, [clients |-> View(Loaded, screen[s].firm).clients,
                edges   |-> IF e \in edges THEN edges \ {e} ELSE edges \cup {e}])
    /\ UNCHANGED serverSide

\* A request of a page that shows nothing of the master itself: a field of
\* the data page, the layout of the relations, the MCP tool.
SendAlone(s, page, f, body) ==
    /\ screen[s] = NULL
    /\ LoopFree
    /\ Deed
    /\ screen' = [screen EXCEPT ![s] =
           [page |-> page, firm |-> f, shown |-> View(Loaded, f),
            draft |-> View(Loaded, f).clients, put |-> body]]
    /\ UNCHANGED serverSide

PatchField(s, f, c, value) ==
    LET v == View(Loaded, f) IN
    /\ c \in DOMAIN v.clients
    /\ value # v.clients[c].value
    /\ SendAlone(s, "data", f, [v EXCEPT !.clients[c] = Updated(@, value)])

UpdateTags(s, f, c) ==
    LET v == View(Loaded, f) IN
    /\ c \in DOMAIN v.clients
    /\ SendAlone(s, "mcp", f, [clients |-> Restrict(v.clients, {c}), edges |-> {}])

\* The page goes on as it was, or is gone with its request.
Unanswered(p) == IF p.page \in {"data", "mcp"} THEN NULL ELSE [p EXCEPT !.put = NULL]

\* Mutant: the list the next save is compared with stays the old one.
AnsweredHalf(p, m) ==
    IF p.page \in {"data", "mcp"} THEN NULL
    ELSE [p EXCEPT !.draft = View(m, p.firm).clients, !.put = NULL]

Answered(p, m) ==
    IF p.page \in {"data", "mcp"} THEN NULL
    ELSE LET v == View(m, p.firm) IN
         [p EXCEPT !.shown = v, !.draft = v.clients, !.put = NULL]

-----------------------------------------------------------------------------
(* Writing the file: a job reads it, opens it for writing, which cuts it   *)
(* to nothing, and writes its copy.                                        *)

Begin(w, phase, task, copy) ==
    job' = [job EXCEPT ![w] = [phase |-> phase, task |-> task, copy |-> copy,
                               fresh |-> file # NULL, mixed |-> FALSE]]

Serves(kind) == job[Loop] # Idle /\ job[Loop].task.kind = kind

Served(s) == Serves("put") /\ job[Loop].task.screen = s

PutArrives(s) ==
    /\ LoopFree
    /\ screen[s] # NULL /\ ~Quiet(s)
    /\ LET f == screen[s].firm
           body == screen[s].put
       IN  /\ Accepted(Loaded, f, body)
           /\ Begin(Loop, "open", [kind |-> "put", screen |-> s], Merged(Loaded, f, body))
    /\ UNCHANGED <<file, screen, transfers, deeds, crashes,
                   known, origin, interrupted, stale, spoilt>>

\* Refused, or lost on the way.
PutFails(s) ==
    /\ screen[s] # NULL /\ ~Quiet(s) /\ ~Served(s)
    /\ screen' = [screen EXCEPT ![s] = Unanswered(@)]
    /\ UNCHANGED <<serverSide, deeds>>

\* normalize_client_profile looks the client up and decides.
LearnChecks(w, c, value, source) ==
    /\ job[w] = Idle
    /\ source = "manual" => w = Loop
    /\ file # NULL
    /\ c \in DOMAIN file.clients
    /\ Admits(file.clients[c], value, source)
    /\ Deed
    /\ Begin(w, "read",
             [kind |-> "learn", client |-> c, value |-> value, source |-> source,
              seen |-> file.clients[c]], NULL)
    /\ UNCHANGED <<file, screen, transfers, crashes,
                   known, origin, interrupted, stale, spoilt>>

Learned(c, t) ==
    [Noted(c, t.value, t.seen.value, t.source) EXCEPT !.value = t.value, !.source = t.source]

\* update_client_record reads the file once more.
LearnReads(w) ==
    /\ job[w].phase = "read"
    /\ LET t == job[w].task IN
       IF file = NULL \/ (file # NULL /\ t.client \notin DOMAIN file.clients)
       THEN /\ job' = [job EXCEPT ![w] = Idle]
            /\ UNCHANGED stale
       ELSE LET now == file.clients[t.client] IN
            /\ Begin(w, "open", t, [file EXCEPT !.clients[t.client] = Learned(now, t)])
            /\ stale' = (stale \/ now.value # t.seen.value \/ now.source # t.seen.source)
    /\ UNCHANGED <<file, screen, transfers, deeds, crashes,
                   known, origin, interrupted, spoilt>>

OpenFile(w) ==
    /\ job[w].phase = "open"
    /\ file' = NULL
    /\ LET writing == {x \in Writers : job[x].phase = "write"} IN
       job' = [x \in Writers |->
                 IF x = w
                 THEN [job[w] EXCEPT !.phase = "write", !.mixed = writing # {}]
                 ELSE [job[x] EXCEPT !.fresh = (@ /\ job[x].phase # "open"),
                                     !.mixed = (@ \/ x \in writing)]]
    /\ spoilt' = (spoilt \/ ~job[w].fresh)
    /\ UNCHANGED <<screen, transfers, deeds, crashes, known, origin, interrupted, stale>>

\* Two writers at a time may leave a mixture that does not parse.
Written(w) ==
    /\ job[w].phase = "write"
    /\ \/ file' = job[w].copy
       \/ job[w].mixed /\ file' = NULL
    /\ LET clients == job[w].copy.clients IN
       known' = [c \in DOMAIN known \cup DOMAIN clients |->
                   IF c \in DOMAIN known THEN known[c] ELSE clients[c].firm]

\* A handler answers, unless the answer is lost.
PutWritten(s) ==
    /\ Served(s)
    /\ Written(Loop)
    /\ \/ screen' = [screen EXCEPT ![s] = Answered(@, job[Loop].copy)]
       \/ screen' = [screen EXCEPT ![s] = Unanswered(@)]
    /\ job' = [job EXCEPT ![Loop] = Idle]
    /\ UNCHANGED <<transfers, deeds, crashes, origin, interrupted, stale, spoilt>>

LearnWritten(w) ==
    /\ job[w] # Idle /\ job[w].task.kind = "learn"
    /\ Written(w)
    /\ job' = [job EXCEPT ![w] = Idle]
    /\ UNCHANGED <<screen, transfers, deeds, crashes, origin, interrupted, stale, spoilt>>

-----------------------------------------------------------------------------
(* The transfer of a client.                                               *)

Pending(t) == transfers[t] # NULL /\ transfers[t].status = "pending"

CreateTransfer(t, c) ==
    /\ LoopFree
    /\ transfers[t] = NULL
    /\ c \in DOMAIN Loaded.clients
    /\ Deed
    /\ transfers' = [transfers EXCEPT ![t] =
           [status |-> "pending", client |-> NULL,
            pack |-> [Loaded.clients[c] EXCEPT !.history = <<>>]]]
    /\ UNCHANGED <<file, job, screen, crashes, known, origin, interrupted, stale, spoilt>>

\* Its 14 days are over; whoever reads it next marks it.
ExpireTransfer(t) ==
    /\ LoopFree
    /\ Pending(t)
    /\ transfers' = [transfers EXCEPT ![t].status = "expired"]
    /\ UNCHANGED <<file, job, screen, deeds, crashes,
                   known, origin, interrupted, stale, spoilt>>

RevokeTransfer(t) ==
    /\ LoopFree
    /\ Pending(t)
    /\ transfers' = [transfers EXCEPT ![t].status = "revoked"]
    /\ UNCHANGED <<file, job, screen, deeds, crashes,
                   known, origin, interrupted, stale, spoilt>>

\* Mutant: a code is not asked whether it has been used.
ClaimBeginsAnyCode(t, f) ==
    /\ LoopFree
    /\ transfers[t] # NULL
    /\ transfers[t].pack.firm # f
    /\ \E n \in Copies : n \notin DOMAIN known
    /\ Deed
    /\ LET m == Loaded
           n == CHOOSE k \in Copies : k \notin DOMAIN known IN
       Begin(Loop, "open", [kind |-> "claim", code |-> t, copy |-> n],
             [m EXCEPT !.clients = [c \in DOMAIN @ \cup {n} |->
                 IF c = n THEN [transfers[t].pack EXCEPT !.firm = f] ELSE @[c]]])
    /\ UNCHANGED <<file, screen, transfers, crashes,
                   known, origin, interrupted, stale, spoilt>>

\* The client is imported first, under an id that was never used.
ClaimBegins(t, f) ==
    /\ LoopFree
    /\ Pending(t)
    /\ transfers[t].pack.firm # f
    /\ \E n \in Copies : n \notin DOMAIN known
    /\ Deed
    /\ LET m == Loaded
           n == CHOOSE k \in Copies : k \notin DOMAIN known IN
       Begin(Loop, "open", [kind |-> "claim", code |-> t, copy |-> n],
             [m EXCEPT !.clients = [c \in DOMAIN @ \cup {n} |->
                 IF c = n THEN [transfers[t].pack EXCEPT !.firm = f] ELSE @[c]]])
    /\ UNCHANGED <<file, screen, transfers, crashes,
                   known, origin, interrupted, stale, spoilt>>

ClaimWritten ==
    /\ Serves("claim")
    /\ Written(Loop)
    /\ origin' = [origin EXCEPT ![job[Loop].task.copy] = job[Loop].task.code]
    /\ job' = [job EXCEPT ![Loop].phase = "settle"]
    /\ UNCHANGED <<screen, transfers, deeds, crashes, interrupted, stale, spoilt>>

\* The code is marked used if it is still pending.
ClaimSettles ==
    /\ Serves("claim") /\ job[Loop].phase = "settle"
    /\ LET t == job[Loop].task.code IN
       transfers' = IF Pending(t)
                    THEN [transfers EXCEPT ![t].status = "claimed",
                                           ![t].client = job[Loop].task.copy]
                    ELSE transfers
    /\ job' = [job EXCEPT ![Loop] = Idle]
    /\ UNCHANGED <<file, screen, deeds, crashes,
                   known, origin, interrupted, stale, spoilt>>

-----------------------------------------------------------------------------
\* The server stops while it is at work and starts again; a file cut short
\* stays so.
Crash ==
    /\ crashes < MaxCrashes
    /\ \E w \in Writers : job[w] # Idle
    /\ crashes' = crashes + 1
    /\ job' = [w \in Writers |-> Idle]
    /\ screen' = [s \in Screens |-> IF Served(s) THEN Unanswered(screen[s]) ELSE screen[s]]
    /\ interrupted' = [t \in Codes |->
           IF Serves("claim") /\ job[Loop].phase = "settle" /\ job[Loop].task.code = t
           THEN interrupted[t] + 1 ELSE interrupted[t]]
    /\ spoilt' = (spoilt \/ \E w \in Writers : job[w].phase = "write")
    /\ UNCHANGED <<file, transfers, deeds, known, origin, stale>>

PageStep(s) ==
    \/ \E f \in Firms :
        \/ \E page \in {"settings", "relations"} : OpenPage(s, page, f)
        \/ \E c \in Ids : UpdateTags(s, f, c) \/ \E v \in Typed : PatchField(s, f, c, v)
    \/ Reload(s) \/ ClosePage(s) \/ Save(s)
    \/ \E c \in Ids, v \in Typed : Type(s, c, v)
    \/ \E n \in Names : AddClient(s, n)
    \/ ImportReplacing(s)
    \/ \E e \in Edges : Relate(s, e)
    \/ PutArrives(s) \/ PutFails(s) \/ PutWritten(s)

WriterStep(w) ==
    \/ \E c \in Ids, v \in Read, source \in {"manual", "ocr"} : LearnChecks(w, c, v, source)
    \/ LearnReads(w) \/ OpenFile(w) \/ LearnWritten(w)

TransferStep(t) ==
    \/ \E c \in Ids : CreateTransfer(t, c)
    \/ ExpireTransfer(t) \/ RevokeTransfer(t)
    \/ \E f \in Firms : ClaimBegins(t, f)

Next ==
    \/ \E s \in Screens : PageStep(s)
    \/ \E w \in Writers : WriterStep(w)
    \/ \E t \in Codes : TransferStep(t)
    \/ ClaimWritten
    \/ ClaimSettles
    \/ Crash

Spec == Init /\ [][Next]_vars

-----------------------------------------------------------------------------
IsDirectory(d) == DOMAIN d \subseteq Ids /\ d \in [DOMAIN d -> Client]

IsMaster(m) ==
    /\ m \in [clients : {m.clients}, edges : SUBSET Edges]
    /\ IsDirectory(m.clients)

IsPage(p) ==
    /\ p \in [page : Pages, firm : Firms, shown : {p.shown}, draft : {p.draft}, put : {p.put}]
    /\ IsMaster(p.shown) /\ IsDirectory(p.draft)
    /\ p.put # NULL => IsMaster(p.put)

Task == [kind : {"put"}, screen : Screens]
          \cup [kind : {"learn"}, client : Ids, value : Read, source : {"manual", "ocr"},
                seen : Client]
          \cup [kind : {"claim"}, code : Codes, copy : Copies]

IsJob(j) ==
    /\ j \in [phase : {"idle", "read", "open", "write", "settle"}, task : Task \cup {NULL},
              copy : {j.copy}, fresh : BOOLEAN, mixed : BOOLEAN]
    /\ j.phase \in {"open", "write"} => IsMaster(j.copy)

Transfer == [status : {"pending", "claimed", "expired", "revoked"},
             client : Copies \cup {NULL}, pack : Client]
ASSUME NothingIsNoTransfer == NULL \notin Transfer

TypeOK ==
    /\ file # NULL => IsMaster(file)
    /\ job = [w \in Writers |-> job[w]] /\ \A w \in Writers : IsJob(job[w])
    /\ screen = [s \in Screens |-> screen[s]]
    /\ \A s \in Screens : screen[s] # NULL => IsPage(screen[s])
    /\ transfers \in [Codes -> Transfer \cup {NULL}]
    /\ deeds \in 0..MaxDeeds /\ crashes \in 0..MaxCrashes
    /\ DOMAIN known \subseteq Ids /\ known \in [DOMAIN known -> Firms]
    /\ origin \in [Copies -> Codes \cup {NULL}]
    /\ interrupted \in [Codes -> Nat]
    /\ stale \in BOOLEAN /\ spoilt \in BOOLEAN

\* No client leaves the master or changes its firm, whatever the screens of
\* all firms send: as long as the file was only written from its own last
\* content.
ClientsKept ==
    ~spoilt /\ file # NULL =>
        \A c \in DOMAIN known : c \in DOMAIN file.clients /\ file.clients[c].firm = known[c]

\* A request of one firm is about to write the clients and relations of the
\* other firms exactly as the file has them, if no thread has written since
\* it read them.
OthersUntouched ==
    ~spoilt /\ Serves("put") /\ job[Loop].phase = "open" /\ job[Loop].fresh =>
        \A f \in Firms \ {screen[job[Loop].task.screen].firm} :
            View(job[Loop].copy, f) = View(file, f)

\* The history of a field leads to its value: the newest change is the value
\* and where it comes from, each change starts from the one before, and no
\* document has replaced what a person typed.
Explains(c) ==
    LET h == c.history IN
    /\ h # <<>> => h[1].value = c.value /\ h[1].source = c.source
    /\ \A i \in 1..Len(h) - 1 :
        /\ h[i].previous = h[i + 1].value
        /\ h[i].source = "ocr" /\ h[i + 1].source = "manual" => h[i + 1].value = ""

HistoryExplains ==
    ~stale /\ file # NULL => \A c \in DOMAIN file.clients : Explains(file.clients[c])

\* A code brings its client over once: more copies than one are left by
\* claims that a crash cut off, and a code without a copy in the end brings
\* none.
Settling(t) == Serves("claim") /\ job[Loop].phase = "settle" /\ job[Loop].task.code = t

ClaimsAccounted ==
    \A t \in Codes :
        Cardinality({n \in Copies : origin[n] = t})
            = interrupted[t] + (IF Settling(t) THEN 1 ELSE 0)
                + (IF transfers[t] # NULL /\ transfers[t].status = "claimed" THEN 1 ELSE 0)

\* What the tool promises that replaces the tags of a client: it changes
\* nothing else.  The code lets go of all relations of the firm.
TagsUpdateOnly ==
    ~spoilt /\ Serves("put") /\ screen[job[Loop].task.screen].page = "mcp"
        /\ job[Loop].phase = "open" /\ job[Loop].fresh
            => job[Loop].copy.edges = file.edges
=============================================================================
