------------------------ MODULE ClientMaster_proofs ------------------------
(***************************************************************************)
(* Theorems about ClientMaster for any firms, clients, screens, threads,   *)
(* codes and bounds.                                                       *)
(*                                                                         *)
(* None of the properties is inductive.  ClientsKept needs what the jobs   *)
(* hold that have read the file and not yet written it (FileKept); the     *)
(* history of a field passes through the screens and comes back merged, so *)
(* everything they show, hold typed and have sent must explain itself too  *)
(* (HistoryKept); the copies of a code are counted against a claim that    *)
(* has the code and a fresh id to itself (CodeHeld).                       *)
(***************************************************************************)
EXTENDS ClientMaster, SequenceTheorems, FiniteSetTheorems, TLAPS

Keeps(m) == \A c \in DOMAIN known : c \in DOMAIN m.clients /\ m.clients[c].firm = known[c]

\* As long as no write overtook another: one writer at a time has the file
\* cut, and what a fresh job holds keeps every client
FileKept ==
    ~spoilt =>
        /\ file # NULL => Keeps(file)
        /\ \A w \in Writers :
            /\ job[w].phase = "open" /\ job[w].fresh => file # NULL /\ Keeps(job[w].copy)
            /\ job[w].phase = "write" =>
                /\ file = NULL /\ ~job[w].mixed /\ Keeps(job[w].copy)
                /\ \A x \in Writers \ {w} : job[x].phase # "write"

\* What is typed into a page carries the history that was loaded, or none
Loyal(p) ==
    \A c \in DOMAIN p.draft : p.draft[c].history # <<>> =>
        /\ c \in DOMAIN p.shown.clients
        /\ p.draft[c].history = p.shown.clients[c].history
        /\ p.draft[c].source = p.shown.clients[c].source

Told(d) == \A c \in DOMAIN d : Explains(d[c])

PageTold(p) == Told(p.shown.clients) /\ (p.put # NULL => Told(p.put.clients))

PageGood(p) == IsPage(p) /\ Loyal(p) /\ (~stale => PageTold(p))

\* What the event loop and the threads are at
JobsFit ==
    /\ \A w \in Writers :
        /\ job[w].phase = "idle" => job[w] = Idle
        /\ job[w].phase # "idle" => job[w].task \in Task
        /\ job[w].phase = "read" => job[w].task.kind = "learn"
        /\ job[w].phase = "settle" => job[w].task.kind = "claim"
        /\ job[w].phase # "idle" /\ w # Loop => job[w].task.kind = "learn"
    /\ \A s \in Screens : Served(s) => PageGood(screen[s]) /\ screen[s].put # NULL

HistoryKept ==
    /\ \A s \in Screens : screen[s] # NULL => Loyal(screen[s])
    /\ \A t \in Codes : transfers[t] # NULL => transfers[t].pack.history = <<>>
    /\ \A w \in Writers : job[w].phase = "read" =>
        Admits(job[w].task.seen, job[w].task.value, job[w].task.source)
    /\ ~stale =>
        /\ file # NULL => Told(file.clients)
        /\ \A w \in Writers : job[w].phase \in {"open", "write"} => Told(job[w].copy.clients)
        /\ \A s \in Screens : screen[s] # NULL => PageTold(screen[s])

\* The claim under way has its code to itself, and until it is written an id
\* that was never stored; every copy made was stored
CodeHeld ==
    /\ Serves("claim") => Pending(job[Loop].task.code)
    /\ Serves("claim") /\ job[Loop].phase # "settle" => origin[job[Loop].task.copy] = NULL
    /\ Serves("claim") /\ job[Loop].phase = "settle" =>
        origin[job[Loop].task.copy] = job[Loop].task.code
    /\ Serves("claim") /\ job[Loop].phase \in {"open", "write"} =>
        job[Loop].task.copy \in DOMAIN job[Loop].copy.clients
    /\ \A n \in Copies : origin[n] # NULL => n \in DOMAIN known
    /\ ClaimsAccounted

Inv == TypeOK /\ JobsFit /\ FileKept /\ OthersUntouched /\ HistoryKept /\ CodeHeld

-----------------------------------------------------------------------------
(* Records of clients and sets of them *)

LEMMA NothingToExplain == ASSUME NEW c, c.history = <<>> PROVE Explains(c)
  <1>1. Len(c.history) = 0
    OBVIOUS
  <1>2. 1..Len(c.history) - 1 = {}
    BY <1>1
  <1> QED BY <1>2 DEF Explains

LEMMA BlankFits ==
  ASSUME NEW f \in Firms
  PROVE  Blank(f) \in Client /\ Blank(f).firm = f /\ Explains(Blank(f)) /\ Blank(f).history = <<>>
  <1>1. Blank(f) \in Client /\ Blank(f).firm = f /\ Blank(f).history = <<>>
    <2>1. <<>> \in Seq(Change)
      OBVIOUS
    <2>2. "" \in Values
      BY FirmsAssumption
    <2> QED BY <2>1, <2>2 DEF Blank, Client, Sources
  <1> QED BY <1>1, NothingToExplain

LEMMA DirectoryValue ==
  ASSUME NEW d, IsDirectory(d), NEW c \in DOMAIN d
  PROVE  d[c] \in Client /\ c \in Ids
  BY DEF IsDirectory

LEMMA ClientFields ==
  ASSUME NEW c \in Client
  PROVE  /\ c.firm \in Firms /\ c.value \in Values /\ c.source \in Sources
         /\ c.history \in Seq(Change)
         /\ c = [firm |-> c.firm, value |-> c.value, source |-> c.source, history |-> c.history]
  BY DEF Client

LEMMA SetFirm ==
  ASSUME NEW c \in Client, NEW f \in Firms
  PROVE  /\ [c EXCEPT !.firm = f] \in Client
         /\ [c EXCEPT !.firm = f].firm = f
         /\ [c EXCEPT !.firm = f].history = c.history
         /\ Explains(c) => Explains([c EXCEPT !.firm = f])
  BY DEF Client, Explains

LEMMA SetValue ==
  ASSUME NEW c \in Client, NEW v \in Values
  PROVE  /\ [c EXCEPT !.value = v] \in Client
         /\ [c EXCEPT !.value = v].history = c.history
         /\ [c EXCEPT !.value = v].source = c.source
         /\ [c EXCEPT !.value = v].firm = c.firm
  BY DEF Client

LEMMA SetSource ==
  ASSUME NEW c \in Client, NEW s \in Sources
  PROVE  [c EXCEPT !.source = s]
            = [firm |-> c.firm, value |-> c.value, source |-> s, history |-> c.history]
  BY DEF Client

LEMMA SetBoth ==
  ASSUME NEW c \in Client, NEW v \in Values, NEW s \in Sources
  PROVE  [c EXCEPT !.value = v, !.source = s]
            = [firm |-> c.firm, value |-> v, source |-> s, history |-> c.history]
  <1> DEFINE d == [c EXCEPT !.value = v]
  <1>1. d \in Client /\ d.firm = c.firm /\ d.value = v /\ d.history = c.history
    BY DEF Client
  <1> HIDE DEF d
  <1>2. [d EXCEPT !.source = s]
           = [firm |-> c.firm, value |-> v, source |-> s, history |-> c.history]
    BY <1>1, SetSource
  <1>3. [d EXCEPT !.source = s] = [c EXCEPT !.value = v, !.source = s]
    BY DEF d
  <1> QED BY <1>2, <1>3

LEMMA NotedFits ==
  ASSUME NEW c \in Client, NEW v \in Values, NEW p \in Values, NEW s \in {"manual", "ocr"}
  PROVE  LET e == [value |-> v, previous |-> p, source |-> s]
         IN  /\ Noted(c, v, p, s) = [firm |-> c.firm, value |-> c.value, source |-> c.source,
                                     history |-> <<e>> \o c.history]
             /\ Noted(c, v, p, s) \in Client
             /\ Noted(c, v, p, s).firm = c.firm /\ Noted(c, v, p, s).value = c.value
             /\ Noted(c, v, p, s).source = c.source
             /\ Noted(c, v, p, s).history = <<e>> \o c.history
  <1> DEFINE e == [value |-> v, previous |-> p, source |-> s]
             g == <<e>> \o c.history
  <1>1. e \in Change /\ c.history \in Seq(Change)
    BY DEF Client, Change
  <1>2. g \in Seq(Change)
    BY <1>1
  <1>3. c = [firm |-> c.firm, value |-> c.value, source |-> c.source, history |-> c.history]
    BY DEF Client
  <1>4. Noted(c, v, p, s) = [c EXCEPT !.history = g]
    BY DEF Noted
  <1> HIDE DEF g
  <1>5. Noted(c, v, p, s)
          = [firm |-> c.firm, value |-> c.value, source |-> c.source, history |-> g]
    BY <1>3, <1>4
  <1> QED BY <1>2, <1>5 DEF Client, g

\* One more change, which starts from the value so far (the one o has, whose
\* history it continues), explains the new value: a document must not
\* replace what a person typed
LEMMA OneMoreChange ==
  ASSUME NEW c \in Client, NEW o \in Client, NEW v \in Values, NEW p \in Values, NEW s \in {"manual", "ocr"}
  PROVE  LET n == [Noted(c, v, p, s) EXCEPT !.value = v, !.source = s]
         IN  /\ n \in Client
             /\ n.firm = c.firm
             /\ (\/ c.history = <<>>
                 \/ /\ c.history = o.history /\ Explains(o) /\ p = o.value
                    /\ s = "ocr" /\ o.source = "manual" => o.value = "") => Explains(n)
  <1> DEFINE e == [value |-> v, previous |-> p, source |-> s]
             h == c.history
             n == [Noted(c, v, p, s) EXCEPT !.value = v, !.source = s]
  <1>1. e \in Change /\ h \in Seq(Change)
    BY DEF Client, Change
  <1>2. <<e>> \o h \in Seq(Change)
    BY <1>1
  <1>3. n = [firm |-> c.firm, value |-> v, source |-> s, history |-> <<e>> \o h]
    <2> DEFINE m == Noted(c, v, p, s)
    <2>1. m \in Client /\ m.firm = c.firm /\ m.history = <<e>> \o h
      BY NotedFits
    <2>2. s \in Sources
      BY DEF Sources
    <2>3. n = [firm |-> m.firm, value |-> v, source |-> s, history |-> m.history]
      BY <2>1, <2>2, SetBoth
    <2> QED BY <2>1, <2>3
  <1>4. n \in Client /\ n.firm = c.firm
    BY <1>2, <1>3 DEF Client, Sources
  <1>5. Len(<<e>> \o h) = Len(h) + 1 /\ (<<e>> \o h)[1] = e
        /\ \A i \in 1..Len(h) : (<<e>> \o h)[i + 1] = h[i]
    BY <1>1
  <1>6. ASSUME \/ h = <<>>
               \/ /\ h = o.history /\ Explains(o) /\ p = o.value
                  /\ s = "ocr" /\ o.source = "manual" => o.value = ""
        PROVE  Explains(n)
    <2> DEFINE g == <<e>> \o h
    <2>1. n.history = g /\ n.value = v /\ n.source = s
      BY <1>3
    <2>2. g[1].value = v /\ g[1].source = s /\ g[1].previous = p
      BY <1>5
    <2>3. ASSUME NEW i \in 1..Len(g) - 1
          PROVE  /\ g[i].previous = g[i + 1].value
                 /\ g[i].source = "ocr" /\ g[i + 1].source = "manual" => g[i + 1].value = ""
      <3>0. Len(g) = Len(h) + 1 /\ Len(h) \in Nat
        BY <1>1, <1>5
      <3>1. i \in 1..Len(h) /\ h # <<>> /\ g[i + 1] = h[i]
        BY <3>0, <2>3, <1>5
      <3>2. /\ h = o.history /\ Explains(o) /\ p = o.value
            /\ s = "ocr" /\ o.source = "manual" => o.value = ""
        BY <3>1, <1>6
      <3>3. CASE i = 1
        BY <3>1, <3>2, <3>3, <2>2 DEF Explains
      <3>4. CASE i # 1
        <4>1. i - 1 \in 1..Len(h) - 1 /\ g[(i - 1) + 1] = h[i - 1] /\ (i - 1) + 1 = i
          BY <3>0, <3>1, <3>4, <1>5
        <4>2. \A k \in 1..Len(h) - 1 :
                 /\ h[k].previous = h[k + 1].value
                 /\ h[k].source = "ocr" /\ h[k + 1].source = "manual" => h[k + 1].value = ""
          BY <3>2 DEF Explains
        <4> HIDE DEF g, h
        <4> QED BY <4>1, <4>2, <3>1
      <3> QED BY <3>3, <3>4
    <2> HIDE DEF g, n
    <2> QED BY <2>1, <2>2, <2>3 DEF Explains
  <1> QED BY <1>4, <1>6

-----------------------------------------------------------------------------
(* Masters *)

LEMMA MasterParts ==
  ASSUME NEW m, IsMaster(m)
  PROVE  /\ m = [clients |-> m.clients, edges |-> m.edges]
         /\ m.edges \subseteq Edges /\ IsDirectory(m.clients)
  BY DEF IsMaster

LEMMA MakeMaster ==
  ASSUME NEW d, IsDirectory(d), NEW E \in SUBSET Edges
  PROVE  IsMaster([clients |-> d, edges |-> E])
  BY DEF IsMaster

\* A directory is made of one record for each of its ids
LEMMA MakeDirectory ==
  ASSUME NEW D \in SUBSET Ids, NEW d \in [D -> Client]
  PROVE  IsDirectory(d) /\ DOMAIN d = D
  BY DEF IsDirectory

LEMMA RestrictFits ==
  ASSUME NEW d, IsDirectory(d), NEW S, S \subseteq DOMAIN d
  PROVE  /\ IsDirectory(Restrict(d, S)) /\ DOMAIN Restrict(d, S) = S
         /\ \A c \in S : Restrict(d, S)[c] = d[c]
         /\ Told(d) => Told(Restrict(d, S))
  BY DEF IsDirectory, Restrict, Told

LEMMA ReplaceFits ==
  ASSUME NEW d, IsDirectory(d), NEW c \in DOMAIN d, NEW x \in Client
  PROVE  /\ IsDirectory([d EXCEPT ![c] = x]) /\ DOMAIN [d EXCEPT ![c] = x] = DOMAIN d
         /\ [d EXCEPT ![c] = x][c] = x
         /\ \A b \in DOMAIN d \ {c} : [d EXCEPT ![c] = x][b] = d[b]
         /\ Told(d) /\ Explains(x) => Told([d EXCEPT ![c] = x])
  <1> DEFINE e == [d EXCEPT ![c] = x]
  <1>1. IsDirectory(e) /\ DOMAIN e = DOMAIN d /\ e[c] = x /\ \A b \in DOMAIN d \ {c} : e[b] = d[b]
    BY DEF IsDirectory
  <1> HIDE DEF e
  <1>2. Told(d) /\ Explains(x) => Told(e)
    BY <1>1 DEF Told
  <1> QED BY <1>1, <1>2 DEF e

LEMMA AddFits ==
  ASSUME NEW d, IsDirectory(d), NEW n \in Ids, NEW x \in Client
  PROVE  LET e == [c \in DOMAIN d \cup {n} |-> IF c = n THEN x ELSE d[c]]
         IN  /\ IsDirectory(e) /\ DOMAIN e = DOMAIN d \cup {n}
             /\ e[n] = x /\ \A c \in DOMAIN d \ {n} : e[c] = d[c]
             /\ Told(d) /\ Explains(x) => Told(e)
  <1> DEFINE e == [c \in DOMAIN d \cup {n} |-> IF c = n THEN x ELSE d[c]]
  <1>1. IsDirectory(e) /\ DOMAIN e = DOMAIN d \cup {n}
        /\ e[n] = x /\ \A c \in DOMAIN d \ {n} : e[c] = d[c]
    BY DEF IsDirectory
  <1> HIDE DEF e
  <1>2. Told(d) /\ Explains(x) => Told(e)
    BY <1>1 DEF Told
  <1> QED BY <1>1, <1>2 DEF e

LEMMA DemoFits == IsMaster(DemoMaster) /\ Told(DemoMaster.clients)
  <1> DEFINE d == [c \in Demo |-> Blank(DefaultFirm)]
  <1>1. Blank(DefaultFirm) \in Client /\ Explains(Blank(DefaultFirm))
    BY BlankFits, FirmsAssumption
  <1>2. IsDirectory(d) /\ Told(d)
    BY <1>1 DEF IsDirectory, Told, Ids
  <1> HIDE DEF d
  <1>3. DemoMaster = [clients |-> d, edges |-> {}]
    BY DEF DemoMaster, d
  <1>4. {} \in SUBSET Edges
    OBVIOUS
  <1> QED BY <1>2, <1>3, <1>4, MakeMaster

LEMMA LoadedFits ==
  ASSUME TypeOK
  PROVE  /\ IsMaster(Loaded)
         /\ HistoryKept /\ ~stale => Told(Loaded.clients)
  BY DemoFits DEF TypeOK, Loaded, HistoryKept

LEMMA ViewFits ==
  ASSUME NEW m, IsMaster(m), NEW f \in Firms
  PROVE  /\ IsMaster(View(m, f))
         /\ DOMAIN View(m, f).clients = OfFirm(m, f)
         /\ \A c \in OfFirm(m, f) : View(m, f).clients[c] = m.clients[c]
         /\ Told(m.clients) => Told(View(m, f).clients)
  <1>1. IsDirectory(m.clients) /\ m.edges \subseteq Edges /\ OfFirm(m, f) \subseteq DOMAIN m.clients
    BY MasterParts DEF OfFirm
  <1>2. {e \in m.edges : Within(e, OfFirm(m, f))} \in SUBSET Edges
    BY <1>1
  <1> QED BY <1>1, <1>2, RestrictFits, MakeMaster DEF View

-----------------------------------------------------------------------------
(* PUT *)

Joins(o, d, n, f) ==
    /\ DOMAIN o = DOMAIN d \cup DOMAIN n
    /\ \A c \in DOMAIN n : o[c].firm = f
    /\ \A c \in DOMAIN d \ DOMAIN n : o[c] = d[c]

LEMMA OverlaidFits ==
  ASSUME NEW d, IsDirectory(d), NEW n, IsDirectory(n), NEW f \in Firms
  PROVE  /\ IsDirectory(Overlaid(d, n, f))
         /\ Joins(Overlaid(d, n, f), d, n, f)
         /\ Told(d) /\ Told(n) => Told(Overlaid(d, n, f))
  <1> DEFINE o == Overlaid(d, n, f)
             r(c) == [n[c] EXCEPT !.firm = f]
  <1>1. ASSUME NEW c \in DOMAIN n
        PROVE  r(c) \in Client /\ r(c).firm = f /\ (Explains(n[c]) => Explains(r(c)))
    <2>1. n[c] \in Client
      BY DirectoryValue
    <2> QED BY <2>1, SetFirm
  <1> HIDE DEF r
  <1>2. o = [c \in DOMAIN d \cup DOMAIN n |-> IF c \in DOMAIN n THEN r(c) ELSE d[c]]
    BY DEF Overlaid, r
  <1>3. DOMAIN o = DOMAIN d \cup DOMAIN n /\ DOMAIN o \subseteq Ids
    BY <1>2 DEF IsDirectory
  <1>4. \A c \in DOMAIN n : o[c] = r(c)
    BY <1>2
  <1>5. \A c \in DOMAIN d \ DOMAIN n : o[c] = d[c]
    BY <1>2
  <1>6. IsDirectory(o)
    <2>1. \A c \in DOMAIN o : o[c] \in Client
      BY <1>1, <1>3, <1>4, <1>5, DirectoryValue
    <2>2. o = [c \in DOMAIN o |-> o[c]]
      BY <1>2
    <2> QED BY <1>3, <2>1, <2>2 DEF IsDirectory
  <1> HIDE DEF o
  <1>7. Told(d) /\ Told(n) => Told(o)
    BY <1>1, <1>3, <1>4, <1>5 DEF Told
  <1>8. \A c \in DOMAIN n : o[c].firm = f
    BY <1>1, <1>4
  <1> QED BY <1>3, <1>5, <1>6, <1>7, <1>8 DEF o, Joins

LEMMA MergedFits ==
  ASSUME NEW m, IsMaster(m), NEW b, IsMaster(b), NEW f \in Firms
  PROVE  /\ IsMaster(Merged(m, f, b))
         /\ Merged(m, f, b).clients = Overlaid(m.clients, b.clients, f)
         /\ Told(m.clients) /\ Told(b.clients) => Told(Merged(m, f, b).clients)
  <1> DEFINE o == Overlaid(m.clients, b.clients, f)
             E == {e \in m.edges : Within(e, OfOthers(m, f))}
                    \cup {e \in b.edges : Within(e, OfFirm(m, f) \cup DOMAIN b.clients)}
  <1>1. IsDirectory(m.clients) /\ IsDirectory(b.clients)
        /\ m.edges \subseteq Edges /\ b.edges \subseteq Edges
    BY MasterParts
  <1>2. IsDirectory(o) /\ (Told(m.clients) /\ Told(b.clients) => Told(o))
    BY <1>1, OverlaidFits
  <1>3. E \in SUBSET Edges
    BY <1>1
  <1>4. Merged(m, f, b) = [clients |-> o, edges |-> E]
    BY DEF Merged
  <1> HIDE DEF o, E
  <1> QED BY <1>2, <1>3, <1>4, MakeMaster DEF o

LEMMA MergedKeeps ==
  ASSUME NEW m, IsMaster(m), NEW b, IsMaster(b), NEW f \in Firms, Accepted(m, f, b), Keeps(m)
  PROVE  Keeps(Merged(m, f, b))
  <1> DEFINE o == Overlaid(m.clients, b.clients, f)
  <1>1. /\ DOMAIN o = DOMAIN m.clients \cup DOMAIN b.clients
        /\ \A c \in DOMAIN b.clients : o[c].firm = f
        /\ \A c \in DOMAIN m.clients \ DOMAIN b.clients : o[c] = m.clients[c]
    <2>1. IsDirectory(m.clients) /\ IsDirectory(b.clients)
      BY MasterParts
    <2>2. Joins(o, m.clients, b.clients, f)
      BY <2>1, OverlaidFits
    <2> QED BY <2>2 DEF Joins
  <1>2. Merged(m, f, b).clients = o
    BY MergedFits
  <1> HIDE DEF o
  <1> QED BY <1>1, <1>2 DEF Keeps, Accepted

LEMMA MergedOthers ==
  ASSUME NEW m, IsMaster(m), NEW b, IsMaster(b), NEW f \in Firms, Accepted(m, f, b),
         NEW g \in Firms \ {f}
  PROVE  View(Merged(m, f, b), g) = View(m, g)
  <1> DEFINE o == Overlaid(m.clients, b.clients, f)
             M == Merged(m, f, b)
  <1>1. /\ DOMAIN o = DOMAIN m.clients \cup DOMAIN b.clients
        /\ \A c \in DOMAIN b.clients : o[c].firm = f
        /\ \A c \in DOMAIN m.clients \ DOMAIN b.clients : o[c] = m.clients[c]
    <2>1. IsDirectory(m.clients) /\ IsDirectory(b.clients)
      BY MasterParts
    <2> HIDE DEF M
    <2>2. Joins(o, m.clients, b.clients, f)
      BY <2>1, OverlaidFits
    <2> QED BY <2>2 DEF Joins
  <1>2. M.clients = o
    BY MergedFits
  <1>3. M.edges = {e \in m.edges : Within(e, OfOthers(m, f))}
                    \cup {e \in b.edges : Within(e, OfFirm(m, f) \cup DOMAIN b.clients)}
    BY DEF Merged
  <1> HIDE DEF o, M
  <1>4. OfFirm(M, g) = OfFirm(m, g)
    BY <1>1, <1>2 DEF OfFirm, Accepted
  <1>5. \A c \in OfFirm(m, g) : /\ M.clients[c] = m.clients[c]
                                /\ c \in OfOthers(m, f)
                                /\ c \notin OfFirm(m, f) \cup DOMAIN b.clients
    BY <1>1, <1>2 DEF OfFirm, OfOthers, Accepted
  <1>6. Restrict(M.clients, OfFirm(m, g)) = Restrict(m.clients, OfFirm(m, g))
    BY <1>5 DEF Restrict
  <1>7. {e \in M.edges : Within(e, OfFirm(m, g))} = {e \in m.edges : Within(e, OfFirm(m, g))}
    BY <1>3, <1>5 DEF Within
  <1> QED BY <1>4, <1>6, <1>7 DEF View, M

-----------------------------------------------------------------------------
(* What a step of a page does: the server stays as it is, the page becomes *)
(* another one that fits, and keeps its request while it is being served   *)

Changes(s) ==
    /\ UNCHANGED serverSide
    /\ deeds' \in 0..MaxDeeds
    /\ \E p :
        /\ screen' = [screen EXCEPT ![s] = p]
        /\ p # NULL => PageGood(p)
        /\ Served(s) => PageGood(p) /\ p.put # NULL /\ p.firm = screen[s].firm

LEMMA DeedCounts == ASSUME TypeOK, Deed PROVE deeds' \in 0..MaxDeeds
  BY BoundsAreNatural DEF TypeOK, Deed

LEMMA ServedWhileBusy == ASSUME NEW s, Served(s) PROVE ~LoopFree
  BY DEF Served, Serves, LoopFree

\* A page that fits is made of fitting parts
LEMMA MakePage ==
  ASSUME NEW page \in Pages, NEW f \in Firms, NEW m, IsMaster(m), NEW d, IsDirectory(d),
         NEW put, put # NULL => IsMaster(put),
         NEW p, p = [page |-> page, firm |-> f, shown |-> m, draft |-> d, put |-> put]
  PROVE  IsPage(p)
  BY DEF IsPage

LEMMA PageParts ==
  ASSUME NEW p, IsPage(p)
  PROVE  /\ p.page \in Pages /\ p.firm \in Firms /\ IsMaster(p.shown) /\ IsDirectory(p.draft)
         /\ p.put # NULL => IsMaster(p.put)
         /\ p = [page |-> p.page, firm |-> p.firm, shown |-> p.shown, draft |-> p.draft,
                 put |-> p.put]
  BY DEF IsPage

LEMMA PageSet ==
  ASSUME NEW p, IsPage(p), NEW x
  PROVE  /\ [p EXCEPT !.draft = x] = [page |-> p.page, firm |-> p.firm, shown |-> p.shown,
                                      draft |-> x, put |-> p.put]
         /\ [p EXCEPT !.shown = x] = [page |-> p.page, firm |-> p.firm, shown |-> x,
                                      draft |-> p.draft, put |-> p.put]
         /\ [p EXCEPT !.put = x] = [page |-> p.page, firm |-> p.firm, shown |-> p.shown,
                                    draft |-> p.draft, put |-> x]
  BY DEF IsPage

\* What a page shows and holds typed are replaced together
LEMMA PageRefreshed ==
  ASSUME NEW p, IsPage(p), NEW m, IsMaster(m)
  PROVE  [p EXCEPT !.shown = m, !.draft = m.clients]
            = [page |-> p.page, firm |-> p.firm, shown |-> m, draft |-> m.clients,
               put |-> p.put]
  <1> DEFINE q == [p EXCEPT !.shown = m]
  <1>1. q = [page |-> p.page, firm |-> p.firm, shown |-> m, draft |-> p.draft, put |-> p.put]
    BY PageSet
  <1>2. IsPage(q)
    BY <1>1, PageParts, MakePage
  <1>3. [q EXCEPT !.draft = m.clients]
           = [page |-> q.page, firm |-> q.firm, shown |-> q.shown, draft |-> m.clients,
              put |-> q.put]
    BY <1>2, PageSet
  <1>4. q.page = p.page /\ q.firm = p.firm /\ q.shown = m /\ q.put = p.put
    BY <1>1
  <1>5. [q EXCEPT !.draft = m.clients] = [p EXCEPT !.shown = m, !.draft = m.clients]
    BY DEF q
  <1> HIDE DEF q
  <1> QED BY <1>3, <1>4, <1>5

\* What a page of s is, when it is there
LEMMA PageIsGood ==
  ASSUME TypeOK, HistoryKept, NEW s \in Screens, screen[s] # NULL
  PROVE  PageGood(screen[s])
  BY DEF TypeOK, HistoryKept, PageGood

\* A page that shows what the file holds
LEMMA FreshPage ==
  ASSUME TypeOK, HistoryKept, NEW page \in Pages, NEW f \in Firms,
         NEW put, put # NULL => IsMaster(put) /\ (~stale => Told(put.clients)),
         NEW p, p = [page |-> page, firm |-> f, shown |-> View(Loaded, f),
                     draft |-> View(Loaded, f).clients, put |-> put]
  PROVE  PageGood(p)
  <1>1. IsMaster(View(Loaded, f)) /\ (~stale => Told(View(Loaded, f).clients))
    BY LoadedFits, ViewFits
  <1>2. IsPage(p)
    BY <1>1, MasterParts, MakePage
  <1>3. p.shown = View(Loaded, f) /\ p.draft = View(Loaded, f).clients /\ p.put = put
    OBVIOUS
  <1>4. Loyal(p)
    BY <1>3 DEF Loyal
  <1> QED BY <1>1, <1>2, <1>3, <1>4 DEF PageGood, PageTold

LEMMA OpenPageChanges ==
  ASSUME Inv, NEW s \in Screens, NEW page \in {"settings", "relations"}, NEW f \in Firms,
         OpenPage(s, page, f)
  PROVE  Changes(s)
  <1> DEFINE p == [page |-> page, firm |-> f, shown |-> View(Loaded, f),
                   draft |-> View(Loaded, f).clients, put |-> NULL]
  <1>1. PageGood(p)
    BY FreshPage DEF Inv, Pages
  <1>2. screen' = [screen EXCEPT ![s] = p] /\ UNCHANGED serverSide
    BY DEF OpenPage
  <1>3. ~Served(s)
    BY ServedWhileBusy DEF OpenPage
  <1>4. deeds' \in 0..MaxDeeds
    BY DeedCounts DEF OpenPage, Inv
  <1> HIDE DEF p
  <1> QED BY <1>1, <1>2, <1>3, <1>4 DEF Changes

LEMMA ReloadChanges ==
  ASSUME Inv, NEW s \in Screens, Reload(s)
  PROVE  Changes(s)
  <1> DEFINE o == screen[s]
             p == [page |-> o.page, firm |-> o.firm, shown |-> View(Loaded, o.firm),
                   draft |-> View(Loaded, o.firm).clients, put |-> o.put]
  <1>1. PageGood(o)
    BY PageIsGood DEF Reload, Shows, Inv
  <1>2. screen' = [screen EXCEPT ![s] = p] /\ UNCHANGED <<serverSide, deeds>>
    <2>1. IsPage(o) /\ IsMaster(View(Loaded, o.firm))
      BY <1>1, PageParts, LoadedFits, ViewFits DEF PageGood, Inv
    <2>2. [o EXCEPT !.shown = View(Loaded, o.firm), !.draft = View(Loaded, o.firm).clients] = p
      BY <2>1, PageRefreshed
    <2>3. screen' = [screen EXCEPT ![s] =
             [o EXCEPT !.shown = View(Loaded, o.firm), !.draft = View(Loaded, o.firm).clients]]
      BY DEF Reload, TypeOK, Inv
    <2> QED BY <2>2, <2>3 DEF Reload
  <1>3. PageGood(p)
    <2>1. o.page \in Pages /\ o.firm \in Firms
          /\ (o.put # NULL => IsMaster(o.put) /\ (~stale => Told(o.put.clients)))
      BY <1>1, PageParts DEF PageGood, PageTold
    <2> QED BY <2>1, FreshPage DEF Inv
  <1>4. ~Served(s)
    BY ServedWhileBusy DEF Reload
  <1> HIDE DEF p, o
  <1>5. deeds' \in 0..MaxDeeds /\ UNCHANGED serverSide
    BY <1>2 DEF Inv, TypeOK
  <1> QED BY <1>2, <1>3, <1>4, <1>5 DEF Changes

LEMMA ClosePageChanges ==
  ASSUME Inv, NEW s \in Screens, ClosePage(s)
  PROVE  Changes(s)
  <1>1. ~Served(s)
    BY DEF ClosePage, Quiet, Inv, JobsFit
  <1>2. UNCHANGED serverSide /\ deeds' \in 0..MaxDeeds
    BY DEF ClosePage, Inv, TypeOK
  <1> QED BY <1>1, <1>2 DEF Changes, ClosePage

\* A step that changes what is typed
LEMMA DraftChanges ==
  ASSUME Inv, NEW s \in Screens, screen[s] # NULL,
         NEW d, IsDirectory(d),
         \A c \in DOMAIN d : d[c].history # <<>> =>
             /\ c \in DOMAIN screen[s].draft
             /\ d[c].history = screen[s].draft[c].history
             /\ d[c].source = screen[s].draft[c].source,
         screen' = [screen EXCEPT ![s] = [screen[s] EXCEPT !.draft = d]],
         UNCHANGED serverSide, deeds' \in 0..MaxDeeds
  PROVE  Changes(s)
  <1> DEFINE o == screen[s]
             p == [o EXCEPT !.draft = d]
  <1>1. PageGood(o)
    BY PageIsGood DEF Inv
  <1>2. p = [page |-> o.page, firm |-> o.firm, shown |-> o.shown, draft |-> d, put |-> o.put]
    BY <1>1, PageSet DEF PageGood
  <1>3. IsPage(p)
    BY <1>1, <1>2, PageParts, MakePage DEF PageGood
  <1>4. p.firm = o.firm /\ p.shown = o.shown /\ p.draft = d /\ p.put = o.put
    BY <1>2
  <1> HIDE DEF p
  <1>5. PageGood(p)
    BY <1>1, <1>3, <1>4 DEF PageGood, PageTold, Loyal
  <1>6. Served(s) => p.put # NULL
    BY <1>4 DEF Inv, JobsFit
  <1> QED BY <1>3, <1>4, <1>5, <1>6 DEF Changes, p

\* A step that sends a request
LEMMA PutChanges ==
  ASSUME Inv, NEW s \in Screens, screen[s] # NULL, Quiet(s),
         NEW b, IsMaster(b), ~stale => Told(b.clients),
         screen' = [screen EXCEPT ![s] = [screen[s] EXCEPT !.put = b]],
         UNCHANGED serverSide, deeds' \in 0..MaxDeeds
  PROVE  Changes(s)
  <1> DEFINE o == screen[s]
             p == [o EXCEPT !.put = b]
  <1>1. PageGood(o)
    BY PageIsGood DEF Inv
  <1>2. p = [page |-> o.page, firm |-> o.firm, shown |-> o.shown, draft |-> o.draft, put |-> b]
    BY <1>1, PageSet DEF PageGood
  <1>3. IsPage(p)
    BY <1>1, <1>2, PageParts, MakePage DEF PageGood
  <1>4. p.shown = o.shown /\ p.draft = o.draft /\ p.put = b
    BY <1>2
  <1> HIDE DEF p
  <1>5. PageGood(p)
    BY <1>1, <1>3, <1>4 DEF PageGood, PageTold, Loyal
  <1>6. ~Served(s)
    BY DEF Inv, JobsFit, Quiet
  <1> QED BY <1>5, <1>6 DEF Changes, p

LEMMA TypeChanges ==
  ASSUME Inv, NEW s \in Screens, NEW c \in Ids, NEW v \in Typed, Type(s, c, v)
  PROVE  Changes(s)
  <1> DEFINE o == screen[s]
             x == [o.draft[c] EXCEPT !.value = v]
             d == [o.draft EXCEPT ![c] = x]
  <1>1. o # NULL /\ IsPage(o) /\ c \in DOMAIN o.draft
    BY PageIsGood DEF Type, Shows, Inv, PageGood
  <1>2. IsDirectory(o.draft) /\ o.draft[c] \in Client /\ v \in Values
    BY <1>1, PageParts, DirectoryValue, FirmsAssumption
  <1>3. x \in Client /\ x.history = o.draft[c].history /\ x.source = o.draft[c].source
    BY <1>2, SetValue
  <1> HIDE DEF x
  <1>4. IsDirectory(d) /\ DOMAIN d = DOMAIN o.draft /\ d[c] = x
        /\ \A b \in DOMAIN o.draft \ {c} : d[b] = o.draft[b]
    BY <1>1, <1>2, <1>3, ReplaceFits
  <1>5. screen' = [screen EXCEPT ![s] = [o EXCEPT !.draft = d]]
    BY DEF Type, x
  <1>6. UNCHANGED serverSide /\ deeds' \in 0..MaxDeeds
    BY DeedCounts DEF Type, Inv
  <1> HIDE DEF d
  <1>7. \A b \in DOMAIN d : d[b].history # <<>> =>
             /\ b \in DOMAIN o.draft
             /\ d[b].history = o.draft[b].history
             /\ d[b].source = o.draft[b].source
    BY <1>3, <1>4
  <1> QED BY <1>1, <1>4, <1>5, <1>6, <1>7, DraftChanges

LEMMA AddClientChanges ==
  ASSUME Inv, NEW s \in Screens, NEW n \in Names, AddClient(s, n)
  PROVE  Changes(s)
  <1> DEFINE o == screen[s]
             x == Blank(o.firm)
             d == [c \in DOMAIN o.draft \cup {n} |-> IF c = n THEN x ELSE o.draft[c]]
  <1>1. o # NULL /\ IsPage(o)
    BY PageIsGood DEF AddClient, Shows, Inv, PageGood
  <1>2. IsDirectory(o.draft) /\ x \in Client /\ x.history = <<>> /\ n \in Ids
    BY <1>1, PageParts, BlankFits DEF Ids
  <1>5. screen' = [screen EXCEPT ![s] = [o EXCEPT !.draft = d]]
    BY DEF AddClient
  <1> HIDE DEF x
  <1>4. IsDirectory(d) /\ DOMAIN d = DOMAIN o.draft \cup {n} /\ d[n] = x
        /\ \A b \in DOMAIN o.draft \ {n} : d[b] = o.draft[b]
    BY <1>1, <1>2, AddFits
  <1>6. UNCHANGED serverSide /\ deeds' \in 0..MaxDeeds
    BY DeedCounts DEF AddClient, Inv
  <1> HIDE DEF d
  <1>7. \A b \in DOMAIN d : d[b].history # <<>> =>
             /\ b \in DOMAIN o.draft
             /\ d[b].history = o.draft[b].history
             /\ d[b].source = o.draft[b].source
    BY <1>2, <1>4
  <1> QED BY <1>1, <1>4, <1>5, <1>6, <1>7, DraftChanges

LEMMA ImportChanges ==
  ASSUME Inv, NEW s \in Screens, ImportReplacing(s)
  PROVE  Changes(s)
  <1> DEFINE o == screen[s]
             x == Blank(o.firm)
  <1>1. o # NULL /\ IsPage(o)
    BY PageIsGood DEF ImportReplacing, Shows, Inv, PageGood
  <1>2. IsDirectory(o.draft) /\ x \in Client /\ x.history = <<>>
    BY <1>1, PageParts, BlankFits
  <1>3. PICK S \in SUBSET DOMAIN o.draft :
          screen' = [screen EXCEPT ![s] = [o EXCEPT !.draft = [c \in S |-> x]]]
    BY DEF ImportReplacing
  <1> HIDE DEF x
  <1> DEFINE d == [c \in S |-> x]
  <1>4. IsDirectory(d) /\ \A c \in DOMAIN d : d[c].history = <<>>
    BY <1>2 DEF IsDirectory
  <1>5. UNCHANGED serverSide /\ deeds' \in 0..MaxDeeds
    BY DeedCounts DEF ImportReplacing, Inv
  <1>6. screen' = [screen EXCEPT ![s] = [screen[s] EXCEPT !.draft = d]]
    BY <1>3
  <1> HIDE DEF d
  <1> QED BY <1>1, <1>4, <1>5, <1>6, DraftChanges

\* What the settings page sends for a client explains itself
LEMMA RecordedExplains ==
  ASSUME NEW b \in Client, NEW a \in Client, Explains(b),
         a.history # <<>> => a.history = b.history /\ a.source = b.source
  PROVE  Explains(Recorded(b, a))
  <1>1. CASE a.value = b.value
    <2>1. Recorded(b, a) = a
      BY <1>1 DEF Recorded
    <2>2. Explains(a)
      <3>1. CASE a.history = <<>>
        BY <3>1, NothingToExplain
      <3>2. CASE a.history # <<>>
        BY <1>1, <3>2 DEF Explains
      <3> QED BY <3>1, <3>2
    <2> QED BY <2>1, <2>2
  <1>2. CASE a.value # b.value
    <2> DEFINE m == Noted(a, a.value, b.value, "manual")
               n == [m EXCEPT !.value = a.value, !.source = "manual"]
    <2>1. a.value \in Values /\ b.value \in Values /\ "manual" \in Sources
      BY DEF Client, Sources
    <2>2. n \in Client /\ Explains(n)
      BY <2>1, OneMoreChange
    <2>3. m \in Client /\ m.value = a.value
      BY <2>1, NotedFits
    <2>4. n = [firm |-> m.firm, value |-> a.value, source |-> "manual", history |-> m.history]
      BY <2>1, <2>3, SetBoth
    <2>5. [m EXCEPT !.source = "manual"]
            = [firm |-> m.firm, value |-> m.value, source |-> "manual", history |-> m.history]
      BY <2>1, <2>3, SetSource
    <2>6. Recorded(b, a) = [m EXCEPT !.source = "manual"]
      BY <1>2 DEF Recorded
    <2> HIDE DEF m, n
    <2> QED BY <2>2, <2>3, <2>4, <2>5, <2>6
  <1> QED BY <1>1, <1>2

LEMMA RecordedFits ==
  ASSUME NEW b \in Client, NEW a \in Client
  PROVE  Recorded(b, a) \in Client
  <1> DEFINE m == Noted(a, a.value, b.value, "manual")
  <1>1. m \in Client /\ "manual" \in Sources
    BY NotedFits DEF Client, Sources
  <1>2. [m EXCEPT !.source = "manual"] \in Client
    <2>1. [m EXCEPT !.source = "manual"]
            = [firm |-> m.firm, value |-> m.value, source |-> "manual", history |-> m.history]
      BY <1>1, SetSource
    <2> HIDE DEF m
    <2> QED BY <1>1, <2>1 DEF Client
  <1> QED BY <1>1, <1>2 DEF Recorded

LEMMA SaveChanges ==
  ASSUME Inv, NEW s \in Screens, Save(s)
  PROVE  Changes(s)
  <1> DEFINE o == screen[s]
             l == o.shown.clients
             r == o.draft
             d == [c \in DOMAIN r |-> IF c \in DOMAIN l THEN Recorded(l[c], r[c]) ELSE r[c]]
             b == [clients |-> d, edges |-> o.shown.edges]
  <1>1. o # NULL /\ PageGood(o) /\ IsPage(o) /\ Quiet(s)
    BY PageIsGood DEF Save, Shows, Inv, PageGood
  <1>2. IsDirectory(l) /\ IsDirectory(r) /\ o.shown.edges \in SUBSET Edges
    BY <1>1, PageParts, MasterParts
  <1>3. \A c \in DOMAIN r : d[c] \in Client
    BY <1>2, DirectoryValue, RecordedFits
  <1>4. IsDirectory(d)
    BY <1>2, <1>3 DEF IsDirectory
  <1>5. ~stale => Told(d)
    <2> SUFFICES ASSUME ~stale, NEW c \in DOMAIN r PROVE Explains(d[c])
      BY DEF Told
    <2>1. r[c] \in Client
      BY <1>2, DirectoryValue
    <2>2. CASE c \in DOMAIN l
      <3>1. l[c] \in Client /\ Explains(l[c])
        BY <1>1, <1>2, <2>2, DirectoryValue DEF PageGood, PageTold, Told
      <3>2. r[c].history # <<>> => r[c].history = l[c].history /\ r[c].source = l[c].source
        BY <1>1 DEF PageGood, Loyal
      <3> QED BY <2>1, <2>2, <3>1, <3>2, RecordedExplains
    <2>3. CASE c \notin DOMAIN l
      <3>1. r[c].history = <<>>
        BY <1>1, <2>3 DEF PageGood, Loyal
      <3> QED BY <2>3, <3>1, NothingToExplain
    <2> QED BY <2>2, <2>3
  <1>6. screen' = [screen EXCEPT ![s] = [o EXCEPT !.put = b]]
        /\ UNCHANGED <<serverSide, deeds>>
    BY DEF Save, Send
  <1>7. UNCHANGED serverSide /\ deeds' \in 0..MaxDeeds
    BY <1>6 DEF Inv, TypeOK
  <1> HIDE DEF d
  <1>8. IsMaster(b) /\ b.clients = d
    BY <1>2, <1>4, MakeMaster
  <1> HIDE DEF b
  <1> QED BY <1>1, <1>5, <1>6, <1>7, <1>8, PutChanges

LEMMA RelateChanges ==
  ASSUME Inv, NEW s \in Screens, NEW e \in Edges, Relate(s, e)
  PROVE  Changes(s)
  <1> DEFINE o == screen[s]
             v == View(Loaded, o.firm)
             E == IF e \in o.shown.edges THEN o.shown.edges \ {e} ELSE o.shown.edges \cup {e}
             b == [clients |-> v.clients, edges |-> E]
  <1>1. o # NULL /\ IsPage(o) /\ Quiet(s)
    BY PageIsGood DEF Relate, Shows, Inv, PageGood
  <1>2. IsMaster(v) /\ (~stale => Told(v.clients))
    BY <1>1, PageParts, LoadedFits, ViewFits DEF Inv
  <1>3. IsDirectory(v.clients) /\ E \in SUBSET Edges
    BY <1>1, <1>2, PageParts, MasterParts
  <1>4. screen' = [screen EXCEPT ![s] = [o EXCEPT !.put = b]]
    BY DEF Relate, Send
  <1>5. UNCHANGED serverSide /\ deeds' \in 0..MaxDeeds
    BY DeedCounts DEF Relate, Inv
  <1> HIDE DEF v, E
  <1>6. IsMaster(b) /\ b.clients = v.clients
    BY <1>3, MakeMaster
  <1> HIDE DEF b
  <1> QED BY <1>1, <1>2, <1>4, <1>5, <1>6, PutChanges

LEMMA SendAloneChanges ==
  ASSUME Inv, NEW s \in Screens, NEW page \in Pages, NEW f \in Firms,
         NEW b, IsMaster(b), ~stale => Told(b.clients), SendAlone(s, page, f, b)
  PROVE  Changes(s)
  <1> DEFINE p == [page |-> page, firm |-> f, shown |-> View(Loaded, f),
                   draft |-> View(Loaded, f).clients, put |-> b]
  <1>1. PageGood(p)
    BY FreshPage DEF Inv
  <1>2. screen' = [screen EXCEPT ![s] = p] /\ UNCHANGED serverSide
    BY DEF SendAlone
  <1>3. ~Served(s)
    BY ServedWhileBusy DEF SendAlone
  <1>4. deeds' \in 0..MaxDeeds
    BY DeedCounts DEF SendAlone, Inv
  <1> HIDE DEF p
  <1> QED BY <1>1, <1>2, <1>3, <1>4 DEF Changes

LEMMA UpdatedFits ==
  ASSUME NEW c \in Client, NEW v \in Values
  PROVE  Updated(c, v) \in Client /\ (Explains(c) => Explains(Updated(c, v)))
  <1>1. c.value \in Values
    BY DEF Client
  <1> QED BY <1>1, OneMoreChange DEF Updated

LEMMA PatchFieldChanges ==
  ASSUME Inv, NEW s \in Screens, NEW f \in Firms, NEW c \in Ids, NEW value \in Typed,
         PatchField(s, f, c, value)
  PROVE  Changes(s)
  <1> DEFINE v == View(Loaded, f)
             x == Updated(v.clients[c], value)
             d == [v.clients EXCEPT ![c] = x]
             b == [v EXCEPT !.clients = d]
  <1>1. IsMaster(v) /\ (~stale => Told(v.clients)) /\ value \in Values /\ c \in DOMAIN v.clients
    BY LoadedFits, ViewFits, FirmsAssumption DEF Inv, PatchField
  <1>2. IsDirectory(v.clients) /\ v.edges \in SUBSET Edges
        /\ v = [clients |-> v.clients, edges |-> v.edges]
    BY <1>1, MasterParts
  <1>3. x \in Client /\ (Explains(v.clients[c]) => Explains(x))
    BY <1>1, <1>2, DirectoryValue, UpdatedFits
  <1>4. SendAlone(s, "data", f, b)
    BY DEF PatchField
  <1> HIDE DEF x, v
  <1>5. IsDirectory(d) /\ (Told(v.clients) /\ Explains(x) => Told(d))
    BY <1>1, <1>2, <1>3, ReplaceFits
  <1>6. ~stale => Told(d)
    BY <1>1, <1>3, <1>5 DEF Told
  <1> HIDE DEF d
  <1>7. b = [clients |-> d, edges |-> v.edges]
    BY <1>2
  <1>8. IsMaster(b) /\ b.clients = d
    BY <1>2, <1>5, <1>7, MakeMaster
  <1> HIDE DEF b
  <1> QED BY <1>4, <1>6, <1>8, SendAloneChanges DEF Pages

LEMMA UpdateTagsChanges ==
  ASSUME Inv, NEW s \in Screens, NEW f \in Firms, NEW c \in Ids, UpdateTags(s, f, c)
  PROVE  Changes(s)
  <1> DEFINE v == View(Loaded, f)
             d == Restrict(v.clients, {c})
             b == [clients |-> d, edges |-> {}]
  <1>1. IsMaster(v) /\ (~stale => Told(v.clients)) /\ c \in DOMAIN v.clients
    BY LoadedFits, ViewFits DEF Inv, UpdateTags
  <1>2. SendAlone(s, "mcp", f, b)
    BY DEF UpdateTags
  <1>3. IsDirectory(d) /\ (Told(v.clients) => Told(d))
    BY <1>1, MasterParts, RestrictFits
  <1> HIDE DEF d
  <1>4. IsMaster(b) /\ b.clients = d
    <2>1. {} \in SUBSET Edges
      OBVIOUS
    <2> QED BY <2>1, <1>3, MakeMaster
  <1> HIDE DEF b
  <1> QED BY <1>1, <1>2, <1>3, <1>4, SendAloneChanges DEF Pages

\* What is left of a page whose request has ended
LEMMA UnansweredFits ==
  ASSUME NEW p, PageGood(p)
  PROVE  Unanswered(p) # NULL => PageGood(Unanswered(p))
  <1> DEFINE q == [p EXCEPT !.put = NULL]
  <1>1. q = [page |-> p.page, firm |-> p.firm, shown |-> p.shown, draft |-> p.draft, put |-> NULL]
    BY PageSet DEF PageGood
  <1>2. IsPage(q)
    BY <1>1, PageParts, MakePage DEF PageGood
  <1>3. q.shown = p.shown /\ q.draft = p.draft /\ q.put = NULL
    BY <1>1
  <1> HIDE DEF q
  <1>4. PageGood(q)
    BY <1>2, <1>3 DEF PageGood, PageTold, Loyal
  <1> QED BY <1>4 DEF Unanswered, q

LEMMA PutFailsChanges ==
  ASSUME Inv, NEW s \in Screens, PutFails(s)
  PROVE  Changes(s)
  <1>1. PageGood(screen[s]) /\ ~Served(s)
    BY PageIsGood DEF PutFails, Inv
  <1>2. screen' = [screen EXCEPT ![s] = Unanswered(screen[s])] /\ UNCHANGED <<serverSide, deeds>>
    BY DEF PutFails
  <1>3. UNCHANGED serverSide /\ deeds' \in 0..MaxDeeds
    BY <1>2 DEF Inv, TypeOK
  <1> QED BY <1>1, <1>2, <1>3, UnansweredFits DEF Changes


-----------------------------------------------------------------------------
(* The steps of the pages *)

\* The server has stayed as it was, and every page that is served too
LEMMA PageKeeps ==
  ASSUME Inv, NEW s \in Screens, Changes(s)
  PROVE  Inv'
  <1>1. PICK p :
          /\ screen' = [screen EXCEPT ![s] = p]
          /\ p # NULL => PageGood(p)
          /\ Served(s) => PageGood(p) /\ p.put # NULL /\ p.firm = screen[s].firm
    BY DEF Changes
  <1>2. /\ file' = file /\ job' = job /\ transfers' = transfers /\ crashes' = crashes
        /\ known' = known /\ origin' = origin /\ interrupted' = interrupted
        /\ stale' = stale /\ spoilt' = spoilt /\ deeds' \in 0..MaxDeeds
    BY DEF Changes, serverSide
  <1>3. /\ screen' = [r \in Screens |-> screen'[r]]
        /\ screen'[s] = p /\ \A r \in Screens \ {s} : screen'[r] = screen[r]
    BY <1>1 DEF Inv, TypeOK
  <1>4. TypeOK'
    <2>1. \A r \in Screens : screen'[r] # NULL => IsPage(screen'[r])
      BY <1>1, <1>3 DEF Inv, TypeOK, PageGood
    <2> QED BY <1>2, <1>3, <2>1 DEF Inv, TypeOK
  <1>5. \A r \in Screens : Served(r)' <=> Served(r)
    BY <1>2 DEF Served, Serves
  <1>6. JobsFit'
    <2>1. \A r \in Screens : Served(r) => PageGood(screen'[r]) /\ screen'[r].put # NULL
      BY <1>1, <1>3 DEF Inv, JobsFit
    <2> QED BY <1>2, <1>5, <2>1 DEF Inv, JobsFit, PageGood
  <1>7. FileKept'
    BY <1>2 DEF Inv, FileKept, Keeps
  <1>8. OthersUntouched'
    <2> SUFFICES ASSUME ~spoilt, Serves("put"), job[Loop].phase = "open", job[Loop].fresh
                 PROVE  \A f \in Firms \ {screen'[job[Loop].task.screen].firm} :
                            View(job[Loop].copy, f) = View(file, f)
      BY <1>2 DEF OthersUntouched, Serves
    <2>1. \A f \in Firms \ {screen[job[Loop].task.screen].firm} :
              View(job[Loop].copy, f) = View(file, f)
      BY DEF Inv, OthersUntouched
    <2>2. PICK r : r = job[Loop].task.screen
      OBVIOUS
    <2>3. r \in Screens /\ Served(r)
      <3>1. job[Loop].phase = "open" => job[Loop].task \in Task
        BY DEF Inv, JobsFit, Writers
      <3> QED BY <2>2, <3>1 DEF Task, Served, Serves
    <2>4. screen'[r].firm = screen[r].firm
      BY <1>1, <1>3, <2>3
    <2> QED BY <2>1, <2>2, <2>4
  <1>9. HistoryKept'
    <2>1. \A r \in Screens : screen'[r] # NULL =>
             Loyal(screen'[r]) /\ (~stale => PageTold(screen'[r]))
      BY <1>1, <1>3 DEF Inv, HistoryKept, PageGood
    <2> QED BY <1>2, <2>1 DEF Inv, HistoryKept
  <1>10. CodeHeld'
    BY <1>2 DEF Inv, CodeHeld, Serves, Pending, ClaimsAccounted, Settling
  <1> QED BY <1>4, <1>6, <1>7, <1>8, <1>9, <1>10 DEF Inv

-----------------------------------------------------------------------------
(* The steps of the server *)

LEMMA IdleFits ==
  IsJob(Idle) /\ Idle.phase = "idle"
  BY DEF IsJob, Idle

LEMMA JobSet ==
  ASSUME TypeOK, NEW w \in Writers, NEW j, job' = [job EXCEPT ![w] = j]
  PROVE  /\ job' = [x \in Writers |-> job'[x]]
         /\ job'[w] = j /\ \A x \in Writers \ {w} : job'[x] = job[x]
         /\ IsJob(j) => \A x \in Writers : IsJob(job'[x])
  BY DEF TypeOK

\* The claims are where they were
LEMMA CodeStays ==
  ASSUME Inv, UNCHANGED <<transfers, origin, interrupted>>,
         DOMAIN known \subseteq DOMAIN known',
         \/ job'[Loop] = job[Loop]
         \/ ~Serves("claim") /\ ~Serves("claim")'
  PROVE  CodeHeld'
  <1>1. CASE job'[Loop] = job[Loop]
    BY <1>1 DEF Inv, CodeHeld, Serves, Pending, ClaimsAccounted, Settling
  <1>2. CASE ~Serves("claim") /\ ~Serves("claim")'
    BY <1>2 DEF Inv, CodeHeld, ClaimsAccounted, Settling
  <1> QED BY <1>1, <1>2

\* What a step that begins to read or to write has to do
LEMMA StartKeeps ==
  ASSUME Inv, NEW w \in Writers, NEW phase \in {"read", "open"}, NEW task \in Task, NEW copy,
         Begin(w, phase, task, copy),
         job[w] = Idle \/ job[w].phase = "read",
         phase = "open" => /\ IsMaster(copy)
                           /\ ~spoilt /\ file # NULL => Keeps(copy)
                           /\ ~stale' => Told(copy.clients),
         phase = "read" => task.kind = "learn" /\ Admits(task.seen, task.value, task.source),
         w # Loop => task.kind = "learn",
         task.kind = "put" =>
            screen[task.screen] # NULL /\ screen[task.screen].put # NULL,
         UNCHANGED <<file, screen, transfers, crashes, known, origin, interrupted, spoilt>>,
         deeds' \in 0..MaxDeeds, stale' \in BOOLEAN, stale => stale'
  PROVE  TypeOK' /\ JobsFit' /\ FileKept' /\ HistoryKept'
  <1> DEFINE j == [phase |-> phase, task |-> task, copy |-> copy,
                   fresh |-> file # NULL, mixed |-> FALSE]
  <1>1. IsJob(j)
    BY DEF IsJob
  <1>2. j.phase = phase /\ j.task = task /\ j.copy = copy /\ j.fresh = (file # NULL)
        /\ j.mixed = FALSE
    OBVIOUS
  <1>3. job' = [job EXCEPT ![w] = j]
    BY DEF Begin
  <1> HIDE DEF j
  <1>4. /\ job' = [x \in Writers |-> job'[x]]
        /\ job'[w] = j /\ \A x \in Writers \ {w} : job'[x] = job[x]
        /\ \A x \in Writers : IsJob(job'[x])
    BY <1>1, <1>3, JobSet DEF Inv
  <1>5. TypeOK'
    BY <1>4 DEF Inv, TypeOK
  <1>6. JobsFit'
    <2>1. \A x \in Writers :
            /\ job'[x].phase = "idle" => job'[x] = Idle
            /\ job'[x].phase # "idle" => job'[x].task \in Task
            /\ job'[x].phase = "read" => job'[x].task.kind = "learn"
            /\ job'[x].phase = "settle" => job'[x].task.kind = "claim"
            /\ job'[x].phase # "idle" /\ x # Loop => job'[x].task.kind = "learn"
      BY <1>2, <1>4 DEF Inv, JobsFit
    <2>2. ASSUME NEW s \in Screens, Served(s)' PROVE PageGood(screen[s]) /\ screen[s].put # NULL
      <3>1. CASE w = Loop
        BY <1>2, <1>4, <2>2, <3>1 DEF Served, Serves, Inv, TypeOK, HistoryKept, PageGood
      <3>2. CASE w # Loop
        <4>1. job'[Loop] = job[Loop]
          BY <1>4, <3>2 DEF Writers
        <4> QED BY <4>1, <2>2 DEF Served, Serves, Inv, JobsFit
      <3> QED BY <3>1, <3>2
    <2>3. \A p : PageGood(p) => PageGood(p)'
      BY DEF PageGood
    <2> QED BY <2>1, <2>2, <2>3 DEF JobsFit
  <1>7. FileKept'
    <2> SUFFICES ASSUME ~spoilt PROVE FileKept'
      BY DEF FileKept
    <2>1. \A m : Keeps(m)' <=> Keeps(m)
      BY DEF Keeps
    <2>2. file # NULL => Keeps(file)
      BY DEF Inv, FileKept
    <2>3. \A x \in Writers : job'[x].phase = "open" /\ job'[x].fresh =>
             file # NULL /\ Keeps(job'[x].copy)
      BY <1>2, <1>4, <2>2 DEF Inv, FileKept
    <2>4. \A x \in Writers : job'[x].phase = "write" => x # w /\ job'[x] = job[x]
      BY <1>2, <1>4
    <2>5. \A x \in Writers : job'[x].phase = "write" =>
             /\ file = NULL /\ ~job'[x].mixed /\ Keeps(job'[x].copy)
             /\ \A y \in Writers \ {x} : job'[y].phase # "write"
      BY <2>4 DEF Inv, FileKept
    <2> QED BY <2>1, <2>2, <2>3, <2>5 DEF FileKept
  <1>8. HistoryKept'
    <2>1. \A x \in Writers : job'[x].phase = "read" =>
             Admits(job'[x].task.seen, job'[x].task.value, job'[x].task.source)
      BY <1>2, <1>4 DEF Inv, HistoryKept
    <2>2. ~stale' => \A x \in Writers : job'[x].phase \in {"open", "write"} =>
                        Told(job'[x].copy.clients)
      BY <1>2, <1>4 DEF Inv, HistoryKept
    <2> QED BY <2>1, <2>2 DEF Inv, HistoryKept
  <1> QED BY <1>5, <1>6, <1>7, <1>8

LEMMA PutArrivesKeeps ==
  ASSUME Inv, NEW s \in Screens, PutArrives(s)
  PROVE  Inv'
  <1> DEFINE o == screen[s]
             m == Merged(Loaded, o.firm, o.put)
             task == [kind |-> "put", screen |-> s]
  <1>1. o # NULL /\ o.put # NULL /\ PageGood(o)
    BY PageIsGood DEF PutArrives, Quiet, Inv
  <1>2. o.firm \in Firms /\ IsMaster(o.put) /\ (~stale => Told(o.put.clients))
    BY <1>1, PageParts DEF PageGood, PageTold
  <1>3. /\ LoopFree /\ Accepted(Loaded, o.firm, o.put) /\ Begin(Loop, "open", task, m)
        /\ UNCHANGED <<file, screen, transfers, deeds, crashes,
                       known, origin, interrupted, stale, spoilt>>
    BY DEF PutArrives
  <1>4. IsMaster(Loaded) /\ (~stale => Told(Loaded.clients))
    BY LoadedFits DEF Inv
  <1>5. IsMaster(m) /\ (~stale => Told(m.clients))
    BY <1>2, <1>4, MergedFits
  <1>6. ~spoilt /\ file # NULL => Keeps(m)
    <2>1. ~spoilt /\ file # NULL => Keeps(Loaded)
      BY DEF Loaded, Inv, FileKept
    <2> QED BY <2>1, <1>2, <1>3, <1>4, MergedKeeps
  <1>7. task \in Task /\ task.kind = "put" /\ task.screen = s /\ Loop \in Writers
    BY DEF Task, Writers
  <1>8. file # NULL => \A g \in Firms \ {o.firm} : View(m, g) = View(file, g)
    BY <1>2, <1>3, <1>4, MergedOthers DEF Loaded
  <1>9. job'[Loop] = [phase |-> "open", task |-> task, copy |-> m,
                      fresh |-> file # NULL, mixed |-> FALSE]
    BY <1>3, <1>7 DEF Begin, Inv, TypeOK
  <1> HIDE DEF m, task
  <1>10. TypeOK' /\ JobsFit' /\ FileKept' /\ HistoryKept'
    <2>1. deeds' \in 0..MaxDeeds /\ stale' \in BOOLEAN /\ (stale => stale') /\ (~stale' => Told(m.clients))
      BY <1>3, <1>5 DEF Inv, TypeOK
    <2>2. job[Loop] = Idle
      BY <1>3 DEF LoopFree
    <2>3. UNCHANGED <<file, screen, transfers, crashes, known, origin, interrupted, spoilt>>
      BY <1>3
    <2> QED BY <1>1, <1>3, <1>5, <1>6, <1>7, <2>1, <2>2, <2>3, StartKeeps
  <1>11. OthersUntouched'
    <2>1. job'[Loop].task = task /\ job'[Loop].copy = m /\ job'[Loop].fresh = (file # NULL)
      BY <1>9
    <2> QED BY <1>3, <1>7, <1>8, <2>1 DEF OthersUntouched
  <1>12. CodeHeld'
    <2>1. ~Serves("claim") /\ ~Serves("claim")'
      BY <1>3, <1>7, <1>9 DEF Serves, LoopFree
    <2> QED BY <2>1, <1>3, CodeStays
  <1> QED BY <1>10, <1>11, <1>12 DEF Inv

\* No request is about to be written but the one that was
LEMMA OthersStay ==
  ASSUME Inv,
         \/ job'[Loop] = job[Loop] /\ UNCHANGED <<file, screen, spoilt>>
         \/ ~Serves("put")'
         \/ job'[Loop].phase # "open"
         \/ ~job'[Loop].fresh
  PROVE  OthersUntouched'
  <1>1. CASE job'[Loop] = job[Loop] /\ UNCHANGED <<file, screen, spoilt>>
    BY <1>1 DEF Inv, OthersUntouched, Serves
  <1>2. CASE ~Serves("put")' \/ job'[Loop].phase # "open" \/ ~job'[Loop].fresh
    BY <1>2 DEF OthersUntouched
  <1> QED BY <1>1, <1>2

LEMMA LearnChecksKeeps ==
  ASSUME Inv, NEW w \in Writers, NEW c \in Ids, NEW v \in Read,
         NEW source \in {"manual", "ocr"}, LearnChecks(w, c, v, source)
  PROVE  Inv'
  <1> DEFINE task == [kind |-> "learn", client |-> c, value |-> v, source |-> source,
                      seen |-> file.clients[c]]
  <1>1. /\ job[w] = Idle /\ file # NULL /\ c \in DOMAIN file.clients
        /\ Admits(file.clients[c], v, source) /\ Begin(w, "read", task, NULL)
        /\ UNCHANGED <<file, screen, transfers, crashes,
                       known, origin, interrupted, stale, spoilt>>
    BY DEF LearnChecks
  <1>2. file.clients[c] \in Client
    BY <1>1, MasterParts, DirectoryValue DEF Inv, TypeOK
  <1>3. task \in Task /\ task.kind = "learn" /\ task.seen = file.clients[c]
        /\ task.value = v /\ task.source = source
    BY <1>2 DEF Task
  <1>4. deeds' \in 0..MaxDeeds
    BY DeedCounts DEF LearnChecks, Inv
  <1>5. job'[w] = [phase |-> "read", task |-> task, copy |-> NULL,
                   fresh |-> file # NULL, mixed |-> FALSE]
        /\ \A x \in Writers \ {w} : job'[x] = job[x]
    BY <1>1 DEF Begin, Inv, TypeOK
  <1> HIDE DEF task
  <1>6. TypeOK' /\ JobsFit' /\ FileKept' /\ HistoryKept'
    <2>1. stale' \in BOOLEAN /\ (stale => stale')
      BY <1>1 DEF Inv, TypeOK
    <2>2. UNCHANGED <<file, screen, transfers, crashes, known, origin, interrupted, spoilt>>
      BY <1>1
    <2> QED BY <1>1, <1>3, <1>4, <2>1, <2>2, StartKeeps
  <1>7. \/ job'[Loop] = job[Loop]
        \/ /\ job[Loop] = Idle /\ job'[Loop].phase = "read" /\ job'[Loop].task.kind = "learn"
    BY <1>1, <1>3, <1>5 DEF Writers
  <1>8. OthersUntouched'
    BY <1>1, <1>7, OthersStay
  <1>9. CodeHeld'
    <2>1. \/ job'[Loop] = job[Loop]
          \/ ~Serves("claim") /\ ~Serves("claim")'
      BY <1>7 DEF Serves
    <2> QED BY <1>1, <2>1, CodeStays
  <1> QED BY <1>6, <1>8, <1>9 DEF Inv

Grown(c, v, p, s) == [Noted(c, v, p, s) EXCEPT !.value = v, !.source = s]

LEMMA GrownFits ==
  ASSUME NEW c \in Client, NEW v \in Values, NEW p \in Values, NEW s \in {"manual", "ocr"}
  PROVE  /\ Grown(c, v, p, s) \in Client
         /\ Grown(c, v, p, s).firm = c.firm
         /\ Explains(c) /\ p = c.value /\ (s = "ocr" /\ c.source = "manual" => c.value = "")
              => Explains(Grown(c, v, p, s))
  <1> DEFINE m == Noted(c, v, p, s)
             n == [m EXCEPT !.value = v, !.source = s]
             r == [firm |-> m.firm, value |-> v, source |-> s, history |-> m.history]
  <1>1. (\/ c.history = <<>>
         \/ /\ c.history = c.history /\ Explains(c) /\ p = c.value
            /\ s = "ocr" /\ c.source = "manual" => c.value = "") => Explains(n)
    BY OneMoreChange
  <1>2. m \in Client /\ m.firm = c.firm /\ s \in Sources
    BY NotedFits DEF Sources
  <1>3. n = Grown(c, v, p, s)
    BY DEF Grown
  <1> HIDE DEF m
  <1>4. n = r
    BY <1>2, SetBoth
  <1>5. r \in Client /\ r.firm = c.firm
    BY <1>2 DEF Client
  <1> HIDE DEF n, r
  <1> QED BY <1>1, <1>3, <1>4, <1>5

\* What a document has taught explains itself, if nobody has changed the
\* field since it was looked at
LEMMA LearnedFits ==
  ASSUME NEW c \in Client, NEW t \in Task, t.kind = "learn"
  PROVE  /\ Learned(c, t) \in Client /\ Learned(c, t).firm = c.firm
         /\ Explains(c) /\ Admits(t.seen, t.value, t.source)
              /\ c.value = t.seen.value /\ c.source = t.seen.source => Explains(Learned(c, t))
  <1>1. /\ t.value \in Values /\ t.source \in {"manual", "ocr"} /\ t.seen \in Client
        /\ t.seen.value \in Values
    BY FirmsAssumption DEF Task, Client
  <1>2. Learned(c, t) = Grown(c, t.value, t.seen.value, t.source)
    BY DEF Learned, Grown
  <1> DEFINE v == t.value
             p == t.seen.value
             s == t.source
  <1>3. v \in Values /\ p \in Values /\ s \in {"manual", "ocr"}
    BY <1>1
  <1> HIDE DEF v, p, s
  <1>4. /\ Grown(c, v, p, s) \in Client /\ Grown(c, v, p, s).firm = c.firm
        /\ Explains(c) /\ p = c.value /\ (s = "ocr" /\ c.source = "manual" => c.value = "")
              => Explains(Grown(c, v, p, s))
    BY <1>3, GrownFits
  <1>5. Admits(t.seen, t.value, t.source) /\ c.value = t.seen.value /\ c.source = t.seen.source
          => p = c.value /\ (s = "ocr" /\ c.source = "manual" => c.value = "")
    BY DEF Admits, p, s
  <1>6. Learned(c, t) = Grown(c, v, p, s)
    BY <1>2 DEF v, p, s
  <1> QED BY <1>4, <1>5, <1>6

LEMMA LearnReadsKeeps ==
  ASSUME Inv, NEW w \in Writers, LearnReads(w)
  PROVE  Inv'
  <1> DEFINE t == job[w].task
  <1>0. Loop \in Writers
    BY DEF Writers
  <1>1. job[w].phase = "read" /\ t \in Task /\ t.kind = "learn"
        /\ Admits(t.seen, t.value, t.source)
    BY DEF LearnReads, Inv, JobsFit, HistoryKept
  <1>2. UNCHANGED <<file, screen, transfers, deeds, crashes, known, origin, interrupted, spoilt>>
    BY DEF LearnReads
  <1>5. w = Loop => ~Serves("claim")
    BY <1>1 DEF Serves
  <1>3. CASE file = NULL \/ (file # NULL /\ t.client \notin DOMAIN file.clients)
    <2>1. job' = [job EXCEPT ![w] = Idle] /\ stale' = stale
      BY <1>3 DEF LearnReads
    <2>2. /\ job' = [x \in Writers |-> job'[x]]
          /\ job'[w] = Idle /\ \A x \in Writers \ {w} : job'[x] = job[x]
          /\ \A x \in Writers : IsJob(job'[x])
      BY <2>1, IdleFits, JobSet DEF Inv
    <2>3. TypeOK'
      BY <1>2, <2>1, <2>2 DEF Inv, TypeOK
    <2>4. job'[Loop] = job[Loop] \/ (w = Loop /\ job'[Loop] = Idle)
      BY <2>2, <1>0
    <2>5. JobsFit'
      <3>1. \A x \in Writers :
              /\ job'[x].phase = "idle" => job'[x] = Idle
              /\ job'[x].phase # "idle" => job'[x].task \in Task
              /\ job'[x].phase = "read" => job'[x].task.kind = "learn"
              /\ job'[x].phase = "settle" => job'[x].task.kind = "claim"
              /\ job'[x].phase # "idle" /\ x # Loop => job'[x].task.kind = "learn"
        BY <2>2, IdleFits DEF Inv, JobsFit
      <3>2. \A s \in Screens : Served(s)' => Served(s)
        BY <2>4 DEF Served, Serves
      <3> QED BY <1>2, <2>1, <3>1, <3>2 DEF Inv, JobsFit, PageGood
    <2>6. FileKept'
      BY <1>2, <2>2, IdleFits DEF Inv, FileKept, Keeps
    <2>7. HistoryKept'
      BY <1>2, <2>1, <2>2, IdleFits DEF Inv, HistoryKept
    <2>8. OthersUntouched'
      BY <1>2, <2>4, OthersStay, IdleFits
    <2>9. CodeHeld'
      <3>1. job'[Loop] = job[Loop] \/ (~Serves("claim") /\ ~Serves("claim")')
        BY <1>5, <2>4 DEF Serves
      <3> QED BY <1>2, <3>1, CodeStays
    <2> QED BY <2>3, <2>5, <2>6, <2>7, <2>8, <2>9 DEF Inv
  <1>4. CASE file # NULL /\ t.client \in DOMAIN file.clients
    <2> DEFINE now == file.clients[t.client]
               x == Learned(now, t)
               d == [file.clients EXCEPT ![t.client] = x]
               m == [file EXCEPT !.clients = d]
    <2>1. Begin(w, "open", t, m)
          /\ stale' = (stale \/ now.value # t.seen.value \/ now.source # t.seen.source)
      BY <1>4 DEF LearnReads
    <2>2. IsDirectory(file.clients) /\ file.edges \in SUBSET Edges
          /\ file = [clients |-> file.clients, edges |-> file.edges]
      BY <1>4, MasterParts DEF Inv, TypeOK
    <2>3. now \in Client
      BY <1>4, <2>2, DirectoryValue
    <2>4. /\ x \in Client /\ x.firm = now.firm
          /\ Explains(now) /\ now.value = t.seen.value /\ now.source = t.seen.source
                => Explains(x)
      BY <1>1, <2>3, LearnedFits
    <2> HIDE DEF x
    <2>5. /\ IsDirectory(d) /\ DOMAIN d = DOMAIN file.clients /\ d[t.client] = x
          /\ \A b \in DOMAIN file.clients \ {t.client} : d[b] = file.clients[b]
          /\ Told(file.clients) /\ Explains(x) => Told(d)
      BY <1>4, <2>2, <2>4, ReplaceFits
    <2> HIDE DEF d
    <2>6. m = [clients |-> d, edges |-> file.edges]
      BY <2>2
    <2>7. IsMaster(m) /\ m.clients = d
      BY <2>2, <2>5, <2>6, MakeMaster
    <2> HIDE DEF m
    <2>8. ~spoilt => Keeps(m)
      <3>1. ~spoilt => Keeps(file)
        BY <1>4 DEF Inv, FileKept
      <3> QED BY <3>1, <2>4, <2>5, <2>7 DEF Keeps
    <2>9. ~stale' => Told(m.clients)
      <3>1. ~stale => Told(file.clients)
        BY <1>4 DEF Inv, HistoryKept
      <3> QED BY <1>4, <3>1, <2>1, <2>4, <2>5, <2>7 DEF Told
    <2>10. stale' \in BOOLEAN /\ (stale => stale') /\ deeds' \in 0..MaxDeeds
      BY <1>2, <2>1 DEF Inv, TypeOK
    <2>11. TypeOK' /\ JobsFit' /\ FileKept' /\ HistoryKept'
      <3>1. UNCHANGED <<file, screen, transfers, crashes, known, origin, interrupted, spoilt>>
        BY <1>2
      <3> HIDE DEF t
      <3> QED BY <1>1, <2>1, <2>7, <2>8, <2>9, <2>10, <3>1, StartKeeps
    <2>12. \/ job'[Loop] = job[Loop]
           \/ w = Loop /\ job'[Loop].task = t
      BY <1>0, <2>1 DEF Begin, Inv, TypeOK
    <2>13. OthersUntouched'
      <3>1. job'[Loop] = job[Loop] \/ ~Serves("put")'
        BY <1>1, <2>12 DEF Serves
      <3> QED BY <1>2, <3>1, OthersStay
    <2>14. CodeHeld'
      <3>1. job'[Loop] = job[Loop] \/ (~Serves("claim") /\ ~Serves("claim")')
        BY <1>1, <1>5, <2>12 DEF Serves
      <3> QED BY <1>2, <3>1, CodeStays
    <2> QED BY <2>11, <2>13, <2>14 DEF Inv
  <1> QED BY <1>3, <1>4

\* The file is cut: no other writer's copy counts as fresh any longer
LEMMA OpenFileKeeps ==
  ASSUME Inv, NEW w \in Writers, OpenFile(w)
  PROVE  Inv'
  <1> DEFINE writing == {x \in Writers : job[x].phase = "write"}
  <1>0. Loop \in Writers
    BY DEF Writers
  <1>1. /\ job[w].phase = "open" /\ file' = NULL
        /\ spoilt' = (spoilt \/ ~job[w].fresh)
        /\ UNCHANGED <<screen, transfers, deeds, crashes, known, origin, interrupted, stale>>
        /\ job' = [x \in Writers |->
                 IF x = w
                 THEN [job[w] EXCEPT !.phase = "write", !.mixed = writing # {}]
                 ELSE [job[x] EXCEPT !.fresh = (@ /\ job[x].phase # "open"),
                                     !.mixed = (@ \/ x \in writing)]]
    BY DEF OpenFile
  <1>2. /\ job[w].task \in Task /\ (w # Loop => job[w].task.kind = "learn")
        /\ IsMaster(job[w].copy)
    BY <1>1 DEF Inv, TypeOK, JobsFit, IsJob
  <1>3. ASSUME NEW x \in Writers, x # w
        PROVE  /\ IsJob(job'[x])
               /\ job'[x].phase = job[x].phase /\ job'[x].task = job[x].task
               /\ job'[x].copy = job[x].copy
               /\ job'[x].fresh = (job[x].fresh /\ job[x].phase # "open")
               /\ job'[x].mixed = (job[x].mixed \/ x \in writing)
               /\ job[x].phase = "idle" => job'[x] = Idle
    <2> DEFINE j == job[x]
               fresh == j.fresh /\ j.phase # "open"
               mixed == j.mixed \/ x \in writing
    <2>1. IsJob(j) /\ (j.phase = "idle" => j = Idle)
      BY DEF Inv, TypeOK, JobsFit
    <2>2. fresh \in BOOLEAN /\ mixed \in BOOLEAN
      BY <2>1 DEF IsJob
    <2>3. job'[x] = [j EXCEPT !.fresh = fresh, !.mixed = mixed]
      BY <1>1, <1>3
    <2> HIDE DEF fresh, mixed, j, writing
    <2>4. job'[x] = [phase |-> j.phase, task |-> j.task, copy |-> j.copy,
                     fresh |-> fresh, mixed |-> mixed]
      <3> DEFINE k == [j EXCEPT !.fresh = fresh]
      <3>1. k = [phase |-> j.phase, task |-> j.task, copy |-> j.copy,
                 fresh |-> fresh, mixed |-> j.mixed]
        BY <2>1 DEF IsJob
      <3>2. job'[x] = [k EXCEPT !.mixed = mixed]
        BY <2>3
      <3> HIDE DEF k
      <3> QED BY <3>1, <3>2
    <2>5. IsJob(job'[x]) /\ job'[x].phase = j.phase /\ job'[x].task = j.task
          /\ job'[x].copy = j.copy /\ job'[x].fresh = fresh /\ job'[x].mixed = mixed
      BY <2>1, <2>2, <2>4 DEF IsJob
    <2>6. j.phase = "idle" => job'[x] = Idle
      <3> SUFFICES ASSUME j.phase = "idle" PROVE job'[x] = Idle
        OBVIOUS
      <3>1. j = Idle
        BY <2>1
      <3>2. fresh = TRUE /\ mixed = FALSE
        BY <3>1 DEF fresh, mixed, writing, Idle, j
      <3> QED BY <2>4, <3>1, <3>2 DEF Idle
    <2> QED BY <2>5, <2>6 DEF fresh, mixed, j
  <1>4. /\ IsJob(job'[w])
        /\ job'[w].phase = "write" /\ job'[w].task = job[w].task
        /\ job'[w].copy = job[w].copy /\ job'[w].mixed = (writing # {})
    <2> DEFINE j == job[w]
               mixed == writing # {}
    <2>1. IsJob(j)
      BY DEF Inv, TypeOK
    <2>2. mixed \in BOOLEAN
      OBVIOUS
    <2>3. job'[w] = [j EXCEPT !.phase = "write", !.mixed = mixed]
      BY <1>1
    <2> HIDE DEF mixed, j, writing
    <2>4. job'[w] = [phase |-> "write", task |-> j.task, copy |-> j.copy,
                     fresh |-> j.fresh, mixed |-> mixed]
      <3> DEFINE k == [j EXCEPT !.phase = "write"]
      <3>1. k = [phase |-> "write", task |-> j.task, copy |-> j.copy,
                 fresh |-> j.fresh, mixed |-> j.mixed]
        BY <2>1 DEF IsJob
      <3>2. job'[w] = [k EXCEPT !.mixed = mixed]
        BY <2>3
      <3> HIDE DEF k
      <3> QED BY <3>1, <3>2
    <2>5. IsMaster(j.copy)
      BY <1>2 DEF j
    <2>6. IsJob(job'[w]) /\ job'[w].phase = "write" /\ job'[w].task = j.task
          /\ job'[w].copy = j.copy /\ job'[w].mixed = mixed
      BY <2>1, <2>2, <2>4, <2>5 DEF IsJob
    <2> QED BY <2>6 DEF mixed, j
  <1>5. job' = [x \in Writers |-> job'[x]] /\ \A x \in Writers : IsJob(job'[x])
    <2>1. job' = [x \in Writers |-> job'[x]]
      BY <1>1
    <2> QED BY <2>1, <1>3, <1>4
  <1>6. \A x \in Writers :
          /\ job'[x].task = job[x].task /\ job'[x].copy = job[x].copy
          /\ x # w => job'[x].phase = job[x].phase
          /\ job[x].phase = "idle" => job'[x] = Idle
    BY <1>1, <1>3, <1>4
  <1>7. TypeOK'
    BY <1>1, <1>5 DEF Inv, TypeOK
  <1>8. job[Loop] # Idle <=> job'[Loop] # Idle
    <2>1. CASE w = Loop
      BY <2>1, <1>1, <1>4, IdleFits
    <2>2. CASE w # Loop
      BY <2>2, <1>0, <1>3, IdleFits DEF Inv, JobsFit
    <2> QED BY <2>1, <2>2
  <1>9. \A kind : Serves(kind)' <=> Serves(kind)
    BY <1>0, <1>6, <1>8 DEF Serves
  <1>10. JobsFit'
    <2>1. \A x \in Writers :
            /\ job'[x].phase = "idle" => job'[x] = Idle
            /\ job'[x].phase # "idle" => job'[x].task \in Task
            /\ job'[x].phase = "read" => job'[x].task.kind = "learn"
            /\ job'[x].phase = "settle" => job'[x].task.kind = "claim"
            /\ job'[x].phase # "idle" /\ x # Loop => job'[x].task.kind = "learn"
      BY <1>2, <1>3, <1>4, <1>6 DEF Inv, JobsFit
    <2>2. \A s \in Screens : Served(s)' => Served(s)
      BY <1>0, <1>6, <1>9 DEF Served
    <2> QED BY <1>1, <2>1, <2>2 DEF Inv, JobsFit, PageGood
  <1>11. FileKept'
    <2> SUFFICES ASSUME ~spoilt, job[w].fresh PROVE FileKept'
      BY <1>1 DEF FileKept
    <2>1. file # NULL /\ Keeps(job[w].copy) /\ \A x \in Writers : job[x].phase # "write"
      BY <1>1 DEF Inv, FileKept
    <2>2. writing = {} /\ \A m : Keeps(m)' <=> Keeps(m)
      BY <1>1, <2>1 DEF Keeps
    <2>3. \A x \in Writers \ {w} : job'[x].phase # "write"
      BY <1>3, <2>1
    <2>4. \A x \in Writers : ~(job'[x].phase = "open" /\ job'[x].fresh)
      BY <1>3, <1>4
    <2>5. ~job'[w].mixed /\ Keeps(job'[w].copy)
      BY <1>4, <2>1, <2>2
    <2> HIDE DEF writing
    <2> QED BY <1>1, <2>2, <2>3, <2>4, <2>5 DEF FileKept
  <1>12. OthersUntouched'
    BY <1>0, <1>3, <1>4, OthersStay
  <1>13. HistoryKept'
    <2>1. \A x \in Writers : job'[x].phase = "read" =>
             Admits(job'[x].task.seen, job'[x].task.value, job'[x].task.source)
      BY <1>3, <1>4 DEF Inv, HistoryKept
    <2>2. ~stale => \A x \in Writers : job'[x].phase \in {"open", "write"} =>
                        Told(job'[x].copy.clients)
      BY <1>1, <1>3, <1>4 DEF Inv, HistoryKept
    <2> QED BY <1>1, <2>1, <2>2 DEF Inv, HistoryKept
  <1>14. CodeHeld'
    <2>1. job'[Loop].phase = "settle" <=> job[Loop].phase = "settle"
      BY <1>0, <1>1, <1>3, <1>4
    <2>2. job'[Loop].task = job[Loop].task
      BY <1>0, <1>6
    <2>3. Serves("claim")' <=> Serves("claim")
      BY <1>9
    <2>5. /\ job'[Loop].copy = job[Loop].copy
          /\ job'[Loop].phase \in {"open", "write"} => job[Loop].phase \in {"open", "write"}
          /\ known' = known
      BY <1>0, <1>1, <1>3, <1>4
    <2>4. transfers' = transfers /\ origin' = origin /\ interrupted' = interrupted
      BY <1>1
    <2>6. ClaimsAccounted' <=> ClaimsAccounted
      BY <2>1, <2>2, <2>3, <2>4 DEF ClaimsAccounted, Settling
    <2> QED BY <2>1, <2>2, <2>3, <2>4, <2>5, <2>6 DEF Inv, CodeHeld, Pending
  <1> QED BY <1>7, <1>10, <1>11, <1>12, <1>13, <1>14 DEF Inv

WellWritten ==
    /\ file # NULL => IsMaster(file)
    /\ DOMAIN known \subseteq Ids /\ known \in [DOMAIN known -> Firms]
    /\ ~stale /\ file # NULL => Told(file.clients)

\* The file becomes what the job held; nobody else had it cut, and no other
\* copy was fresh
LEMMA WriteKeeps ==
  ASSUME Inv, NEW w \in Writers, Written(w),
         job'[w].phase \in {"idle", "settle"}, \A x \in Writers \ {w} : job'[x] = job[x],
         UNCHANGED <<stale, spoilt>>
  PROVE  /\ FileKept' /\ OthersUntouched'
         /\ WellWritten' /\ DOMAIN known \subseteq DOMAIN known'
  <1> DEFINE m == job[w].copy
             D == DOMAIN known \cup DOMAIN m.clients
  <1>0. Loop \in Writers
    BY DEF Writers
  <1>1. /\ job[w].phase = "write"
        /\ file' = m \/ (job[w].mixed /\ file' = NULL)
        /\ known' = [c \in D |-> IF c \in DOMAIN known THEN known[c] ELSE m.clients[c].firm]
    BY DEF Written
  <1>2. IsMaster(m) /\ (~stale => Told(m.clients))
    BY <1>1 DEF Inv, TypeOK, IsJob, HistoryKept
  <1>3. IsDirectory(m.clients)
    BY <1>2, MasterParts
  <1>4. job'[w].phase \in {"idle", "settle"} /\ \A x \in Writers \ {w} : job'[x] = job[x]
    OBVIOUS
  <1>5. \A c \in DOMAIN m.clients : m.clients[c].firm \in Firms /\ c \in Ids
    BY <1>3, DirectoryValue, ClientFields
  <1>6. DOMAIN known' \subseteq Ids /\ known' \in [DOMAIN known' -> Firms]
    <2>1. DOMAIN known' = D /\ D \subseteq Ids
      BY <1>1, <1>5 DEF Inv, TypeOK
    <2>2. \A c \in D : known'[c] \in Firms
      BY <1>1, <1>5 DEF Inv, TypeOK
    <2> HIDE DEF D, m
    <2> QED BY <1>1, <2>1, <2>2
  <1>7. FileKept'
    <2> SUFFICES ASSUME ~spoilt PROVE FileKept'
      BY DEF FileKept
    <2>1. /\ file = NULL /\ ~job[w].mixed /\ Keeps(m)
          /\ \A x \in Writers \ {w} : job[x].phase # "write"
          /\ \A x \in Writers : ~(job[x].phase = "open" /\ job[x].fresh)
      BY <1>1 DEF Inv, FileKept
    <2>2. file' = m
      BY <1>1, <2>1
    <2>3. \A c \in D : c \in DOMAIN m.clients /\ m.clients[c].firm = known'[c]
      BY <1>1, <2>1 DEF Keeps
    <2>4. Keeps(file)'
      BY <1>1, <2>2, <2>3 DEF Keeps
    <2>5. \A x \in Writers : job'[x].phase # "write" /\ ~(job'[x].phase = "open" /\ job'[x].fresh)
      BY <1>4, <2>1
    <2> QED BY <2>4, <2>5 DEF FileKept
  <1>8. OthersUntouched'
    <2>1. CASE w = Loop
      BY <1>4, <2>1, OthersStay
    <2>2. CASE w # Loop
      <3>1. spoilt \/ ~(job[Loop].phase = "open" /\ job[Loop].fresh)
        BY <1>0, <1>1 DEF Inv, FileKept
      <3>2. job'[Loop] = job[Loop]
        BY <1>0, <1>4, <2>2
      <3> QED BY <3>1, <3>2 DEF OthersUntouched
    <2> QED BY <2>1, <2>2
  <1>9. WellWritten'
    BY <1>1, <1>2, <1>6 DEF WellWritten
  <1> QED BY <1>1, <1>7, <1>8, <1>9

\* What a page shows once its request has been answered
LEMMA AnsweredFits ==
  ASSUME NEW p, PageGood(p), NEW m, IsMaster(m), ~stale => Told(m.clients)
  PROVE  Answered(p, m) # NULL => PageGood(Answered(p, m))
  <1> DEFINE v == View(m, p.firm)
             q == [p EXCEPT !.shown = v, !.draft = v.clients]
             r == [p EXCEPT !.shown = v, !.draft = v.clients, !.put = NULL]
  <1>1. IsPage(p) /\ p.page \in Pages /\ p.firm \in Firms
    BY PageParts DEF PageGood
  <1>2. IsMaster(v) /\ (~stale => Told(v.clients))
    BY <1>1, ViewFits
  <1>3. r = [q EXCEPT !.put = NULL]
    OBVIOUS
  <1>4. Answered(p, m) = NULL \/ Answered(p, m) = r
    BY DEF Answered
  <1> HIDE DEF v
  <1>5. IsDirectory(v.clients)
    BY <1>2, MasterParts
  <1>6. q = [page |-> p.page, firm |-> p.firm, shown |-> v, draft |-> v.clients, put |-> p.put]
    BY <1>1, <1>2, PageRefreshed
  <1> HIDE DEF q
  <1>7. IsPage(q)
    BY <1>1, <1>2, <1>5, <1>6, PageParts, MakePage
  <1>8. q.page = p.page /\ q.firm = p.firm /\ q.shown = v /\ q.draft = v.clients
    BY <1>6
  <1>9. r = [page |-> q.page, firm |-> q.firm, shown |-> q.shown, draft |-> q.draft, put |-> NULL]
    BY <1>3, <1>7, PageSet
  <1> HIDE DEF r
  <1>10. IsPage(r)
    BY <1>1, <1>2, <1>5, <1>8, <1>9, MakePage
  <1>11. r.shown = v /\ r.draft = v.clients /\ r.put = NULL
    BY <1>8, <1>9
  <1>12. PageGood(r)
    BY <1>2, <1>10, <1>11 DEF PageGood, PageTold, Loyal
  <1> QED BY <1>4, <1>12

LEMMA PutWrittenKeeps ==
  ASSUME Inv, NEW s \in Screens, PutWritten(s)
  PROVE  Inv'
  <1> DEFINE o == screen[s]
             m == job[Loop].copy
  <1>0. Loop \in Writers
    BY DEF Writers
  <1>1. /\ Served(s) /\ Written(Loop) /\ job' = [job EXCEPT ![Loop] = Idle]
        /\ screen' = [screen EXCEPT ![s] = Answered(o, m)]
           \/ screen' = [screen EXCEPT ![s] = Unanswered(o)]
        /\ UNCHANGED <<transfers, deeds, crashes, origin, interrupted, stale, spoilt>>
    BY DEF PutWritten
  <1>2. PICK p : /\ screen' = [screen EXCEPT ![s] = p]
                 /\ p = Answered(o, m) \/ p = Unanswered(o)
    BY <1>1
  <1>3. IsMaster(m) /\ (~stale => Told(m.clients))
    BY <1>0, <1>1 DEF Written, Inv, TypeOK, IsJob, HistoryKept
  <1>4. p # NULL => PageGood(p)
    <2>1. PageGood(o)
      BY <1>1 DEF Inv, JobsFit
    <2> QED BY <1>2, <1>3, <2>1, AnsweredFits, UnansweredFits
  <1>5. /\ job' = [x \in Writers |-> job'[x]]
        /\ job'[Loop] = Idle /\ \A x \in Writers \ {Loop} : job'[x] = job[x]
        /\ \A x \in Writers : IsJob(job'[x])
    BY <1>0, <1>1, IdleFits, JobSet DEF Inv
  <1>6. FileKept' /\ OthersUntouched' /\ WellWritten' /\ DOMAIN known \subseteq DOMAIN known'
    <2>1. job'[Loop].phase \in {"idle", "settle"} /\ UNCHANGED <<stale, spoilt>>
      BY <1>1, <1>5, IdleFits
    <2> QED BY <1>0, <1>1, <1>5, <2>1, WriteKeeps
  <1>7. /\ screen' = [r \in Screens |-> screen'[r]]
        /\ screen'[s] = p /\ \A r \in Screens \ {s} : screen'[r] = screen[r]
    BY <1>2 DEF Inv, TypeOK
  <1>8. TypeOK'
    <2>1. \A r \in Screens : screen'[r] # NULL => IsPage(screen'[r])
      BY <1>4, <1>7 DEF Inv, TypeOK, PageGood
    <2> QED BY <1>1, <1>5, <1>6, <1>7, <2>1 DEF Inv, TypeOK, WellWritten
  <1>9. JobsFit'
    <2>1. \A r \in Screens : ~Served(r)'
      BY <1>5 DEF Served, Serves
    <2> QED BY <1>5, <2>1, IdleFits DEF Inv, JobsFit
  <1>10. HistoryKept'
    <2>1. \A r \in Screens : screen'[r] # NULL =>
             Loyal(screen'[r]) /\ (~stale => PageTold(screen'[r]))
      BY <1>4, <1>7 DEF Inv, HistoryKept, PageGood
    <2>2. \A x \in Writers :
            /\ job'[x].phase = "read" =>
                 Admits(job'[x].task.seen, job'[x].task.value, job'[x].task.source)
            /\ ~stale => (job'[x].phase \in {"open", "write"} => Told(job'[x].copy.clients))
      BY <1>5, IdleFits DEF Inv, HistoryKept
    <2> QED BY <1>1, <1>6, <2>1, <2>2 DEF Inv, HistoryKept, WellWritten
  <1>11. CodeHeld'
    <2>1. ~Serves("claim") /\ ~Serves("claim")'
      BY <1>1, <1>5 DEF Served, Serves
    <2> QED BY <1>1, <1>6, <2>1, CodeStays
  <1> QED BY <1>6, <1>8, <1>9, <1>10, <1>11 DEF Inv

LEMMA LearnWrittenKeeps ==
  ASSUME Inv, NEW w \in Writers, LearnWritten(w)
  PROVE  Inv'
  <1>0. Loop \in Writers
    BY DEF Writers
  <1>1. /\ job[w] # Idle /\ job[w].task.kind = "learn" /\ Written(w)
        /\ job' = [job EXCEPT ![w] = Idle]
        /\ UNCHANGED <<screen, transfers, deeds, crashes, origin, interrupted, stale, spoilt>>
    BY DEF LearnWritten
  <1>2. /\ job' = [x \in Writers |-> job'[x]]
        /\ job'[w] = Idle /\ \A x \in Writers \ {w} : job'[x] = job[x]
        /\ \A x \in Writers : IsJob(job'[x])
    BY <1>1, IdleFits, JobSet DEF Inv
  <1>3. FileKept' /\ OthersUntouched' /\ WellWritten' /\ DOMAIN known \subseteq DOMAIN known'
    <2>1. job'[w].phase \in {"idle", "settle"} /\ UNCHANGED <<stale, spoilt>>
      BY <1>1, <1>2, IdleFits
    <2> QED BY <1>1, <1>2, <2>1, WriteKeeps
  <1>4. TypeOK'
    BY <1>1, <1>2, <1>3 DEF Inv, TypeOK, WellWritten
  <1>5. job'[Loop] = job[Loop] \/ (w = Loop /\ job'[Loop] = Idle)
    BY <1>0, <1>2
  <1>6. JobsFit'
    <2>1. \A x \in Writers :
            /\ job'[x].phase = "idle" => job'[x] = Idle
            /\ job'[x].phase # "idle" => job'[x].task \in Task
            /\ job'[x].phase = "read" => job'[x].task.kind = "learn"
            /\ job'[x].phase = "settle" => job'[x].task.kind = "claim"
            /\ job'[x].phase # "idle" /\ x # Loop => job'[x].task.kind = "learn"
      BY <1>2, IdleFits DEF Inv, JobsFit
    <2>2. \A s \in Screens : Served(s)' => Served(s)
      BY <1>5 DEF Served, Serves
    <2> QED BY <1>1, <2>1, <2>2 DEF Inv, JobsFit, PageGood
  <1>7. HistoryKept'
    <2>1. \A x \in Writers :
            /\ job'[x].phase = "read" =>
                 Admits(job'[x].task.seen, job'[x].task.value, job'[x].task.source)
            /\ ~stale => (job'[x].phase \in {"open", "write"} => Told(job'[x].copy.clients))
      BY <1>2, IdleFits DEF Inv, HistoryKept
    <2> QED BY <1>1, <1>3, <2>1 DEF Inv, HistoryKept, WellWritten
  <1>8. CodeHeld'
    <2>1. w = Loop => ~Serves("claim")
      BY <1>1 DEF Serves
    <2>2. job'[Loop] = job[Loop] \/ (~Serves("claim") /\ ~Serves("claim")')
      BY <1>5, <2>1 DEF Serves
    <2> QED BY <1>1, <1>3, <2>2, CodeStays
  <1> QED BY <1>3, <1>4, <1>6, <1>7, <1>8 DEF Inv

-----------------------------------------------------------------------------
(* The transfers *)

LEMMA TransferFields ==
  ASSUME NEW x \in Transfer
  PROVE  /\ x.status \in {"pending", "claimed", "expired", "revoked"}
         /\ x.client \in Copies \cup {NULL} /\ x.pack \in Client
         /\ x # NULL
  BY NothingIsNoTransfer DEF Transfer

\* A code that was and is not claimed changes, while the event loop is free
LEMMA TransferKeeps ==
  ASSUME Inv, LoopFree, NEW t \in Codes, NEW x \in Transfer,
         x.status # "claimed", x.pack.history = <<>>,
         transfers[t] # NULL => transfers[t].status = "pending",
         transfers' = [transfers EXCEPT ![t] = x], deeds' \in 0..MaxDeeds,
         UNCHANGED <<file, job, screen, crashes, known, origin, interrupted, stale, spoilt>>
  PROVE  Inv'
  <1>1. /\ transfers' \in [Codes -> Transfer \cup {NULL}]
        /\ transfers'[t] = x /\ \A u \in Codes \ {t} : transfers'[u] = transfers[u]
    BY DEF Inv, TypeOK
  <1>2. TypeOK'
    BY <1>1 DEF Inv, TypeOK
  <1>3. JobsFit'
    BY DEF Inv, JobsFit, Served, Serves, PageGood
  <1>4. FileKept' /\ OthersUntouched'
    BY DEF Inv, FileKept, OthersUntouched, Keeps, Serves
  <1>5. HistoryKept'
    <2>1. \A u \in Codes : transfers'[u] # NULL => transfers'[u].pack.history = <<>>
      BY <1>1 DEF Inv, HistoryKept
    <2> QED BY <2>1 DEF Inv, HistoryKept
  <1>6. CodeHeld'
    <2>1. ~Serves("claim") /\ ~Serves("claim")'
      BY DEF Serves, LoopFree
    <2>2. ASSUME NEW u \in Codes
          PROVE  (transfers'[u] # NULL /\ transfers'[u].status = "claimed")
                    <=> (transfers[u] # NULL /\ transfers[u].status = "claimed")
      BY <1>1
    <2>3. ClaimsAccounted'
      BY <2>1, <2>2 DEF Inv, CodeHeld, ClaimsAccounted, Settling
    <2> QED BY <2>1, <2>3 DEF Inv, CodeHeld
  <1> QED BY <1>2, <1>3, <1>4, <1>5, <1>6 DEF Inv

LEMMA SetHistory ==
  ASSUME NEW c \in Client
  PROVE  [c EXCEPT !.history = <<>>] \in Client /\ [c EXCEPT !.history = <<>>].history = <<>>
  <1>1. <<>> \in Seq(Change)
    OBVIOUS
  <1> QED BY <1>1 DEF Client

LEMMA SetStatus ==
  ASSUME NEW x \in Transfer, NEW status \in {"pending", "claimed", "expired", "revoked"}
  PROVE  /\ [x EXCEPT !.status = status] \in Transfer
         /\ [x EXCEPT !.status = status].status = status
         /\ [x EXCEPT !.status = status].pack = x.pack
  BY DEF Transfer

LEMMA CreateTransferKeeps ==
  ASSUME Inv, NEW t \in Codes, NEW c \in Ids, CreateTransfer(t, c)
  PROVE  Inv'
  <1> DEFINE k == [Loaded.clients[c] EXCEPT !.history = <<>>]
             x == [status |-> "pending", client |-> NULL, pack |-> k]
  <1>1. Loaded.clients[c] \in Client
    BY LoadedFits, MasterParts, DirectoryValue DEF CreateTransfer, Inv
  <1>2. k \in Client /\ k.history = <<>>
    BY <1>1, SetHistory
  <1>3. /\ LoopFree /\ transfers[t] = NULL /\ transfers' = [transfers EXCEPT ![t] = x]
        /\ UNCHANGED <<file, job, screen, crashes, known, origin, interrupted, stale, spoilt>>
    BY DEF CreateTransfer
  <1>4. deeds' \in 0..MaxDeeds
    BY DeedCounts DEF CreateTransfer, Inv
  <1> HIDE DEF k
  <1>5. x \in Transfer /\ x.status = "pending" /\ x.pack = k
    BY <1>2 DEF Transfer
  <1> HIDE DEF x
  <1> QED BY <1>2, <1>3, <1>4, <1>5, TransferKeeps

\* A code that is pending ends without a claim
LEMMA EndKeeps ==
  ASSUME Inv, NEW t \in Codes, NEW status \in {"expired", "revoked"}, LoopFree, Pending(t),
         transfers' = [transfers EXCEPT ![t] = [transfers[t] EXCEPT !.status = status]],
         UNCHANGED <<file, job, screen, deeds, crashes, known, origin, interrupted, stale, spoilt>>
  PROVE  Inv'
  <1> DEFINE x == [transfers[t] EXCEPT !.status = status]
  <1>1. transfers[t] \in Transfer /\ transfers[t].status = "pending" /\ transfers[t] # NULL
    BY DEF Pending, Inv, TypeOK
  <1>2. x \in Transfer /\ x.status = status /\ x.pack = transfers[t].pack
    <2>1. status \in {"pending", "claimed", "expired", "revoked"}
      OBVIOUS
    <2> QED BY <1>1, <2>1, SetStatus
  <1>3. transfers[t].pack.history = <<>>
    BY <1>1 DEF Inv, HistoryKept
  <1>4. deeds' \in 0..MaxDeeds
    BY DEF Inv, TypeOK
  <1> HIDE DEF x
  <1>5. transfers' = [transfers EXCEPT ![t] = x]
    BY DEF x
  <1> QED BY <1>1, <1>2, <1>3, <1>4, <1>5, TransferKeeps

LEMMA ExpireTransferKeeps ==
  ASSUME Inv, NEW t \in Codes, ExpireTransfer(t)
  PROVE  Inv'
  <1>1. transfers' = [transfers EXCEPT ![t] = [transfers[t] EXCEPT !.status = "expired"]]
    BY DEF ExpireTransfer
  <1> QED BY <1>1, EndKeeps DEF ExpireTransfer

LEMMA RevokeTransferKeeps ==
  ASSUME Inv, NEW t \in Codes, RevokeTransfer(t)
  PROVE  Inv'
  <1>1. transfers' = [transfers EXCEPT ![t] = [transfers[t] EXCEPT !.status = "revoked"]]
    BY DEF RevokeTransfer
  <1> QED BY <1>1, EndKeeps DEF RevokeTransfer

LEMMA ClaimBeginsKeeps ==
  ASSUME Inv, NEW t \in Codes, NEW f \in Firms, ClaimBegins(t, f)
  PROVE  Inv'
  <1> DEFINE n == CHOOSE k \in Copies : k \notin DOMAIN known
             l == Loaded
             x == [transfers[t].pack EXCEPT !.firm = f]
             d == [c \in DOMAIN l.clients \cup {n} |-> IF c = n THEN x ELSE l.clients[c]]
             m == [l EXCEPT !.clients = d]
             task == [kind |-> "claim", code |-> t, copy |-> n]
  <1>1. /\ LoopFree /\ Pending(t) /\ Begin(Loop, "open", task, m)
        /\ \E k \in Copies : k \notin DOMAIN known
        /\ UNCHANGED <<file, screen, transfers, crashes,
                       known, origin, interrupted, stale, spoilt>>
    BY DEF ClaimBegins
  <1>2. n \in Copies /\ n \notin DOMAIN known
    BY <1>1
  <1> HIDE DEF n
  <1>3. origin[n] = NULL /\ n \in Ids
    BY <1>2 DEF Inv, CodeHeld, Ids
  <1>4. transfers[t] \in Transfer /\ transfers[t].pack \in Client
        /\ transfers[t].pack.history = <<>>
    <2>1. transfers[t] \in Transfer /\ transfers[t] # NULL
      BY <1>1 DEF Pending, Inv, TypeOK
    <2> QED BY <2>1, TransferFields DEF Inv, HistoryKept
  <1>5. x \in Client /\ x.history = <<>>
    BY <1>4, SetFirm
  <1> HIDE DEF x
  <1>6. IsMaster(l) /\ (~stale => Told(l.clients)) /\ (~spoilt /\ file # NULL => Keeps(l))
    BY LoadedFits DEF Inv, FileKept, Loaded
  <1> HIDE DEF l
  <1>7. IsDirectory(l.clients) /\ l.edges \in SUBSET Edges
        /\ l = [clients |-> l.clients, edges |-> l.edges]
    BY <1>6, MasterParts
  <1>8. /\ IsDirectory(d) /\ DOMAIN d = DOMAIN l.clients \cup {n}
        /\ \A c \in DOMAIN l.clients \ {n} : d[c] = l.clients[c]
        /\ Told(l.clients) => Told(d)
    BY <1>3, <1>5, <1>7, AddFits, NothingToExplain
  <1> HIDE DEF d
  <1>9. m = [clients |-> d, edges |-> l.edges]
    BY <1>7
  <1>10. IsMaster(m) /\ m.clients = d
    BY <1>7, <1>8, <1>9, MakeMaster
  <1> HIDE DEF m
  <1>11. ~spoilt /\ file # NULL => Keeps(m)
    BY <1>2, <1>6, <1>8, <1>10 DEF Keeps
  <1>12. task \in Task /\ task.kind = "claim" /\ task.code = t /\ task.copy = n
         /\ Loop \in Writers
    BY <1>2 DEF Task, Writers
  <1> HIDE DEF task
  <1>13. TypeOK' /\ JobsFit' /\ FileKept' /\ HistoryKept'
    <2>1. stale' \in BOOLEAN /\ (stale => stale') /\ (~stale' => Told(m.clients))
      BY <1>1, <1>6, <1>8, <1>10 DEF Inv, TypeOK
    <2>2. job[Loop] = Idle
      BY <1>1 DEF LoopFree
    <2>3. deeds' \in 0..MaxDeeds
      BY DeedCounts DEF ClaimBegins, Inv
    <2>4. UNCHANGED <<file, screen, transfers, crashes, known, origin, interrupted, spoilt>>
      BY <1>1
    <2> QED BY <1>1, <1>10, <1>11, <1>12, <2>1, <2>2, <2>3, <2>4, StartKeeps
  <1>14. job'[Loop] = [phase |-> "open", task |-> task, copy |-> m,
                       fresh |-> file # NULL, mixed |-> FALSE]
    BY <1>1, <1>12 DEF Begin, Inv, TypeOK
  <1>15. job'[Loop].phase = "open" /\ job'[Loop].task = task /\ job'[Loop].copy = m
    BY <1>14
  <1>16. OthersUntouched'
    <2>1. ~Serves("put")'
      BY <1>12, <1>15 DEF Serves
    <2> QED BY <2>1, OthersStay
  <1>17. CodeHeld'
    <2>1. n \in DOMAIN m.clients
      BY <1>8, <1>10
    <2>2. ~Serves("claim")
      BY <1>1 DEF Serves, LoopFree
    <2>3. ClaimsAccounted'
      BY <1>1, <1>15, <2>2 DEF Inv, CodeHeld, ClaimsAccounted, Settling
    <2> QED BY <1>1, <1>3, <1>12, <1>15, <2>1, <2>2, <2>3 DEF Inv, CodeHeld, Pending
  <1> QED BY <1>13, <1>16, <1>17 DEF Inv

\* The copy is stored: one more of its code
LEMMA ClaimWrittenKeeps ==
  ASSUME Inv, ClaimWritten
  PROVE  Inv'
  <1> DEFINE j == job[Loop]
             n == j.task.copy
             t == j.task.code
             j2 == [j EXCEPT !.phase = "settle"]
  <1>0. Loop \in Writers
    BY DEF Writers
  <1>1. /\ Serves("claim") /\ Written(Loop) /\ origin' = [origin EXCEPT ![n] = t]
        /\ job' = [job EXCEPT ![Loop] = j2]
        /\ UNCHANGED <<screen, transfers, deeds, crashes, interrupted, stale, spoilt>>
    BY DEF ClaimWritten
  <1>2. j.phase = "write" /\ IsJob(j) /\ j.task \in Task /\ j.task.kind = "claim"
    BY <1>0, <1>1 DEF Written, Serves, Inv, TypeOK, JobsFit
  <1>3. n \in Copies /\ t \in Codes
    BY <1>2 DEF Task
  <1>4. j2 = [phase |-> "settle", task |-> j.task, copy |-> j.copy,
              fresh |-> j.fresh, mixed |-> j.mixed]
    BY <1>2 DEF IsJob
  <1>5. IsJob(j2) /\ j2.phase = "settle" /\ j2.task = j.task
    BY <1>2, <1>4 DEF IsJob
  <1> HIDE DEF j2
  <1>6. /\ job' = [x \in Writers |-> job'[x]]
        /\ job'[Loop] = j2 /\ \A x \in Writers \ {Loop} : job'[x] = job[x]
        /\ \A x \in Writers : IsJob(job'[x])
    BY <1>0, <1>1, <1>5, JobSet DEF Inv
  <1>7. FileKept' /\ OthersUntouched' /\ WellWritten' /\ DOMAIN known \subseteq DOMAIN known'
    <2>1. job'[Loop].phase \in {"idle", "settle"} /\ UNCHANGED <<stale, spoilt>>
      BY <1>1, <1>5, <1>6
    <2> QED BY <1>0, <1>1, <1>6, <2>1, WriteKeeps
  <1>8. origin[n] = NULL /\ n \in DOMAIN known'
    <2>1. origin[n] = NULL /\ n \in DOMAIN j.copy.clients
      BY <1>1, <1>2 DEF Inv, CodeHeld
    <2>2. DOMAIN known' = DOMAIN known \cup DOMAIN j.copy.clients
      BY <1>1 DEF Written
    <2> QED BY <2>1, <2>2
  <1>9. /\ origin' \in [Copies -> Codes \cup {NULL}] /\ origin'[n] = t
        /\ \A k \in Copies \ {n} : origin'[k] = origin[k]
    BY <1>1, <1>3 DEF Inv, TypeOK
  <1>10. TypeOK'
    BY <1>1, <1>6, <1>7, <1>9 DEF Inv, TypeOK, WellWritten
  <1>11. Serves("claim")' /\ job'[Loop].task = j.task /\ job'[Loop].phase = "settle"
    BY <1>2, <1>5, <1>6, IdleFits DEF Serves
  <1>12. JobsFit'
    <2>1. \A x \in Writers :
            /\ job'[x].phase = "idle" => job'[x] = Idle
            /\ job'[x].phase # "idle" => job'[x].task \in Task
            /\ job'[x].phase = "read" => job'[x].task.kind = "learn"
            /\ job'[x].phase = "settle" => job'[x].task.kind = "claim"
            /\ job'[x].phase # "idle" /\ x # Loop => job'[x].task.kind = "learn"
      BY <1>2, <1>5, <1>6 DEF Inv, JobsFit
    <2>2. \A s \in Screens : ~Served(s)'
      BY <1>2, <1>11 DEF Served, Serves
    <2> QED BY <2>1, <2>2 DEF JobsFit
  <1>13. HistoryKept'
    <2>1. \A x \in Writers :
            /\ job'[x].phase = "read" =>
                 Admits(job'[x].task.seen, job'[x].task.value, job'[x].task.source)
            /\ ~stale => (job'[x].phase \in {"open", "write"} => Told(job'[x].copy.clients))
      BY <1>5, <1>6 DEF Inv, HistoryKept
    <2> QED BY <1>1, <1>7, <2>1 DEF Inv, HistoryKept, WellWritten
  <1>14. ClaimsAccounted'
    <2> SUFFICES ASSUME NEW u \in Codes
                 PROVE  Cardinality({k \in Copies : origin'[k] = u})
                          = interrupted[u] + (IF Settling(u)' THEN 1 ELSE 0)
                              + (IF transfers[u] # NULL /\ transfers[u].status = "claimed"
                                 THEN 1 ELSE 0)
      BY <1>1 DEF ClaimsAccounted
    <2> DEFINE S == {k \in Copies : origin[k] = u}
               c == IF transfers[u] # NULL /\ transfers[u].status = "claimed" THEN 1 ELSE 0
    <2>1. IsFiniteSet(S)
      BY CopiesAreFinite, FS_Subset
    <2>2. ~Settling(u)
      BY <1>2 DEF Settling
    <2>3. Cardinality(S) = interrupted[u] + c
      BY <2>2 DEF Inv, CodeHeld, ClaimsAccounted, TypeOK
    <2>4. interrupted[u] \in Nat /\ c \in Nat /\ NULL \notin Codes
      BY NothingIsNoValue DEF Inv, TypeOK
    <2>5. CASE u = t
      <3>1. n \notin S
        BY <1>8, <2>4
      <3>2. {k \in Copies : origin'[k] = u} = S \cup {n}
        BY <1>3, <1>9, <2>5
      <3>3. Cardinality(S \cup {n}) = Cardinality(S) + 1
        BY <2>1, <3>1, FS_AddElement
      <3>4. Settling(u)'
        BY <1>11, <2>5 DEF Settling
      <3> HIDE DEF S, c
      <3>5. Cardinality({k \in Copies : origin'[k] = u}) = interrupted[u] + 1 + c
        <4> DEFINE R == {k \in Copies : origin'[k] = u}
        <4>1. R = S \cup {n}
          BY <3>2
        <4> HIDE DEF R
        <4>2. Cardinality(R) = Cardinality(S) + 1
          BY <3>3, <4>1
        <4> QED BY <2>3, <2>4, <4>2 DEF R
      <3>6. (IF Settling(u)' THEN 1 ELSE 0) = 1
        BY <3>4
      <3> QED BY <3>5, <3>6 DEF c
    <2>6. CASE u # t
      <3>1. {k \in Copies : origin'[k] = u} = S
        BY <1>8, <1>9, <2>4, <2>6
      <3>2. ~Settling(u)'
        BY <1>11, <2>6 DEF Settling
      <3> HIDE DEF S
      <3> QED BY <2>3, <2>4, <3>1, <3>2
    <2> QED BY <2>5, <2>6
  <1>15. CodeHeld'
    <2>1. Pending(t) /\ transfers' = transfers
      BY <1>1 DEF Inv, CodeHeld
    <2>2. \A k \in Copies : origin'[k] # NULL => k \in DOMAIN known'
      BY <1>7, <1>8, <1>9 DEF Inv, CodeHeld
    <2> QED BY <1>9, <1>11, <1>14, <2>1, <2>2 DEF CodeHeld, Pending
  <1> QED BY <1>7, <1>10, <1>12, <1>13, <1>15 DEF Inv

LEMMA SetClient ==
  ASSUME NEW x \in Transfer, NEW n \in Copies
  PROVE  /\ [x EXCEPT !.client = n] \in Transfer
         /\ [x EXCEPT !.client = n].status = x.status
         /\ [x EXCEPT !.client = n].pack = x.pack
  BY DEF Transfer

LEMMA ClaimSettlesKeeps ==
  ASSUME Inv, ClaimSettles
  PROVE  Inv'
  <1> DEFINE n == job[Loop].task.copy
             t == job[Loop].task.code
             y == [transfers[t] EXCEPT !.status = "claimed"]
             z == [y EXCEPT !.client = n]
  <1>0. Loop \in Writers
    BY DEF Writers
  <1>1. /\ Serves("claim") /\ job[Loop].phase = "settle" /\ job' = [job EXCEPT ![Loop] = Idle]
        /\ UNCHANGED <<file, screen, deeds, crashes, known, origin, interrupted, stale, spoilt>>
    BY DEF ClaimSettles
  <1>2. job[Loop].task \in Task /\ job[Loop].task.kind = "claim"
    BY <1>0, <1>1 DEF Serves, Inv, JobsFit
  <1>3. n \in Copies /\ t \in Codes
    BY <1>2 DEF Task
  <1>4. Pending(t) /\ transfers[t] \in Transfer /\ transfers[t].status = "pending"
    BY <1>1, <1>3 DEF Inv, CodeHeld, Pending, TypeOK
  <1>5. z \in Transfer /\ z.status = "claimed" /\ z.pack = transfers[t].pack
    <2>1. y \in Transfer /\ y.status = "claimed" /\ y.pack = transfers[t].pack
      BY <1>4, SetStatus
    <2> HIDE DEF y
    <2> QED BY <1>3, <2>1, SetClient
  <1>6. /\ transfers' \in [Codes -> Transfer \cup {NULL}]
        /\ transfers'[t] = z /\ \A u \in Codes \ {t} : transfers'[u] = transfers[u]
    <2> DEFINE T == [transfers EXCEPT ![t] = y]
    <2>1. transfers' = [T EXCEPT ![t].client = n]
      BY <1>4 DEF ClaimSettles
    <2>2. /\ DOMAIN T = Codes /\ T[t] = y /\ \A u \in Codes \ {t} : T[u] = transfers[u]
      BY <1>3 DEF Inv, TypeOK
    <2>3. transfers' = [T EXCEPT ![t] = z]
      BY <1>3, <2>1, <2>2
    <2> HIDE DEF y, z, T
    <2>4. transfers' = [u \in Codes |-> transfers'[u]]
          /\ transfers'[t] = z /\ \A u \in Codes \ {t} : transfers'[u] = transfers[u]
      <3>1. T = [u \in Codes |-> T[u]]
        BY DEF T, Inv, TypeOK
      <3> QED BY <1>3, <2>2, <2>3, <3>1
    <2>5. \A u \in Codes : transfers'[u] \in Transfer \cup {NULL}
      BY <1>5, <2>4 DEF Inv, TypeOK
    <2> QED BY <2>4, <2>5
  <1> HIDE DEF y, z
  <1>7. /\ job' = [x \in Writers |-> job'[x]]
        /\ job'[Loop] = Idle /\ \A x \in Writers \ {Loop} : job'[x] = job[x]
        /\ \A x \in Writers : IsJob(job'[x])
    BY <1>0, <1>1, IdleFits, JobSet DEF Inv
  <1>8. TypeOK'
    BY <1>1, <1>6, <1>7 DEF Inv, TypeOK
  <1>9. JobsFit'
    <2>1. \A r \in Screens : ~Served(r)'
      BY <1>7 DEF Served, Serves
    <2> QED BY <1>7, <2>1, IdleFits DEF Inv, JobsFit
  <1>10. FileKept'
    <2>1. \A m : Keeps(m)' <=> Keeps(m)
      BY <1>1 DEF Keeps
    <2>2. \A x \in Writers : job'[x].phase \in {"open", "write"} => job'[x] = job[x]
      BY <1>7, IdleFits
    <2>3. \A x, w \in Writers : job[x].phase # "write" => job'[x].phase # "write"
      BY <2>2
    <2> QED BY <1>1, <2>1, <2>2, <2>3 DEF Inv, FileKept
  <1>11. OthersUntouched'
    <2>1. ~Serves("put")'
      BY <1>7 DEF Serves
    <2> QED BY <2>1, OthersStay
  <1>12. HistoryKept'
    <2>1. \A x \in Writers :
            /\ job'[x].phase = "read" =>
                 Admits(job'[x].task.seen, job'[x].task.value, job'[x].task.source)
            /\ ~stale => (job'[x].phase \in {"open", "write"} => Told(job'[x].copy.clients))
      BY <1>7, IdleFits DEF Inv, HistoryKept
    <2>2. \A u \in Codes : transfers'[u] # NULL => transfers'[u].pack.history = <<>>
      BY <1>4, <1>5, <1>6, TransferFields DEF Inv, HistoryKept
    <2> QED BY <1>1, <2>1, <2>2 DEF Inv, HistoryKept
  <1>13. CodeHeld'
    <2>1. ~Serves("claim")'
      BY <1>7 DEF Serves
    <2>2. ASSUME NEW u \in Codes
          PROVE  Cardinality({k \in Copies : origin[k] = u})
                   = interrupted[u]
                       + (IF transfers'[u] # NULL /\ transfers'[u].status = "claimed"
                          THEN 1 ELSE 0)
      <3>1. Cardinality({k \in Copies : origin[k] = u})
              = interrupted[u] + (IF Settling(u) THEN 1 ELSE 0)
                  + (IF transfers[u] # NULL /\ transfers[u].status = "claimed" THEN 1 ELSE 0)
        BY DEF Inv, CodeHeld, ClaimsAccounted
      <3>2. interrupted[u] \in Nat
        BY DEF Inv, TypeOK
      <3>3. CASE u = t
        <4>1. Settling(u) /\ transfers[u].status # "claimed"
          BY <1>1, <1>4, <3>3 DEF Settling
        <4>2. transfers'[u] # NULL /\ transfers'[u].status = "claimed"
          BY <1>5, <1>6, <3>3, TransferFields
        <4> QED BY <3>1, <3>2, <4>1, <4>2
      <3>4. CASE u # t
        <4>1. ~Settling(u) /\ transfers'[u] = transfers[u]
          BY <1>6, <3>4 DEF Settling
        <4> QED BY <3>1, <3>2, <4>1
      <3> QED BY <3>3, <3>4
    <2>3. \A u \in Codes : ~Settling(u)'
      BY <2>1 DEF Settling
    <2>4. ClaimsAccounted'
      <3> SUFFICES ASSUME NEW u \in Codes
                   PROVE  Cardinality({k \in Copies : origin[k] = u})
                            = interrupted[u] + (IF Settling(u)' THEN 1 ELSE 0)
                                + (IF transfers'[u] # NULL /\ transfers'[u].status = "claimed"
                                   THEN 1 ELSE 0)
        BY <1>1 DEF ClaimsAccounted
      <3>1. interrupted[u] \in Nat
        BY DEF Inv, TypeOK
      <3> QED BY <2>2, <2>3, <3>1
    <2> QED BY <1>1, <2>1, <2>4 DEF Inv, CodeHeld
  <1> QED BY <1>8, <1>9, <1>10, <1>11, <1>12, <1>13 DEF Inv

-----------------------------------------------------------------------------
(* Crash, the first state, every step *)

LEMMA CrashKeeps ==
  ASSUME Inv, Crash
  PROVE  Inv'
  <1>1. /\ crashes < MaxCrashes /\ crashes' = crashes + 1
        /\ job' = [w \in Writers |-> Idle]
        /\ screen' = [s \in Screens |-> IF Served(s) THEN Unanswered(screen[s]) ELSE screen[s]]
        /\ interrupted' = [t \in Codes |->
               IF Serves("claim") /\ job[Loop].phase = "settle" /\ job[Loop].task.code = t
               THEN interrupted[t] + 1 ELSE interrupted[t]]
        /\ spoilt' = (spoilt \/ \E w \in Writers : job[w].phase = "write")
        /\ UNCHANGED <<file, transfers, deeds, known, origin, stale>>
    BY DEF Crash
  <1>2. \A w \in Writers : job'[w] = Idle
    BY <1>1
  <1>3. ASSUME NEW s \in Screens, screen'[s] # NULL PROVE PageGood(screen'[s])
    <2>1. CASE Served(s)
      <3>1. PageGood(screen[s])
        BY <2>1 DEF Inv, JobsFit
      <3> QED BY <1>1, <1>3, <2>1, <3>1, UnansweredFits
    <2>2. CASE ~Served(s)
      BY <1>1, <1>3, <2>2, PageIsGood DEF Inv
    <2> QED BY <2>1, <2>2
  <1>4. /\ interrupted' = [t \in Codes |-> interrupted'[t]]
        /\ \A t \in Codes : /\ interrupted'[t] = interrupted[t] + (IF Settling(t) THEN 1 ELSE 0)
                            /\ interrupted[t] \in Nat /\ interrupted'[t] \in Nat
    <2>1. \A t \in Codes : interrupted[t] \in Nat
      BY DEF Inv, TypeOK
    <2> QED BY <1>1, <2>1 DEF Settling
  <1>5. TypeOK'
    <2>1. crashes' \in 0..MaxCrashes /\ spoilt' \in BOOLEAN
      BY <1>1, BoundsAreNatural DEF Inv, TypeOK
    <2>2. job' = [w \in Writers |-> job'[w]] /\ \A w \in Writers : IsJob(job'[w])
      BY <1>1, IdleFits
    <2>3. screen' = [s \in Screens |-> screen'[s]]
          /\ \A s \in Screens : screen'[s] # NULL => IsPage(screen'[s])
      BY <1>1, <1>3 DEF PageGood
    <2>4. interrupted' \in [Codes -> Nat]
      BY <1>4
    <2> QED BY <1>1, <2>1, <2>2, <2>3, <2>4 DEF Inv, TypeOK
  <1>6. Loop \in Writers /\ \A kind : ~Serves(kind)'
    <2>1. Loop \in Writers
      BY DEF Writers
    <2> QED BY <1>2, <2>1 DEF Serves
  <1>7. JobsFit'
    <2>1. \A s \in Screens : ~Served(s)'
      BY <1>6 DEF Served
    <2> QED BY <1>2, <2>1, IdleFits DEF JobsFit
  <1>8. FileKept'
    BY <1>1, <1>2, IdleFits DEF Inv, FileKept, Keeps
  <1>9. OthersUntouched'
    BY <1>6 DEF OthersUntouched
  <1>10. HistoryKept'
    BY <1>1, <1>2, <1>3, IdleFits DEF Inv, HistoryKept, PageGood
  <1>11. CodeHeld'
    <2>1. \A t \in Codes : ~Settling(t)'
      BY <1>6 DEF Settling
    <2>2. ClaimsAccounted'
      <3> SUFFICES ASSUME NEW t \in Codes
                   PROVE  Cardinality({n \in Copies : origin[n] = t})
                            = interrupted'[t] + (IF Settling(t)' THEN 1 ELSE 0)
                                + (IF transfers[t] # NULL /\ transfers[t].status = "claimed"
                                   THEN 1 ELSE 0)
        BY <1>1 DEF ClaimsAccounted
      <3>1. Cardinality({n \in Copies : origin[n] = t})
              = interrupted[t] + (IF Settling(t) THEN 1 ELSE 0)
                  + (IF transfers[t] # NULL /\ transfers[t].status = "claimed" THEN 1 ELSE 0)
        BY DEF Inv, CodeHeld, ClaimsAccounted
      <3> QED BY <1>4, <2>1, <3>1
    <2> QED BY <1>1, <1>6, <2>2 DEF Inv, CodeHeld
  <1> QED BY <1>5, <1>7, <1>8, <1>9, <1>10, <1>11 DEF Inv

LEMMA InitFits ==
  ASSUME Init
  PROVE  Inv
  <1> DEFINE x(c) == [Blank(Home[c]) EXCEPT !.value = Stored[c]]
             d == [c \in Clients |-> x(c)]
  <1>1. /\ file = [clients |-> d, edges |-> {}]
        /\ job = [w \in Writers |-> Idle] /\ screen = [s \in Screens |-> NULL]
        /\ transfers = [t \in Codes |-> NULL] /\ deeds = 0 /\ crashes = 0 /\ known = Home
        /\ origin = [n \in Copies |-> NULL] /\ interrupted = [t \in Codes |-> 0]
        /\ stale = FALSE /\ spoilt = FALSE
    BY DEF Init
  <1>2. ASSUME NEW c \in Clients
        PROVE  x(c) \in Client /\ x(c).firm = Home[c] /\ Explains(x(c))
    <2>1. Blank(Home[c]) \in Client /\ Blank(Home[c]).firm = Home[c]
          /\ Blank(Home[c]).history = <<>> /\ Stored[c] \in Values
      BY FirmsAssumption, BlankFits
    <2>2. x(c) \in Client /\ x(c).firm = Home[c] /\ x(c).history = <<>>
      BY <2>1, SetValue
    <2> HIDE DEF x
    <2> QED BY <2>2, NothingToExplain
  <1> HIDE DEF x
  <1>3. IsDirectory(d) /\ DOMAIN d = Clients /\ Told(d)
        /\ \A c \in Clients : d[c].firm = Home[c]
    BY <1>2 DEF IsDirectory, Told, Ids
  <1> HIDE DEF d
  <1>4. IsMaster(file) /\ file.clients = d
    <2>1. {} \in SUBSET Edges
      OBVIOUS
    <2> QED BY <1>1, <1>3, <2>1, MakeMaster
  <1>5. \A w \in Writers : job[w] = Idle
    BY <1>1
  <1>6. Loop \in Writers /\ \A kind : ~Serves(kind)
    <2>1. Loop \in Writers
      BY DEF Writers
    <2> QED BY <1>5, <2>1 DEF Serves
  <1>7. known = Home /\ DOMAIN known = Clients /\ Home \in [Clients -> Firms]
    BY <1>1, FirmsAssumption
  <1>8. TypeOK
    <2>1. DOMAIN known \subseteq Ids /\ known \in [DOMAIN known -> Firms]
      BY <1>7 DEF Ids
    <2>2. job = [w \in Writers |-> job[w]] /\ \A w \in Writers : IsJob(job[w])
      BY <1>1, IdleFits
    <2>3. deeds \in 0..MaxDeeds /\ crashes \in 0..MaxCrashes
      BY <1>1, BoundsAreNatural
    <2> QED BY <1>1, <1>4, <2>1, <2>2, <2>3 DEF TypeOK
  <1>9. JobsFit
    <2>1. \A s \in Screens : ~Served(s)
      BY <1>6 DEF Served
    <2> QED BY <1>5, <2>1, IdleFits DEF JobsFit
  <1>10. FileKept
    BY <1>3, <1>4, <1>5, <1>7, IdleFits DEF FileKept, Keeps
  <1>11. OthersUntouched
    BY <1>6 DEF OthersUntouched
  <1>12. HistoryKept
    BY <1>1, <1>3, <1>4, <1>5, IdleFits DEF HistoryKept
  <1>13. CodeHeld
    <2>1. ClaimsAccounted
      <3> SUFFICES ASSUME NEW t \in Codes
                   PROVE  Cardinality({n \in Copies : origin[n] = t})
                            = interrupted[t] + (IF Settling(t) THEN 1 ELSE 0)
                                + (IF transfers[t] # NULL /\ transfers[t].status = "claimed"
                                   THEN 1 ELSE 0)
        BY DEF ClaimsAccounted
      <3>1. {n \in Copies : origin[n] = t} = {}
        BY <1>1, NothingIsNoValue
      <3>2. ~Settling(t) /\ interrupted[t] = 0 /\ transfers[t] = NULL
        BY <1>1, <1>6 DEF Settling
      <3>3. Cardinality({n \in Copies : origin[n] = t}) = 0
        BY <3>1, FS_EmptySet
      <3> QED BY <3>2, <3>3
    <2> QED BY <1>1, <1>6, <2>1 DEF CodeHeld
  <1> QED BY <1>8, <1>9, <1>10, <1>11, <1>12, <1>13 DEF Inv

LEMMA StutterKeeps ==
  ASSUME Inv, UNCHANGED vars
  PROVE  Inv'
  <1>1. /\ file' = file /\ job' = job /\ screen' = screen /\ transfers' = transfers
        /\ deeds' = deeds /\ crashes' = crashes /\ known' = known /\ origin' = origin
        /\ interrupted' = interrupted /\ stale' = stale /\ spoilt' = spoilt
    BY DEF vars
  <1>2. TypeOK' /\ JobsFit'
    BY <1>1 DEF Inv, TypeOK, JobsFit, Served, Serves, PageGood
  <1>3. FileKept' /\ OthersUntouched' /\ HistoryKept'
    BY <1>1 DEF Inv, FileKept, Keeps, OthersUntouched, Serves, HistoryKept
  <1>4. CodeHeld'
    BY <1>1, CodeStays DEF Inv
  <1> QED BY <1>2, <1>3, <1>4 DEF Inv

LEMMA PageStepKeeps ==
  ASSUME Inv, NEW s \in Screens, PageStep(s)
  PROVE  Inv'
  <1>1. CASE \E f \in Firms, page \in {"settings", "relations"} : OpenPage(s, page, f)
    BY <1>1, OpenPageChanges, PageKeeps
  <1>2. CASE \E f \in Firms, c \in Ids : UpdateTags(s, f, c)
    BY <1>2, UpdateTagsChanges, PageKeeps
  <1>3. CASE \E f \in Firms, c \in Ids, v \in Typed : PatchField(s, f, c, v)
    BY <1>3, PatchFieldChanges, PageKeeps
  <1>4. CASE Reload(s)
    BY <1>4, ReloadChanges, PageKeeps
  <1>5. CASE ClosePage(s)
    BY <1>5, ClosePageChanges, PageKeeps
  <1>6. CASE Save(s)
    BY <1>6, SaveChanges, PageKeeps
  <1>7. CASE \E c \in Ids, v \in Typed : Type(s, c, v)
    BY <1>7, TypeChanges, PageKeeps
  <1>8. CASE \E n \in Names : AddClient(s, n)
    BY <1>8, AddClientChanges, PageKeeps
  <1>9. CASE ImportReplacing(s)
    BY <1>9, ImportChanges, PageKeeps
  <1>10. CASE \E e \in Edges : Relate(s, e)
    BY <1>10, RelateChanges, PageKeeps
  <1>11. CASE PutArrives(s)
    BY <1>11, PutArrivesKeeps
  <1>12. CASE PutFails(s)
    BY <1>12, PutFailsChanges, PageKeeps
  <1>13. CASE PutWritten(s)
    BY <1>13, PutWrittenKeeps
  <1> QED BY <1>1, <1>2, <1>3, <1>4, <1>5, <1>6, <1>7, <1>8, <1>9, <1>10, <1>11, <1>12, <1>13
          DEF PageStep

LEMMA WriterStepKeeps ==
  ASSUME Inv, NEW w \in Writers, WriterStep(w)
  PROVE  Inv'
  <1>1. CASE \E c \in Ids, v \in Read, source \in {"manual", "ocr"} :
               LearnChecks(w, c, v, source)
    BY <1>1, LearnChecksKeeps
  <1>2. CASE LearnReads(w)
    BY <1>2, LearnReadsKeeps
  <1>3. CASE OpenFile(w)
    BY <1>3, OpenFileKeeps
  <1>4. CASE LearnWritten(w)
    BY <1>4, LearnWrittenKeeps
  <1> QED BY <1>1, <1>2, <1>3, <1>4 DEF WriterStep

LEMMA TransferStepKeeps ==
  ASSUME Inv, NEW t \in Codes, TransferStep(t)
  PROVE  Inv'
  <1>1. CASE \E c \in Ids : CreateTransfer(t, c)
    BY <1>1, CreateTransferKeeps
  <1>2. CASE ExpireTransfer(t)
    BY <1>2, ExpireTransferKeeps
  <1>3. CASE RevokeTransfer(t)
    BY <1>3, RevokeTransferKeeps
  <1>4. CASE \E f \in Firms : ClaimBegins(t, f)
    BY <1>4, ClaimBeginsKeeps
  <1> QED BY <1>1, <1>2, <1>3, <1>4 DEF TransferStep

LEMMA StepKeeps ==
  ASSUME Inv, [Next]_vars
  PROVE  Inv'
  <1>1. CASE \E s \in Screens : PageStep(s)
    BY <1>1, PageStepKeeps
  <1>2. CASE \E w \in Writers : WriterStep(w)
    BY <1>2, WriterStepKeeps
  <1>3. CASE \E t \in Codes : TransferStep(t)
    BY <1>3, TransferStepKeeps
  <1>4. CASE ClaimWritten
    BY <1>4, ClaimWrittenKeeps
  <1>5. CASE ClaimSettles
    BY <1>5, ClaimSettlesKeeps
  <1>6. CASE Crash
    BY <1>6, CrashKeeps
  <1>7. CASE UNCHANGED vars
    BY <1>7, StutterKeeps
  <1> QED BY <1>1, <1>2, <1>3, <1>4, <1>5, <1>6, <1>7 DEF Next

LEMMA InvAlways == Spec => []Inv
  <1>1. Init => Inv
    BY InitFits
  <1>2. Inv /\ [Next]_vars => Inv'
    BY StepKeeps
  <1> QED BY <1>1, <1>2, PTL DEF Spec

-----------------------------------------------------------------------------
\* The file, the jobs, the pages and the transfer codes are always of the
\* form the code reads and writes: every record of client_master.json that
\* _merge_client_master_for_firm, update_client_record and the claim of a
\* transfer produce is a whole one.
THEOREM TypeCorrect == Spec => []TypeOK
  <1>1. Inv => TypeOK
    BY DEF Inv
  <1> QED BY <1>1, InvAlways, PTL

\* No client leaves the master or changes its firm, however many screens of
\* however many firms send old copies of it (PUT /api/client-master), as long
\* as no whole-file write overtakes another.
THEOREM ClientsStay == Spec => []ClientsKept
  <1>1. Inv => ClientsKept
    BY DEF Inv, FileKept, Keeps, ClientsKept
  <1> QED BY <1>1, InvAlways, PTL

\* A PUT of one firm leaves the clients and relations of every other firm as
\* the file has them (_merge_client_master_for_firm after
\* _validate_client_master).
THEOREM FirmsApart == Spec => []OthersUntouched
  <1>1. Inv => OthersUntouched
    BY DEF Inv
  <1> QED BY <1>1, InvAlways, PTL

\* The history a client carries through screens, saves, documents and
\* transfers explains its value, and no document replaces what a person
\* typed, unless a document was checked against a field that changed before
\* it was written (normalize_client_profile, update_client_record).
THEOREM HistoryIsTold == Spec => []HistoryExplains
  <1>1. Inv => HistoryExplains
    BY DEF Inv, HistoryKept, Told, HistoryExplains
  <1> QED BY <1>1, InvAlways, PTL

\* A transfer code makes one copy of its client for the claim that settles
\* and one for each claim that a crash cut off, and none when it expires or
\* is revoked (claim_transfer).
THEOREM ClaimsCounted == Spec => []ClaimsAccounted
  <1>1. Inv => ClaimsAccounted
    BY DEF Inv, CodeHeld
  <1> QED BY <1>1, InvAlways, PTL
=============================================================================
