------------------------- MODULE AuditLinks_proofs -------------------------
(***************************************************************************)
(* Theorems about AuditLinks for every number of versions, tasks, clicks   *)
(* and posts and every order of answers: its types, that "saving" is never *)
(* shown without a post, and that the history panel ends on a version that *)
(* the server holds, if there is one.  And, as long as no list was posted  *)
(* behind another request, that a link is stored with its own version and  *)
(* stays there, and that the screen shows the stored links once all is     *)
(* answered.                                                               *)
(*                                                                         *)
(* That the panel shows a version of the server is not inductive.  While a *)
(* step or a deletion is under way the panel, and a list that was read     *)
(* meanwhile, may be wrong in every way; what saves them is that no step   *)
(* ends without the list being asked for once more (Fresh), and that every *)
(* new list moves the index to a version of its own (Settles).  Counted    *)
(* and Faithful, further down, are what holds besides while nothing is     *)
(* disturbed.                                                              *)
(***************************************************************************)
EXTENDS AuditLinks, SequenceTheorems, WellFoundedInduction, TLAPS

HistoryOK ==
    /\ rows \in Rows /\ newest \in Versions /\ asked \in 0..MaxTasks
    /\ open \in BOOLEAN /\ history \in Seq(Entries) /\ shown \in Nat \ {0}
    /\ reload \in [rows : Lists \cup {Nothing}] \cup {Nothing}
    /\ tasks \subseteq Task /\ busy \in Versions \cup {Nothing} /\ missed \in BOOLEAN

LinksOK ==
    /\ server \in [Versions -> SUBSET Link]
    /\ links \subseteq Link
    /\ point \in Sides \cup {Nothing}
    /\ status \in {"idle", "saving", "saved", "error"}
    /\ clicks \subseteq Click
    /\ load \in Load \cup {Nothing}
    /\ posts \subseteq Post
    /\ clicked \in 0..MaxClicks /\ posted \in 0..MaxPosts
    /\ disturbed \in BOOLEAN
    /\ SavingHasPost

Inv == HistoryOK /\ LinksOK

linkVars == <<server, links, point, status, clicks, load, posts, clicked, posted, disturbed>>

USE BoundsAreNatural, EntriesDiffer

LEMMA HistoryStays == ASSUME HistoryOK, UNCHANGED historyVars PROVE HistoryOK'
  BY DEF HistoryOK, historyVars, panel, listing

LEMMA LinksStay == ASSUME LinksOK, UNCHANGED linkVars PROVE LinksOK'
  BY DEF LinksOK, linkVars, SavingHasPost

-----------------------------------------------------------------------------
(* The helpers *)

HasVersion(h) == \E i \in 1..Len(h) : IsVersion(h[i])

\* A set of numbers that is not empty has a least one, which Min chooses
LEMMA MinFits ==
  ASSUME NEW I \in SUBSET Nat, I # {}
  PROVE  Min(I) \in I
  <1>1. PICK m \in I : \A y \in I : ~ (<<y, m>> \in OpToRel(<, Nat))
    BY WFMin, NatLessThanWellFounded
  <1>2. \A y \in I : m <= y
    <2> SUFFICES ASSUME NEW y \in I PROVE m <= y
      OBVIOUS
    <2>1. ~ (y < m)
      BY <1>1 DEF OpToRel
    <2> QED BY <2>1
  <1> QED BY <1>2 DEF Min

\* The latest version of a list that has one is in it
LEMMA LatestFits ==
  ASSUME NEW h, Len(h) \in Nat, HasVersion(h)
  PROVE  LatestIdx(h) \in 1..Len(h) /\ IsVersion(h[LatestIdx(h)])
  <1> DEFINE I == {i \in 1..Len(h) : IsVersion(h[i])}
  <1>1. I \in SUBSET Nat /\ I # {}
    BY DEF HasVersion
  <1>2. LatestIdx(h) = Min(I)
    BY <1>1 DEF LatestIdx, SelectInSeq, HasVersion
  <1>3. Min(I) \in I
    BY <1>1, MinFits
  <1> QED BY <1>2, <1>3

LEMMA LatestIsNat == ASSUME NEW h, Len(h) \in Nat PROVE LatestIdx(h) \in Nat
  <1>1. CASE HasVersion(h)
    BY <1>1, LatestFits
  <1>2. CASE ~HasVersion(h)
    BY <1>2 DEF LatestIdx, HasVersion
  <1> QED BY <1>1, <1>2

\* A list of the server is a history
LEMMA ListsFit == Lists \subseteq Seq(Entries) /\ \A r \in Lists : Len(r) \in Nat
  <1>1. Versions \cup Marks \subseteq Entries
    BY DEF Entries
  <1> QED BY <1>1 DEF Lists

LEMMA EntryFits == ASSUME NEW h \in Seq(Entries), NEW i PROVE EntryAt(h, i) \in Entries
  BY ElementOfSeq DEF EntryAt, Entries

\* Showing an entry of a list keeps the types
LEMMA ShowFits ==
  ASSUME NEW h \in Seq(Entries), NEW i \in Nat \ {0},
         load \in Load \cup {Nothing},
         ShowEntry(h, i)
  PROVE  /\ history' = h /\ shown' \in Nat \ {0} /\ shown' = Settled(h, i)
         /\ links' = links /\ load' \in Load \cup {Nothing}
  <1>0. Len(h) \in Nat
    BY LenProperties
  <1> DEFINE j == Settled(h, i)
  <1>1. history' = h /\ shown' = j /\ links' = links
    BY DEF ShowEntry
  <1>2. j \in Nat \ {0}
    BY <1>0, LatestIsNat DEF Settled
  <1>3. EntryAt(h, j) \in Entries
    BY EntryFits
  <1>4. [entry |-> EntryAt(h, j), got |-> {}, answered |-> FALSE] \in Load
    BY <1>3 DEF Load
  <1>5. load' = load \/ load' = [entry |-> EntryAt(h, j), got |-> {}, answered |-> FALSE]
    BY DEF ShowEntry
  <1> QED BY <1>1, <1>2, <1>4, <1>5

\* The index is moved to a version of the list, if it has one
LEMMA SettledFits ==
  ASSUME NEW h, Len(h) \in Nat, NEW i \in Nat \ {0}, HasVersion(h)
  PROVE  Settled(h, i) \in 1..Len(h) /\ h[Settled(h, i)] # Meta
  <1>1. LatestIdx(h) \in 1..Len(h) /\ IsVersion(h[LatestIdx(h)])
    BY LatestFits
  <1>2. CASE i > Len(h) \/ h[i] = Meta
    BY <1>1, <1>2 DEF Settled, IsVersion
  <1>3. CASE ~(i > Len(h) \/ h[i] = Meta)
    BY <1>3 DEF Settled
  <1> QED BY <1>2, <1>3

\* Posting a list, or not for the initial entry
LEMMA PersistFits ==
  ASSUME LinksOK, NEW e \in Entries, NEW list \in SUBSET Link, Persist(e, list)
  PROVE  /\ posts' \subseteq Post /\ posted' \in 0..MaxPosts /\ disturbed' \in BOOLEAN
         /\ status' \in {"idle", "saving", "saved", "error"}
         /\ status' = "saving" => posts' # {}
  <1> DEFINE p == [n |-> posted + 1, entry |-> e, links |-> list, stored |-> FALSE]
  <1>1. CASE HasEndpoint(e)
    <2>1. /\ posted < MaxPosts /\ posted' = posted + 1 /\ posts' = posts \cup {p}
          /\ status' = "saving" /\ disturbed' \in BOOLEAN
      BY <1>1 DEF Persist
    <2>2. p \in Post
      BY <2>1 DEF Post, LinksOK
    <2> HIDE DEF p
    <2> QED BY <2>1, <2>2 DEF LinksOK
  <1>2. CASE ~HasEndpoint(e)
    BY <1>2 DEF Persist, LinksOK, SavingHasPost
  <1> QED BY <1>1, <1>2

\* A list and its members
LEMMA MembersAre ==
  ASSUME NEW S, NEW s \in Seq(S), NEW e
  PROVE  e \in ToSet(s) <=> \E i \in 1..Len(s) : s[i] = e
  BY LenProperties DEF ToSet

\* An entry in front of a list
LEMMA ConsIs ==
  ASSUME NEW S, NEW s \in Seq(S), NEW e \in S
  PROVE  LET r == <<e>> \o s
         IN  /\ r \in Seq(S) /\ Len(r) = Len(s) + 1 /\ Len(s) \in Nat
             /\ r[1] = e /\ \A i \in 1..Len(s) : r[i + 1] = s[i]
  <1> DEFINE r == <<e>> \o s
  <1>1. <<e>> \in Seq(S) /\ Len(<<e>>) = 1 /\ <<e>>[1] = e
    OBVIOUS
  <1>2. Len(s) \in Nat
    BY LenProperties
  <1>3. /\ r \in Seq(S) /\ Len(r) = 1 + Len(s)
        /\ \A i \in 1..(1 + Len(s)) : r[i] = IF i <= 1 THEN <<e>>[i] ELSE s[i - 1]
    BY <1>1, ConcatProperties
  <1> HIDE DEF r
  <1>4. r[1] = e
    <2>1. 1 \in 1..(1 + Len(s)) /\ 1 <= 1
      BY <1>2
    <2>2. r[1] = <<e>>[1]
      BY <1>3, <2>1, Zenon
    <2> QED BY <1>1, <2>2
  <1>5. ASSUME NEW i \in 1..Len(s) PROVE r[i + 1] = s[i]
    <2>1. i + 1 \in 1..(1 + Len(s)) /\ ~(i + 1 <= 1) /\ (i + 1) - 1 = i
      BY <1>2
    <2> QED BY <1>3, <2>1
  <1>6. Len(r) = Len(s) + 1
    BY <1>2, <1>3
  <1> QED BY <1>2, <1>3, <1>4, <1>5, <1>6 DEF r

\* The server's list with an event in front instead of the version at place i:
\* every other entry is still there, and comes from a place of its own
LEMMA RemoveIs ==
  ASSUME rows \in Rows, NEW i \in 1..Len(rows)
  PROVE  LET r == <<Meta>> \o RemoveAt(rows, i)
             From(j) == IF j - 1 < i THEN j - 1 ELSE j
         IN  /\ r \in Rows /\ Len(r) = Len(rows) /\ r[1] = Meta
             /\ \A j \in 2..Len(r) : /\ From(j) \in 1..Len(rows) /\ From(j) # i
                                     /\ r[j] = rows[From(j)]
  <1> DEFINE S == Versions \cup {Meta}
             a == SubSeq(rows, 1, i - 1)
             b == SubSeq(rows, i + 1, Len(rows))
             ab == RemoveAt(rows, i)
             r == <<Meta>> \o ab
             From(j) == IF j - 1 < i THEN j - 1 ELSE j
  <1>1. rows \in Seq(S) /\ Len(rows) \in Nat
    BY LenProperties DEF Rows
  <1>2. a \in Seq(S) /\ Len(a) = i - 1 /\ \A j \in 1..(i - 1) : a[j] = rows[j]
    <2>1. \A j \in 1..(i - 1) : rows[j] \in S
      BY <1>1, ElementOfSeq
    <2>2. /\ a \in Seq(S) /\ Len(a) = IF 1 <= i - 1 THEN (i - 1) - 1 + 1 ELSE 0
          /\ \A j \in 1..((i - 1) - 1 + 1) : a[j] = rows[1 + j - 1]
      BY <1>1, <2>1, SubSeqProperties
    <2> QED BY <2>2
  <1>3. b \in Seq(S) /\ Len(b) = Len(rows) - i /\ \A j \in 1..(Len(rows) - i) : b[j] = rows[i + j]
    <2>1. \A j \in (i + 1)..Len(rows) : rows[j] \in S
      BY <1>1, ElementOfSeq
    <2>2. /\ b \in Seq(S)
          /\ Len(b) = IF i + 1 <= Len(rows) THEN Len(rows) - (i + 1) + 1 ELSE 0
          /\ \A j \in 1..(Len(rows) - (i + 1) + 1) : b[j] = rows[(i + 1) + j - 1]
      BY <1>1, <2>1, SubSeqProperties
    <2> HIDE DEF b
    <2>3. Len(b) = Len(rows) - i /\ \A j \in 1..(Len(rows) - i) : b[j] = rows[i + j]
      BY <1>1, <2>2
    <2> QED BY <2>2, <2>3
  <1>4. ab = a \o b
    BY DEF RemoveAt
  <1>41. a \in Seq(S) /\ b \in Seq(S)
    BY <1>2, <1>3
  <1> HIDE DEF a, b, ab
  <1>5. /\ ab \in Seq(S) /\ Len(ab) = Len(a) + Len(b)
        /\ \A j \in 1..(Len(a) + Len(b)) : ab[j] = IF j <= Len(a) THEN a[j] ELSE b[j - Len(a)]
    BY <1>4, <1>41, ConcatProperties
  <1>6. Len(ab) = Len(rows) - 1
    BY <1>1, <1>2, <1>3, <1>5
  <1>7. ASSUME NEW j \in 1..Len(ab) PROVE ab[j] = IF j < i THEN rows[j] ELSE rows[j + 1]
    <2>1. j \in 1..(Len(a) + Len(b)) /\ Len(a) = i - 1 /\ Len(b) = Len(rows) - i
      BY <1>2, <1>3, <1>5
    <2>2. CASE j < i
      BY <1>1, <1>2, <1>5, <2>1, <2>2
    <2>3. CASE ~(j < i)
      <3>1. j - Len(a) = j - i + 1 /\ j - i + 1 \in 1..(Len(rows) - i) /\ ~(j <= Len(a))
            /\ i + (j - i + 1) = j + 1
        BY <1>1, <1>6, <2>1, <2>3
      <3> QED BY <1>3, <1>5, <2>1, <2>3, <3>1
    <2> QED BY <2>2, <2>3
  <1>8. /\ r \in Seq(S) /\ Len(r) = Len(ab) + 1 /\ r[1] = Meta
        /\ \A j \in 1..Len(ab) : r[j + 1] = ab[j]
    BY <1>5, ConsIs
  <1> HIDE DEF r
  <1>9. Len(r) = Len(rows)
    BY <1>1, <1>6, <1>8
  <1>10. ASSUME NEW j \in 2..Len(r)
         PROVE  From(j) \in 1..Len(rows) /\ From(j) # i /\ r[j] = rows[From(j)]
    <2>1. j - 1 \in 1..Len(ab) /\ (j - 1) + 1 = j
      BY <1>1, <1>6, <1>9
    <2>2. r[j] = IF j - 1 < i THEN rows[j - 1] ELSE rows[j]
      BY <1>7, <1>8, <2>1
    <2>3. From(j) \in 1..Len(rows) /\ From(j) # i
      BY <1>1, <1>9
    <2> QED BY <2>2, <2>3
  <1> QED BY <1>8, <1>9, <1>10 DEF r, ab, Rows


\* A list of the server is its rows; without a version it has an event besides
LEMMA ListedFits ==
  ASSUME rows \in Rows, NEW list \in Listed
  PROVE  /\ list \in Lists
         /\ \A i \in 1..Len(list) : \/ \E j \in 1..Len(rows) : list[i] = rows[j]
                                    \/ list[i] = Event /\ Held = {}
         /\ \A e : e \in ToSet(list) => e \in ToSet(rows) \/ (e = Event /\ Held = {})
  <1> DEFINE S == Versions \cup Marks
  <1>1. rows \in Seq(S) /\ Len(rows) \in Nat /\ Event \in S /\ Lists = Seq(S)
    <2>1. Versions \cup {Meta} \subseteq S
      BY DEF Marks
    <2> QED BY <2>1, LenProperties DEF Rows, Lists, Marks
  <1>2. /\ list \in Lists
        /\ \A i \in 1..Len(list) : \/ \E j \in 1..Len(rows) : list[i] = rows[j]
                                   \/ list[i] = Event /\ Held = {}
    <2>1. CASE list = rows
      BY <1>1, <2>1
    <2>2. CASE Held = {} /\ list = <<Event>> \o rows
      <3>1. /\ list \in Seq(S) /\ Len(list) = Len(rows) + 1 /\ list[1] = Event
            /\ \A i \in 1..Len(rows) : list[i + 1] = rows[i]
        BY <1>1, <2>2, ConsIs
      <3>2. ASSUME NEW i \in 1..Len(list), i # 1
            PROVE  i - 1 \in 1..Len(rows) /\ list[i] = rows[i - 1]
        <4>1. i - 1 \in 1..Len(rows) /\ (i - 1) + 1 = i
          BY <1>1, <3>1, <3>2
        <4> QED BY <3>1, <4>1
      <3> QED BY <1>1, <2>2, <3>1, <3>2
    <2>3. CASE Held = {} /\ list = Append(rows, Event)
      <3>1. /\ list \in Seq(S) /\ Len(list) = Len(rows) + 1 /\ list[Len(rows) + 1] = Event
            /\ \A i \in 1..Len(rows) : list[i] = rows[i]
        BY <1>1, <2>3, AppendProperties
      <3>2. \A i \in 1..Len(list) : i = Len(rows) + 1 \/ i \in 1..Len(rows)
        BY <1>1, <3>1
      <3> QED BY <1>1, <2>3, <3>1, <3>2
    <2> QED BY <2>1, <2>2, <2>3 DEF Listed
  <1>3. ASSUME NEW e, e \in ToSet(list)
        PROVE  e \in ToSet(rows) \/ (e = Event /\ Held = {})
    <2>1. PICK i \in 1..Len(list) : list[i] = e
      BY <1>1, <1>2, <1>3, MembersAre
    <2>2. CASE \E j \in 1..Len(rows) : list[i] = rows[j]
      BY <1>1, <2>1, <2>2, MembersAre
    <2> QED BY <1>2, <2>1, <2>2
  <1> QED BY <1>2, <1>3

\* Another version in front
LEMMA NewVersionFits ==
  ASSUME HistoryOK, NewVersion
  PROVE  /\ rows' \in Rows /\ newest' \in Versions /\ server' = server
         /\ \A e : e \in ToSet(rows') <=> e \in ToSet(rows) \/ e = newest + 1
  <1> DEFINE S == Versions \cup {Meta}
  <1>1. rows \in Seq(S) /\ newest + 1 \in S /\ newest + 1 \in Versions
    BY DEF HistoryOK, Rows, Versions, NewVersion
  <1>2. newest' = newest + 1 /\ rows' = <<newest + 1>> \o rows /\ server' = server
    BY DEF NewVersion
  <1>3. /\ rows' \in Seq(S) /\ Len(rows') = Len(rows) + 1 /\ Len(rows) \in Nat
        /\ rows'[1] = newest + 1 /\ \A i \in 1..Len(rows) : rows'[i + 1] = rows[i]
    BY <1>1, <1>2, ConsIs
  <1>4. ASSUME NEW j \in 1..Len(rows')
        PROVE  j = 1 \/ (j - 1 \in 1..Len(rows) /\ rows'[j] = rows[j - 1])
    <2>1. CASE j # 1
      <3>1. j - 1 \in 1..Len(rows) /\ (j - 1) + 1 = j
        BY <1>3, <2>1
      <3> QED BY <1>3, <3>1
    <2> QED BY <2>1
  <1>5. ASSUME NEW e PROVE e \in ToSet(rows') <=> e \in ToSet(rows) \/ e = newest + 1
    <2>1. e \in ToSet(rows) <=> \E i \in 1..Len(rows) : rows[i] = e
      BY <1>1, MembersAre
    <2>2. e \in ToSet(rows') <=> \E i \in 1..Len(rows') : rows'[i] = e
      BY <1>3, MembersAre
    <2>3. 1 \in 1..Len(rows') /\ \A i \in 1..Len(rows) : i + 1 \in 1..Len(rows')
      BY <1>3
    <2> QED BY <1>3, <1>4, <2>1, <2>2, <2>3
  <1> QED BY <1>1, <1>2, <1>3, <1>5 DEF Rows

\* A version less
LEMMA RemoveVersionFits ==
  ASSUME Inv, NEW v, RemoveVersion(v)
  PROVE  rows' \in Rows /\ newest' = newest /\ server' \in [Versions -> SUBSET Link]
  <1>1. PICK i \in 1..Len(rows) : rows' = <<Meta>> \o RemoveAt(rows, i)
    BY DEF RemoveVersion
  <1>2. rows \in Rows
    BY DEF Inv, HistoryOK
  <1>3. rows' \in Rows
    BY <1>1, <1>2, RemoveIs
  <1> QED BY <1>3 DEF RemoveVersion, Inv, LinksOK

-----------------------------------------------------------------------------
(* The history *)

LEMMA InvInit == Init => Inv
  <1> SUFFICES ASSUME Init PROVE Inv
    OBVIOUS
  <1>1. rows = <<1>> /\ rows \in Rows /\ newest = 1 /\ 1 \in Versions
    BY DEF Init, Rows, Versions
  <1>2. history = <<Initial>> /\ history \in Seq(Entries)
    BY DEF Init, Entries
  <1>3. HistoryOK
    <2>1. reload \in [rows : Lists \cup {Nothing}] /\ asked \in 0..MaxTasks /\ tasks \subseteq Task
      BY DEF Init
    <2>2. open \in BOOLEAN /\ missed \in BOOLEAN /\ busy = Nothing /\ shown = 1
      BY DEF Init
    <2> QED BY <1>1, <1>2, <2>1, <2>2 DEF HistoryOK
  <1>4. LinksOK
    <2>1. server \in [Versions -> SUBSET Link]
      BY DEF Init
    <2>2. clicked \in 0..MaxClicks /\ posted \in 0..MaxPosts
      BY DEF Init
    <2>3. links \subseteq Link /\ clicks \subseteq Click /\ posts \subseteq Post
      BY DEF Init
    <2>4. status = "idle" /\ point = Nothing /\ load = Nothing /\ disturbed = FALSE
      BY DEF Init
    <2> QED BY <2>1, <2>2, <2>3, <2>4 DEF LinksOK, SavingHasPost
  <1> QED BY <1>3, <1>4 DEF Inv

\* A new list in the panel: what remains to be shown is about the variables
\* beside it
LEMMA ShowKeeps ==
  ASSUME Inv, NEW h \in Seq(Entries), NEW i \in Nat \ {0}, ShowEntry(h, i),
         UNCHANGED <<rows, server, status, posts, newest, open, clicks, clicked, posted,
                     disturbed>>,
         point' \in Sides \cup {Nothing}, asked' \in 0..MaxTasks,
         reload' \in {reload, Nothing, [rows |-> Nothing]},
         tasks' \subseteq Task, busy' \in Versions \cup {Nothing}, missed' \in BOOLEAN
  PROVE  Inv'
  <1>1. /\ history' = h /\ shown' \in Nat \ {0} /\ links' = links
        /\ load' \in Load \cup {Nothing}
    BY ShowFits DEF Inv, LinksOK
  <1>2. reload' \in [rows : Lists \cup {Nothing}] \cup {Nothing}
    BY DEF Inv, HistoryOK
  <1>3. HistoryOK'
    BY <1>1, <1>2 DEF Inv, HistoryOK
  <1>4. LinksOK'
    BY <1>1 DEF Inv, LinksOK, SavingHasPost
  <1> QED BY <1>3, <1>4 DEF Inv

LEMMA PickKeeps == ASSUME Inv, NEW i \in 1..Len(history), PickVersion(i) PROVE Inv'
  <1>1. /\ history \in Seq(Entries) /\ i \in Nat \ {0} /\ ShowEntry(history, i)
        /\ UNCHANGED <<rows, server, status, posts, newest, open, clicks, clicked, posted,
                       disturbed>>
        /\ UNCHANGED <<point, asked, reload, tasks, busy, missed>>
    BY LenProperties DEF Inv, HistoryOK, PickVersion, counters, listing
  <1>2. /\ point' \in Sides \cup {Nothing} /\ asked' \in 0..MaxTasks /\ tasks' \subseteq Task
        /\ busy' \in Versions \cup {Nothing} /\ missed' \in BOOLEAN
    BY <1>1 DEF Inv, HistoryOK, LinksOK
  <1> QED BY <1>1, <1>2, ShowKeeps

LEMMA RefreshKeeps == ASSUME Inv, Refresh PROVE Inv'
  <1>1. LinksOK'
    BY LinksStay DEF Inv, Refresh, linkVars, drawing
  <1>2. /\ reload' \in [rows : Lists \cup {Nothing}] /\ missed' = FALSE /\ asked' \in 0..MaxTasks
        /\ UNCHANGED <<rows, newest, open, history, shown, tasks, busy>>
    BY DEF Inv, HistoryOK, Refresh, Restart, panel
  <1>3. HistoryOK'
    BY <1>2 DEF Inv, HistoryOK
  <1> QED BY <1>1, <1>3 DEF Inv

LEMMA RefreshServedKeeps == ASSUME Inv, RefreshServed PROVE Inv'
  <1>1. LinksOK'
    BY LinksStay DEF Inv, RefreshServed, linkVars, drawing, counters
  <1>2. PICK list \in Listed : reload' = [rows |-> list]
    BY DEF RefreshServed
  <1>3. list \in Lists
    BY ListedFits DEF Inv, HistoryOK
  <1>4. HistoryOK'
    BY <1>2, <1>3 DEF Inv, HistoryOK, RefreshServed, counters, panel
  <1> QED BY <1>1, <1>4 DEF Inv

LEMMA RefreshReturnsKeeps == ASSUME Inv, RefreshReturns PROVE Inv'
  <1>1. /\ reload.rows \in Lists /\ shown \in Nat \ {0}
    BY DEF Inv, HistoryOK, RefreshReturns
  <1>2. /\ ShowEntry(reload.rows, shown)
        /\ UNCHANGED <<rows, server, status, posts, newest, open, clicks, clicked, posted,
                       disturbed>>
        /\ UNCHANGED <<point, asked, tasks, busy, missed>> /\ reload' = Nothing
    BY DEF RefreshReturns, counters
  <1>3. /\ point' \in Sides \cup {Nothing} /\ asked' \in 0..MaxTasks /\ tasks' \subseteq Task
        /\ busy' \in Versions \cup {Nothing} /\ missed' \in BOOLEAN
    BY <1>2 DEF Inv, HistoryOK, LinksOK
  <1> DEFINE h == reload.rows
  <1>4. h \in Seq(Entries) /\ ShowEntry(h, shown)
    BY <1>1, <1>2, ListsFit
  <1> HIDE DEF h
  <1> QED BY <1>1, <1>2, <1>3, <1>4, ShowKeeps

LEMMA RefreshFailsKeeps == ASSUME Inv, RefreshFails PROVE Inv'
  <1>1. LinksOK'
    BY LinksStay DEF Inv, RefreshFails, linkVars, drawing, counters
  <1>2. HistoryOK'
    BY DEF Inv, HistoryOK, RefreshFails, counters, panel
  <1> QED BY <1>1, <1>2 DEF Inv

LEMMA WorkflowKeeps == ASSUME Inv, NEW k \in {"save", "event"}, WorkflowStep(k) PROVE Inv'
  <1> DEFINE h == <<Phantom>> \o history
             t == [n |-> asked + 1, kind |-> k, ver |-> Nothing,
                   phase |-> IF k = "save" THEN "asked" ELSE "done", rows |-> <<>>]
  <1>1. history \in Seq(Entries) /\ Phantom \in Entries
    BY DEF Inv, HistoryOK, Entries
  <1>2. h \in Seq(Entries)
    BY <1>1, ConsIs
  <1>3. /\ ShowEntry(h, 1) /\ tasks' = tasks \cup {t} /\ asked' = asked + 1 /\ asked < MaxTasks
        /\ UNCHANGED <<rows, server, status, posts, newest, open, clicks, clicked, posted,
                       disturbed>>
        /\ UNCHANGED <<point, reload, busy, missed>>
    BY DEF WorkflowStep
  <1>4. t \in Task
    <2>1. asked + 1 \in 1..MaxTasks
      BY <1>3 DEF Inv, HistoryOK
    <2> QED BY <2>1 DEF Task, Lists
  <1> HIDE DEF h, t
  <1>5. /\ point' \in Sides \cup {Nothing} /\ asked' \in 0..MaxTasks /\ tasks' \subseteq Task
        /\ busy' \in Versions \cup {Nothing} /\ missed' \in BOOLEAN /\ 1 \in Nat \ {0}
    BY <1>3, <1>4 DEF Inv, HistoryOK, LinksOK
  <1> QED BY <1>2, <1>3, <1>5, ShowKeeps

LEMMA DeleteKeeps == ASSUME Inv, NEW i \in 1..Len(history), DeleteVersion(i) PROVE Inv'
  <1> DEFINE t == [n |-> asked + 1, kind |-> "delete", ver |-> history[i],
                   phase |-> "asked", rows |-> <<>>]
  <1>1. LinksOK'
    BY LinksStay DEF Inv, DeleteVersion, linkVars, drawing
  <1>2. /\ UNCHANGED <<rows, newest, open, history, shown, reload, missed>>
        /\ history[i] \in Versions /\ asked' = asked + 1 /\ asked < MaxTasks
        /\ tasks' = tasks \cup {t} /\ busy' = history[i]
    BY DEF DeleteVersion, panel
  <1>3. t \in Task
    <2>1. asked + 1 \in 1..MaxTasks
      BY <1>2 DEF Inv, HistoryOK
    <2> QED BY <1>2, <2>1 DEF Task, Lists
  <1> HIDE DEF t
  <1>4. HistoryOK'
    BY <1>2, <1>3 DEF Inv, HistoryOK
  <1> QED BY <1>1, <1>4 DEF Inv

-----------------------------------------------------------------------------
(* Tasks *)

\* A task in another phase is a task
LEMMA MovedFits ==
  ASSUME HistoryOK, NEW t \in tasks,
         NEW phase \in {"asked", "stored", "done", "listed", "fetching"}, Moved(t, phase)
  PROVE  tasks' \subseteq Task
  <1>1. t \in Task
    BY DEF HistoryOK
  <1>2. [t EXCEPT !.phase = phase] \in Task
    BY <1>1 DEF Task
  <1> QED BY <1>2 DEF Moved, HistoryOK

LEMMA TaskServedKeeps == ASSUME Inv, NEW t \in tasks, TaskServed(t) PROVE Inv'
  <1>1. /\ tasks' \subseteq Task
        /\ UNCHANGED <<open, history, shown, reload, busy, missed, asked>>
        /\ UNCHANGED <<links, point, status, clicks, load, posts, clicked, posted, disturbed>>
    BY MovedFits DEF TaskServed, counters, panel, drawing, Inv
  <1>2. /\ rows' \in Rows /\ newest' \in Versions /\ server' \in [Versions -> SUBSET Link]
    <2>1. CASE NewVersion
      BY <2>1, NewVersionFits DEF Inv, LinksOK
    <2>2. CASE RemoveVersion(t.ver)
      BY <2>2, RemoveVersionFits DEF Inv, HistoryOK
    <2> QED BY <2>1, <2>2 DEF TaskServed
  <1>3. HistoryOK'
    BY <1>1, <1>2 DEF Inv, HistoryOK
  <1>4. LinksOK'
    BY <1>1, <1>2 DEF Inv, LinksOK, SavingHasPost
  <1> QED BY <1>3, <1>4 DEF Inv

LEMMA TaskAnsweredKeeps == ASSUME Inv, NEW t \in tasks, TaskAnswered(t) PROVE Inv'
  <1>1. LinksOK'
    BY LinksStay DEF Inv, TaskAnswered, linkVars, drawing, counters
  <1>2. tasks' \subseteq Task
    BY MovedFits DEF TaskAnswered, Inv
  <1>3. HistoryOK'
    BY <1>2 DEF Inv, HistoryOK, TaskAnswered, Restart, counters, panel
  <1> QED BY <1>1, <1>3 DEF Inv

LEMMA TaskListedKeeps == ASSUME Inv, NEW t \in tasks, TaskListed(t) PROVE Inv'
  <1>1. PICK list \in Listed :
            tasks' = (tasks \ {t}) \cup {[t EXCEPT !.phase = "listed", !.rows = list]}
    BY DEF TaskListed
  <1>2. list \in Lists /\ t \in Task
    BY ListedFits DEF Inv, HistoryOK
  <1>3. [t EXCEPT !.phase = "listed", !.rows = list] \in Task
    BY <1>2 DEF Task
  <1>4. LinksOK'
    BY LinksStay DEF Inv, TaskListed, linkVars, drawing, counters
  <1>5. HistoryOK'
    BY <1>1, <1>3 DEF Inv, HistoryOK, TaskListed, counters, panel
  <1> QED BY <1>4, <1>5 DEF Inv

LEMMA CloseKeeps ==
  ASSUME Inv, NEW t \in tasks, Close(t),
         UNCHANGED <<rows, server, status, posts, newest, counters, disturbed>>
  PROVE  Inv'
  <1>1. t.rows \in Seq(Entries)
    BY ListsFit DEF Inv, HistoryOK, Task
  <1>2. /\ history' \in Seq(Entries) /\ shown' = 1 /\ reload' = Nothing /\ tasks' = {}
        /\ open' = FALSE /\ busy' = Nothing /\ UNCHANGED <<rows, newest, asked, missed>>
    BY <1>1 DEF Close, counters
  <1>3. HistoryOK'
    <2>1. /\ rows' \in Rows /\ newest' \in Versions /\ asked' \in 0..MaxTasks
          /\ missed' \in BOOLEAN /\ shown' \in Nat \ {0} /\ tasks' \subseteq Task
      BY <1>2 DEF Inv, HistoryOK
    <2> QED BY <1>2, <2>1 DEF HistoryOK
  <1>4. LinksOK'
    BY DEF Inv, LinksOK, Close, counters, SavingHasPost
  <1> QED BY <1>3, <1>4 DEF Inv

LEMMA TaskReturnsKeeps == ASSUME Inv, NEW t \in tasks, TaskReturns(t) PROVE Inv'
  <1>0. UNCHANGED <<rows, server, status, posts, newest, counters, disturbed>>
    BY DEF TaskReturns
  <1>1. CASE LastDeleted(t)
    BY <1>0, <1>1, CloseKeeps DEF TaskReturns
  <1>2. CASE ~LastDeleted(t)
    <2> DEFINE h == t.rows
    <2>1. ListShown(t) /\ Restart
      BY <1>2 DEF TaskReturns
    <2>2. h \in Seq(Entries) /\ ShowEntry(h, shown)
      BY <2>1, ListsFit DEF ListShown, Inv, HistoryOK, Task
    <2>3. tasks' \subseteq Task
      BY <2>1, MovedFits DEF ListShown, Inv, HistoryOK
    <2>4. /\ shown \in Nat \ {0} /\ point' \in Sides \cup {Nothing} /\ asked' \in 0..MaxTasks
          /\ busy' \in Versions \cup {Nothing} /\ missed' \in BOOLEAN
          /\ reload' = [rows |-> Nothing] /\ UNCHANGED <<open, clicks, clicked, posted>>
      BY <1>0, <2>1 DEF ListShown, Restart, Inv, HistoryOK, LinksOK, counters
    <2> HIDE DEF h
    <2> QED BY <1>0, <2>2, <2>3, <2>4, ShowKeeps
  <1> QED BY <1>1, <1>2

LEMMA FileFetchedKeeps == ASSUME Inv, NEW t \in tasks, FileFetched(t) PROVE Inv'
  <1> DEFINE i == IF LatestIdx(t.rows) = 0 THEN 1 ELSE LatestIdx(t.rows)
  <1>1. /\ ShowEntry(history, i) /\ history \in Seq(Entries) /\ tasks' \subseteq Task
        /\ Len(t.rows) \in Nat
    BY ListsFit DEF FileFetched, Inv, HistoryOK, Task
  <1>2. i \in Nat \ {0}
    BY <1>1, LatestIsNat
  <1> HIDE DEF i
  <1>3. /\ UNCHANGED <<rows, server, status, posts, newest, open, clicks, clicked, posted,
                       disturbed>>
        /\ point' \in Sides \cup {Nothing} /\ asked' \in 0..MaxTasks
        /\ reload' = [rows |-> Nothing] /\ missed' \in BOOLEAN /\ busy' \in Versions \cup {Nothing}
    BY DEF FileFetched, Restart, counters, Inv, HistoryOK, LinksOK
  <1> QED BY <1>1, <1>2, <1>3, ShowKeeps

LEMMA TaskFailsKeeps == ASSUME Inv, NEW t \in tasks, TaskFails(t) PROVE Inv'
  <1>1. LinksOK'
    BY LinksStay DEF Inv, TaskFails, linkVars, drawing, counters
  <1>2. HistoryOK'
    BY DEF Inv, HistoryOK, TaskFails, counters, panel
  <1> QED BY <1>1, <1>2 DEF Inv

LEMMA OthersKeep == ASSUME Inv, Others PROVE Inv'
  <1>1. CASE OtherSaves
    <2>1. rows' \in Rows /\ newest' \in Versions /\ server' = server
      BY <1>1, NewVersionFits DEF OtherSaves, Inv
    <2>2. HistoryOK'
      BY <1>1, <2>1 DEF Inv, HistoryOK, OtherSaves, panel, listing, counters
    <2>3. LinksOK'
      BY <1>1, <2>1, LinksStay DEF Inv, OtherSaves, linkVars, drawing, counters
    <2> QED BY <2>2, <2>3 DEF Inv
  <1>2. ASSUME NEW v \in Versions, OtherDeletes(v) PROVE Inv'
    <2>1. rows' \in Rows /\ newest' = newest /\ server' \in [Versions -> SUBSET Link]
      BY <1>2, RemoveVersionFits DEF OtherDeletes
    <2>2. HistoryOK'
      BY <1>2, <2>1 DEF Inv, HistoryOK, OtherDeletes, panel, counters
    <2>3. LinksOK'
      BY <1>2, <2>1 DEF Inv, LinksOK, OtherDeletes, drawing, counters, SavingHasPost
    <2> QED BY <2>2, <2>3 DEF Inv
  <1> QED BY <1>1, <1>2 DEF Others

-----------------------------------------------------------------------------
(* Links *)

LEMMA NewFileKeeps == ASSUME Inv, NewFile PROVE Inv'
  <1>0. UNCHANGED historyVars
    BY DEF NewFile
  <1>1. HistoryOK'
    BY <1>0, HistoryStays DEF Inv
  <1>2. LinksOK'
    BY DEF Inv, LinksOK, NewFile, counters, SavingHasPost
  <1> QED BY <1>1, <1>2 DEF Inv

LEMMA ActiveFits == ASSUME HistoryOK PROVE Active \in Entries
  BY EntryFits DEF HistoryOK, Active

LEMMA ClickKeeps == ASSUME Inv, NEW s \in Sides, ClickPoint(s) PROVE Inv'
  <1> DEFINE c == [n |-> clicked + 1, side |-> s, point |-> point, entry |-> Active]
  <1>1. HistoryOK'
    BY HistoryStays DEF Inv, ClickPoint
  <1>2. clicks' = clicks \cup {c} /\ clicked < MaxClicks /\ clicked' = clicked + 1
    BY DEF ClickPoint
  <1>3. Active \in Entries
    BY ActiveFits DEF Inv
  <1>4. c \in Click
    BY <1>2, <1>3 DEF Click, Inv, LinksOK
  <1> HIDE DEF c
  <1>5. LinksOK'
    BY <1>2, <1>4 DEF Inv, LinksOK, ClickPoint, SavingHasPost
  <1> QED BY <1>1, <1>5 DEF Inv

LEMMA FirstPointKeeps == ASSUME Inv, NEW c \in clicks, FirstPoint(c) PROVE Inv'
  <1>1. HistoryOK'
    BY HistoryStays DEF Inv, FirstPoint
  <1>2. c.side \in Sides
    BY DEF Inv, LinksOK, Click
  <1>3. LinksOK'
    BY <1>2 DEF Inv, LinksOK, FirstPoint, counters, SavingHasPost
  <1> QED BY <1>1, <1>3 DEF Inv

LEMMA SecondPointKeeps == ASSUME Inv, NEW c \in clicks, SecondPoint(c) PROVE Inv'
  <1>1. HistoryOK'
    BY HistoryStays DEF Inv, SecondPoint
  <1>2. c \in Click /\ [n |-> c.n, of |-> c.entry] \in Link
    BY DEF Inv, LinksOK, Click, Link
  <1>3. links' \in SUBSET Link /\ c.entry \in Entries /\ Persist(c.entry, links')
    BY <1>2 DEF SecondPoint, Inv, LinksOK, Click
  <1>4. /\ posts' \subseteq Post /\ posted' \in 0..MaxPosts /\ disturbed' \in BOOLEAN
        /\ status' \in {"idle", "saving", "saved", "error"}
        /\ status' = "saving" => posts' # {}
    BY <1>3, PersistFits DEF Inv
  <1>5. LinksOK'
    BY <1>3, <1>4 DEF Inv, LinksOK, SecondPoint, SavingHasPost
  <1> QED BY <1>1, <1>5 DEF Inv

LEMMA SaveLinksKeeps == ASSUME Inv, SaveLinks PROVE Inv'
  <1>1. HistoryOK'
    BY HistoryStays DEF Inv, SaveLinks
  <1>2. Active \in Entries /\ links \in SUBSET Link /\ Persist(Active, links)
    BY ActiveFits DEF Inv, LinksOK, SaveLinks
  <1>3. /\ posts' \subseteq Post /\ posted' \in 0..MaxPosts /\ disturbed' \in BOOLEAN
        /\ status' \in {"idle", "saving", "saved", "error"}
        /\ status' = "saving" => posts' # {}
    BY <1>2, PersistFits DEF Inv
  <1>4. LinksOK'
    BY <1>3 DEF Inv, LinksOK, SaveLinks, SavingHasPost
  <1> QED BY <1>1, <1>4 DEF Inv

LEMMA PostServedKeeps == ASSUME Inv, NEW p \in posts, PostServed(p) PROVE Inv'
  <1> DEFINE q == [p EXCEPT !.stored = TRUE]
  <1>1. HistoryOK'
    BY HistoryStays DEF Inv, PostServed
  <1>2. p \in Post /\ q \in Post /\ p.links \subseteq Link
    BY DEF Inv, LinksOK, Post
  <1>3. posts' = (posts \ {p}) \cup {q} /\ server' \in [Versions -> SUBSET Link]
    BY <1>2 DEF PostServed, Inv, LinksOK
  <1> HIDE DEF q
  <1>4. LinksOK'
    BY <1>2, <1>3 DEF Inv, LinksOK, PostServed, counters, SavingHasPost
  <1> QED BY <1>1, <1>4 DEF Inv

LEMMA PostEndsKeeps == ASSUME Inv, NEW p \in posts, PostReturns(p) \/ PostFails(p) PROVE Inv'
  <1>1. HistoryOK'
    BY HistoryStays DEF Inv, PostReturns, PostFails
  <1>2. LinksOK'
    BY DEF Inv, LinksOK, PostReturns, PostFails, counters, SavingHasPost
  <1> QED BY <1>1, <1>2 DEF Inv

LEMMA LoadServedKeeps == ASSUME Inv, LoadServed PROVE Inv'
  <1>1. HistoryOK'
    BY HistoryStays DEF Inv, LoadServed
  <1>2. load.entry \in Versions
    BY DEF LoadServed, Held
  <1>3. load' \in Load
    <2>1. load \in Load /\ server[load.entry] \subseteq Link
      BY <1>2 DEF LoadServed, Inv, LinksOK
    <2> QED BY <2>1 DEF LoadServed, Load
  <1>4. LinksOK'
    BY <1>3 DEF Inv, LinksOK, LoadServed, counters, SavingHasPost
  <1> QED BY <1>1, <1>4 DEF Inv

LEMMA LoadEndsKeeps == ASSUME Inv, LoadReturns \/ LoadFails PROVE Inv'
  <1>1. HistoryOK'
    BY HistoryStays DEF Inv, LoadReturns, LoadFails
  <1>2. load \in Load
    BY DEF Inv, LinksOK, LoadReturns, LoadFails
  <1>3. links' \subseteq Link
    BY <1>2 DEF LoadReturns, LoadFails, Load
  <1>4. LinksOK'
    BY <1>3 DEF Inv, LinksOK, LoadReturns, LoadFails, counters, SavingHasPost
  <1> QED BY <1>1, <1>4 DEF Inv

-----------------------------------------------------------------------------
(* The theorems *)

\* Every step keeps the invariant
LEMMA InvNext == Inv /\ [Next]_vars => Inv'
  <1> SUFFICES ASSUME Inv, [Next]_vars PROVE Inv'
    OBVIOUS
  <1>1. CASE User
    BY <1>1, PickKeeps, DeleteKeeps, WorkflowKeeps, ClickKeeps, RefreshKeeps, NewFileKeeps,
       SaveLinksKeeps DEF User
  <1>2. CASE Others
    BY <1>2, OthersKeep
  <1>3. CASE Posting
    BY <1>3, PostServedKeeps, PostEndsKeeps DEF Posting
  <1>4. CASE Hashing
    BY <1>4, FirstPointKeeps, SecondPointKeeps DEF Hashing
  <1>5. CASE Listing
    BY <1>5, RefreshServedKeeps, RefreshReturnsKeeps, RefreshFailsKeeps DEF Listing
  <1>6. CASE Loading
    BY <1>6, LoadServedKeeps, LoadEndsKeeps DEF Loading
  <1>7. CASE Progress
    BY <1>7, TaskServedKeeps, TaskAnsweredKeeps, TaskListedKeeps, TaskReturnsKeeps,
       FileFetchedKeeps, TaskFailsKeeps DEF Progress
  <1>8. CASE UNCHANGED vars
    <2>1. HistoryOK'
      BY <1>8, HistoryStays DEF Inv, vars, historyVars, counters
    <2>2. LinksOK'
      BY <1>8, LinksStay DEF Inv, vars, drawing, counters, linkVars
    <2> QED BY <2>1, <2>2 DEF Inv
  <1> QED BY <1>1, <1>2, <1>3, <1>4, <1>5, <1>6, <1>7, <1>8 DEF Next

\* In every behaviour the strengthened invariant holds
THEOREM ViewerInvariant == Spec => []Inv
  BY InvInit, InvNext, PTL DEF Spec

\* In every behaviour the variables have their types
THEOREM ViewerTyped == Spec => []TypeOK
  <1>1. Inv => TypeOK
    BY DEF Inv, HistoryOK, LinksOK, TypeOK
  <1> QED BY <1>1, ViewerInvariant, PTL

-----------------------------------------------------------------------------
(* The panel shows a version of the server                                  *)

\* The index is at a version whenever the panel has one
Settles == (open /\ HasVersion(history)) =>
               shown \in 1..Len(history) /\ history[shown] # Meta

\* The versions of a list are on the server, and events are not mixed with them
FromServer(h) == /\ ToSet(h) \subseteq Held \cup Marks
                 /\ Event \in ToSet(h) => ToSet(h) \subseteq Marks

\* Nothing but the file of a deletion is under way
Ended == \A t \in tasks : t.phase = "fetching"

\* Then the list that is being read is the server's, or else the panel's is
Fresh == (open /\ ~missed /\ Ended) =>
             IF reload = Nothing THEN FromServer(history)
                                 ELSE reload.rows # Nothing => FromServer(reload.rows)

Panel == Settles /\ Fresh

panelVars == <<rows, open, history, shown, reload, tasks, missed>>

LEMMA PanelStays == ASSUME Panel, UNCHANGED panelVars PROVE Panel'
  BY DEF Panel, Settles, Fresh, FromServer, Held, Ended, HasVersion, panelVars

\* A new list settles the index
LEMMA ShowSettles ==
  ASSUME Inv, NEW h \in Seq(Entries), NEW i \in Nat \ {0}, ShowEntry(h, i)
  PROVE  Settles'
  <1>1. Len(h) \in Nat /\ history' = h /\ shown' = Settled(h, i)
    BY LenProperties DEF ShowEntry
  <1>2. HasVersion(h) => shown' \in 1..Len(h) /\ h[shown'] # Meta
    BY <1>1, SettledFits
  <1> QED BY <1>1, <1>2 DEF Settles, HasVersion

\* A step that leaves the index and the list alone
LEMMA SettlesStays == ASSUME Settles, UNCHANGED <<open, history, shown>> PROVE Settles'
  BY DEF Settles, HasVersion

\* After a restart nothing has been read
LEMMA RestartFresh == ASSUME Restart PROVE Fresh'
  <1>1. reload' = [rows |-> Nothing] /\ reload' \in [rows : Lists \cup {Nothing}]
    BY DEF Restart
  <1>2. reload' # Nothing /\ reload'.rows = Nothing
    BY <1>1, NothingIsNoRequest
  <1> QED BY <1>2 DEF Fresh

LEMMA PanelInit == Init => Panel
  <1> SUFFICES ASSUME Init PROVE Panel
    OBVIOUS
  <1>1. history = <<Initial>> /\ reload = [rows |-> Nothing]
    BY DEF Init
  <1>2. reload \in [rows : Lists \cup {Nothing}] /\ reload.rows = Nothing
    BY <1>1
  <1>3. Fresh
    BY <1>2, NothingIsNoRequest DEF Fresh
  <1>4. ~HasVersion(history)
    BY <1>1 DEF HasVersion, IsVersion
  <1> QED BY <1>3, <1>4 DEF Panel, Settles

LEMMA ListedFromServer ==
  ASSUME rows \in Rows, NEW list \in Listed PROVE FromServer(list)
  <1>1. \A e : e \in ToSet(list) => e \in ToSet(rows) \/ (e = Event /\ Held = {})
    BY ListedFits
  <1>2. ToSet(rows) \subseteq Versions \cup {Meta}
    <2> SUFFICES ASSUME NEW e \in ToSet(rows) PROVE e \in Versions \cup {Meta}
      OBVIOUS
    <2>1. PICK i \in 1..Len(rows) : rows[i] = e
      BY MembersAre DEF Rows
    <2> QED BY <2>1, ElementOfSeq DEF Rows
  <1>3. ToSet(list) \subseteq Held \cup Marks
    BY <1>1, <1>2 DEF Held, Marks
  <1>4. Event \notin Versions \cup {Meta}
    BY DEF Versions
  <1>5. Event \in ToSet(list) => Held = {}
    BY <1>1, <1>2, <1>4
  <1> QED BY <1>3, <1>5 DEF FromServer

\* A version more on the server
LEMMA FromServerStays ==
  ASSUME NEW h, FromServer(h), \A e : e \in ToSet(rows) => e \in ToSet(rows')
  PROVE  FromServer(h)'
  BY DEF FromServer, Held

LEMMA UserPanel == ASSUME Inv, Panel, User PROVE Panel'
  <1>1. ASSUME NEW i \in 1..Len(history), PickVersion(i) PROVE Panel'
    <2>1. /\ history \in Seq(Entries) /\ i \in Nat \ {0} /\ ShowEntry(history, i)
          /\ history' = history /\ UNCHANGED <<rows, open, reload, tasks, missed>>
      BY <1>1, LenProperties DEF Inv, HistoryOK, PickVersion, listing, ShowEntry
    <2>2. Settles'
      BY <2>1, ShowSettles
    <2>3. Fresh'
      BY <2>1 DEF Panel, Fresh, FromServer, Held, Ended
    <2> QED BY <2>2, <2>3 DEF Panel
  <1>2. ASSUME NEW i \in 1..Len(history), DeleteVersion(i) PROVE Panel'
    <2> DEFINE t == [n |-> asked + 1, kind |-> "delete", ver |-> history[i],
                     phase |-> "asked", rows |-> <<>>]
    <2>1. t \in tasks' /\ t.phase # "fetching"
      BY <1>2 DEF DeleteVersion
    <2> HIDE DEF t
    <2>2. Settles'
      BY <1>2, SettlesStays DEF DeleteVersion, panel, Panel
    <2> QED BY <2>1, <2>2 DEF Panel, Fresh, Ended
  <1>3. ASSUME NEW k \in {"save", "event"}, WorkflowStep(k) PROVE Panel'
    <2> DEFINE h == <<Phantom>> \o history
               t == [n |-> asked + 1, kind |-> k, ver |-> Nothing,
                     phase |-> IF k = "save" THEN "asked" ELSE "done", rows |-> <<>>]
    <2>1. t \in tasks' /\ t.phase # "fetching"
      BY <1>3 DEF WorkflowStep
    <2>2. history \in Seq(Entries) /\ Phantom \in Entries
      BY DEF Inv, HistoryOK, Entries
    <2>3. h \in Seq(Entries) /\ ShowEntry(h, 1) /\ 1 \in Nat \ {0}
      BY <1>3, <2>2, ConsIs DEF WorkflowStep
    <2> HIDE DEF h, t
    <2>4. Settles'
      BY <2>3, ShowSettles
    <2> QED BY <2>1, <2>4 DEF Panel, Fresh, Ended
  <1>4. CASE Refresh
    <2>1. Settles'
      BY <1>4, SettlesStays DEF Refresh, panel, Panel
    <2> QED BY <1>4, <2>1, RestartFresh DEF Refresh, Panel
  <1>5. CASE (\E s \in Sides : ClickPoint(s)) \/ NewFile \/ SaveLinks
    <2>1. UNCHANGED historyVars
      BY <1>5 DEF ClickPoint, NewFile, SaveLinks
    <2> QED BY <2>1, PanelStays DEF historyVars, panelVars, panel, listing
  <1> QED BY <1>1, <1>2, <1>3, <1>4, <1>5 DEF User

LEMMA ListingPanel == ASSUME Inv, Panel, Listing PROVE Panel'
  <1>1. CASE RefreshServed
    <2>1. PICK list \in Listed : reload' = [rows |-> list]
      BY <1>1 DEF RefreshServed
    <2>2. list \in Lists /\ FromServer(list)
      BY ListedFits, ListedFromServer DEF Inv, HistoryOK
    <2>3. reload' # Nothing /\ reload'.rows = list
      <3>1. reload' \in [rows : Lists \cup {Nothing}]
        BY <2>1, <2>2
      <3> QED BY <2>1, <3>1, NothingIsNoRequest
    <2>4. UNCHANGED <<rows, open, history, shown, tasks, missed>>
      BY <1>1 DEF RefreshServed, panel
    <2>5. Fresh'
      BY <2>2, <2>3, <2>4 DEF Fresh, FromServer, Held
    <2> QED BY <2>4, <2>5, SettlesStays DEF Panel
  <1>2. CASE RefreshReturns
    <2> DEFINE h == reload.rows
    <2>1. /\ h \in Seq(Entries) /\ ShowEntry(h, shown) /\ shown \in Nat \ {0} /\ history' = h
          /\ reload # Nothing /\ reload.rows # Nothing /\ reload' = Nothing
          /\ UNCHANGED <<rows, open, tasks, missed>>
      BY <1>2, ListsFit DEF RefreshReturns, ShowEntry, Inv, HistoryOK
    <2>2. Fresh'
      BY <2>1 DEF Panel, Fresh, FromServer, Held, Ended
    <2> HIDE DEF h
    <2>3. Settles'
      BY <2>1, ShowSettles
    <2> QED BY <2>2, <2>3 DEF Panel
  <1>3. CASE RefreshFails
    <2>1. Settles' /\ missed' = TRUE
      BY <1>3, SettlesStays DEF RefreshFails, panel, Panel
    <2> QED BY <2>1 DEF Panel, Fresh
  <1> QED BY <1>1, <1>2, <1>3 DEF Listing

LEMMA ProgressPanel == ASSUME Inv, Panel, Progress PROVE Panel'
  <1>1. ASSUME NEW t \in tasks, NEW u \in tasks', u.phase # "fetching", UNCHANGED panel PROVE Panel'
    <2>1. Settles'
      BY <1>1, SettlesStays DEF panel, Panel
    <2> QED BY <1>1, <2>1 DEF Panel, Fresh, Ended
  <1>2. ASSUME NEW t \in tasks, TaskServed(t) \/ TaskAnswered(t) \/ TaskListed(t) PROVE Panel'
    <2>1. t \in Task
      BY DEF Inv, HistoryOK
    <2>2. ASSUME NEW p \in {"stored", "done"}, Moved(t, p)
          PROVE  \E u \in tasks' : u.phase # "fetching"
      <3>1. [t EXCEPT !.phase = p].phase # "fetching"
        BY <2>1 DEF Task
      <3> QED BY <2>2, <3>1 DEF Moved
    <2>3. ASSUME TaskListed(t) PROVE \E u \in tasks' : u.phase # "fetching"
      <3>1. PICK list \in Listed :
              tasks' = (tasks \ {t}) \cup {[t EXCEPT !.phase = "listed", !.rows = list]}
        BY <2>3 DEF TaskListed
      <3>2. [t EXCEPT !.phase = "listed", !.rows = list].phase # "fetching"
        BY <2>1 DEF Task
      <3> QED BY <3>1, <3>2
    <2>4. UNCHANGED panel /\ \E u \in tasks' : u.phase # "fetching"
      BY <1>2, <2>2, <2>3 DEF TaskServed, TaskAnswered, TaskListed
    <2> QED BY <1>1, <2>4
  <1>3. ASSUME NEW t \in tasks, TaskReturns(t) PROVE Panel'
    <2>1. CASE LastDeleted(t)
      <3>1. open' = FALSE
        BY <1>3, <2>1 DEF TaskReturns, Close
      <3> QED BY <3>1 DEF Panel, Settles, Fresh
    <2>2. CASE ~LastDeleted(t)
      <3> DEFINE h == t.rows
      <3>1. Restart /\ h \in Seq(Entries) /\ shown \in Nat \ {0} /\ ShowEntry(h, shown)
        BY <1>3, <2>2, ListsFit DEF TaskReturns, ListShown, Inv, HistoryOK, Task
      <3> HIDE DEF h
      <3>2. Settles' /\ Fresh'
        BY <3>1, ShowSettles, RestartFresh
      <3> QED BY <3>2 DEF Panel
    <2> QED BY <2>1, <2>2
  <1>4. ASSUME NEW t \in tasks, FileFetched(t) PROVE Panel'
    <2> DEFINE i == IF LatestIdx(t.rows) = 0 THEN 1 ELSE LatestIdx(t.rows)
    <2>1. Len(t.rows) \in Nat /\ history \in Seq(Entries) /\ Restart /\ ShowEntry(history, i)
      BY <1>4, ListsFit DEF FileFetched, Inv, HistoryOK, Task
    <2>2. i \in Nat \ {0}
      BY <2>1, LatestIsNat
    <2> HIDE DEF i
    <2>3. Settles' /\ Fresh'
      BY <2>1, <2>2, ShowSettles, RestartFresh
    <2> QED BY <2>3 DEF Panel
  <1>5. ASSUME NEW t \in tasks, TaskFails(t) PROVE Panel'
    <2>1. /\ UNCHANGED <<rows, open, history, shown, reload>> /\ tasks' = tasks \ {t}
          /\ missed' = (missed \/ t.phase # "fetching")
      BY <1>5 DEF TaskFails, panel
    <2>2. Settles'
      BY <2>1, SettlesStays DEF Panel
    <2>3. (~missed' /\ Ended') => (~missed /\ Ended)
      BY <2>1 DEF Ended
    <2>4. Fresh'
      BY <2>1, <2>3 DEF Panel, Fresh, FromServer, Held
    <2> QED BY <2>2, <2>4 DEF Panel
  <1> QED BY <1>2, <1>3, <1>4, <1>5 DEF Progress

LEMMA OthersPanel == ASSUME Inv, Panel, Others PROVE Panel'
  <1>1. CASE OtherSaves
    <2>1. UNCHANGED <<open, history, shown, reload, tasks, missed>>
      BY <1>1 DEF OtherSaves, panel, listing
    <2>2. \A e : e \in ToSet(rows) => e \in ToSet(rows')
      BY <1>1, NewVersionFits DEF OtherSaves, Inv
    <2>3. /\ FromServer(history) => FromServer(history)'
          /\ FromServer(reload.rows) => FromServer(reload.rows)'
      BY <2>1, <2>2 DEF FromServer, Held
    <2>4. Fresh'
      BY <2>1, <2>3 DEF Panel, Fresh, Ended
    <2> QED BY <2>1, <2>4, SettlesStays DEF Panel
  <1>2. ASSUME NEW v \in Versions, OtherDeletes(v) PROVE Panel'
    <2>1. UNCHANGED <<open, history, shown>> /\ missed' = TRUE
      BY <1>2 DEF OtherDeletes, panel
    <2> QED BY <2>1, SettlesStays DEF Panel, Fresh
  <1> QED BY <1>1, <1>2 DEF Others

\* Every step keeps the panel right
LEMMA PanelNext == Inv /\ Panel /\ [Next]_vars => Panel'
  <1> SUFFICES ASSUME Inv, Panel, [Next]_vars PROVE Panel'
    OBVIOUS
  <1>1. CASE Posting \/ Hashing \/ Loading
    <2>1. UNCHANGED historyVars
      BY <1>1, Zenon DEF Posting, PostServed, PostReturns, PostFails, Hashing, FirstPoint, SecondPoint,
         Loading, LoadServed, LoadReturns, LoadFails
    <2> QED BY <2>1, PanelStays DEF historyVars, panelVars, panel, listing
  <1>2. CASE UNCHANGED vars
    BY <1>2, PanelStays DEF vars, panelVars, panel, listing
  <1> QED BY <1>1, <1>2, UserPanel, ListingPanel, ProgressPanel, OthersPanel DEF Next

\* In every behaviour the panel shows a version that the server holds, and
\* offers no other one, once the lists that were asked for have arrived
THEOREM HistoryShowsHeldVersions == Spec => []ShownIsHeld
  <1>1. Init => Inv /\ Panel
    BY InvInit, PanelInit
  <1>2. (Inv /\ Panel) /\ [Next]_vars => (Inv /\ Panel)'
    BY InvNext, PanelNext
  <1>3. Inv /\ Panel => ShownIsHeld
    <2> SUFFICES ASSUME Inv, Panel, Quiet
                 PROVE  /\ ToSet(history) \subseteq Held \cup Marks
                        /\ Active \in Held \/ ToSet(history) \subseteq Marks
      BY DEF ShownIsHeld
    <2>1. FromServer(history) /\ open
      BY DEF Quiet, Panel, Fresh, Ended
    <2>2. ASSUME NEW e \in ToSet(history), e \notin Marks PROVE Active \in Held
      <3>1. PICK i \in 1..Len(history) : history[i] = e
        BY <2>2, MembersAre DEF Inv, HistoryOK
      <3>2. e \in Versions
        BY <2>1, <2>2 DEF FromServer, Held
      <3>3. HasVersion(history)
        BY <3>1, <3>2 DEF HasVersion, IsVersion, Versions
      <3>4. shown \in 1..Len(history) /\ history[shown] # Meta
        BY <2>1, <3>3 DEF Panel, Settles
      <3>5. Active = history[shown] /\ Active \in ToSet(history)
        BY <3>4, MembersAre DEF Active, EntryAt, Inv, HistoryOK
      <3>6. Event \notin ToSet(history)
        BY <2>1, <2>2 DEF FromServer
      <3> QED BY <2>1, <3>4, <3>5, <3>6 DEF FromServer, Marks
    <2> QED BY <2>1, <2>2 DEF FromServer
  <1> QED BY <1>1, <1>2, <1>3, PTL DEF Spec

\* In every behaviour "saving" is shown only while a list is on its way
THEOREM LinkSavingIsJustified == Spec => []SavingHasPost
  <1>1. Inv => SavingHasPost
    BY DEF Inv, LinksOK
  <1> QED BY <1>1, ViewerInvariant, PTL

-----------------------------------------------------------------------------
(* Versions are numbered in the order of their making                       *)
(*                                                                          *)
(* No list, on the server or of the past, names a version that is not made  *)
(* yet, and the server's list names each version once: what is deleted      *)
(* never comes back.                                                        *)

Made(e)  == e \in Versions => e <= newest
Known(h) == \A i \in 1..Len(h) : Made(h[i])
Once(h)  == \A i, j \in 1..Len(h) : (h[i] = h[j] /\ h[i] \in Versions) => i = j

Counted ==
    /\ Known(rows) /\ Once(rows)
    /\ Known(history)
    /\ (reload # Nothing /\ reload.rows # Nothing) => Known(reload.rows)
    /\ \A t \in tasks : Known(t.rows)

-----------------------------------------------------------------------------
(* What the server's list becomes *)

\* A new version is the newest
LEMMA NewVersionListed ==
  ASSUME Inv, Counted, NewVersion
  PROVE  newest' = newest + 1 /\ Known(rows)' /\ Once(rows)'
  <1> DEFINE S == Versions \cup {Meta}
  <1>1. rows \in Seq(S) /\ newest + 1 \in S /\ newest \in Nat
    BY DEF Inv, HistoryOK, Rows, Versions, NewVersion
  <1>2. newest' = newest + 1 /\ rows' = <<newest + 1>> \o rows
    BY DEF NewVersion
  <1>3. /\ rows' \in Seq(S) /\ Len(rows') = Len(rows) + 1 /\ Len(rows) \in Nat
        /\ rows'[1] = newest + 1 /\ \A i \in 1..Len(rows) : rows'[i + 1] = rows[i]
    BY <1>1, <1>2, ConsIs
  <1>4. ASSUME NEW j \in 1..Len(rows')
        PROVE  j = 1 \/ (j - 1 \in 1..Len(rows) /\ rows'[j] = rows[j - 1])
    <2>1. CASE j # 1
      <3>1. j - 1 \in 1..Len(rows) /\ (j - 1) + 1 = j
        BY <1>3, <2>1
      <3> QED BY <1>3, <3>1
    <2> QED BY <2>1
  <1>5. ASSUME NEW i \in 1..Len(rows), rows[i] \in Versions PROVE rows[i] <= newest
    BY <1>5 DEF Counted, Known, Made
  <1>6. Known(rows)'
    <2> SUFFICES ASSUME NEW j \in 1..Len(rows'), rows'[j] \in Versions PROVE rows'[j] <= newest + 1
      BY <1>2 DEF Known, Made
    <2>1. CASE j = 1
      BY <1>1, <1>3, <2>1
    <2>2. CASE j # 1
      <3>1. rows'[j] <= newest
        BY <1>4, <1>5, <2>2
      <3> QED BY <1>1, <3>1 DEF Versions
    <2> QED BY <2>1, <2>2
  <1>7. Once(rows)'
    <2> SUFFICES ASSUME NEW j \in 1..Len(rows'), NEW k \in 1..Len(rows'),
                        rows'[j] = rows'[k], rows'[j] \in Versions
                 PROVE  j = k
      BY DEF Once
    <2>1. CASE j = 1 /\ k # 1
      <3>1. rows[k - 1] = newest + 1 /\ rows[k - 1] <= newest
        BY <1>3, <1>4, <1>5, <2>1
      <3> QED BY <1>1, <3>1
    <2>2. CASE j # 1 /\ k = 1
      <3>1. rows[j - 1] = newest + 1 /\ rows[j - 1] <= newest
        BY <1>3, <1>4, <1>5, <2>2
      <3> QED BY <1>1, <3>1
    <2>3. CASE j # 1 /\ k # 1
      <3>1. j - 1 = k - 1
        BY <1>4, <2>3 DEF Counted, Once
      <3> QED BY <3>1
    <2> QED BY <2>1, <2>2, <2>3
  <1> QED BY <1>2, <1>6, <1>7

\* A removed version is not listed any more
LEMMA RemovedListed ==
  ASSUME Inv, Counted, NEW v, RemoveVersion(v)
  PROVE  /\ newest' = newest /\ Known(rows)' /\ Once(rows)'
         /\ \A e \in Versions : e \in ToSet(rows') => e \in ToSet(rows) /\ e # v
  <1> DEFINE S == Versions \cup {Meta}
             From(i, j) == IF j - 1 < i THEN j - 1 ELSE j
  <1>1. rows \in Rows /\ rows \in Seq(S) /\ Len(rows) \in Nat
    BY LenProperties DEF Inv, HistoryOK, Rows
  <1>2. PICK i \in 1..Len(rows) : rows[i] = v /\ rows' = <<Meta>> \o RemoveAt(rows, i)
    BY DEF RemoveVersion
  <1>3. /\ newest' = newest /\ rows' \in Seq(S) /\ Len(rows') = Len(rows) /\ rows'[1] = Meta
        /\ \A j \in 2..Len(rows') : /\ From(i, j) \in 1..Len(rows) /\ From(i, j) # i
                                    /\ rows'[j] = rows[From(i, j)]
    BY <1>1, <1>2, RemoveIs DEF RemoveVersion, Rows
  <1>4. Meta \notin Versions
    BY DEF Versions
  <1>5. ASSUME NEW j \in 1..Len(rows'), rows'[j] \in Versions
        PROVE  /\ j \in 2..Len(rows') /\ From(i, j) \in 1..Len(rows) /\ From(i, j) # i
               /\ rows'[j] = rows[From(i, j)]
    <2>1. j # 1
      BY <1>3, <1>4, <1>5
    <2>2. j \in 2..Len(rows')
      BY <1>1, <1>3, <2>1
    <2> QED BY <1>3, <2>2
  <1>6. Known(rows)'
    BY <1>3, <1>5 DEF Counted, Known, Made
  <1>7. Once(rows)'
    <2> SUFFICES ASSUME NEW j \in 1..Len(rows'), NEW k \in 1..Len(rows'),
                        rows'[j] = rows'[k], rows'[j] \in Versions
                 PROVE  j = k
      BY DEF Once
    <2>1. From(i, j) = From(i, k)
      BY <1>5 DEF Counted, Once
    <2>2. From(i, j) # i /\ From(i, k) # i
      BY <1>5
    <2> QED BY <1>1, <1>3, <2>1, <2>2
  <1>8. ASSUME NEW e \in Versions, e \in ToSet(rows') PROVE e \in ToSet(rows) /\ e # v
    <2>1. PICK j \in 1..Len(rows') : rows'[j] = e
      BY <1>3, <1>8, MembersAre
    <2>2. From(i, j) \in 1..Len(rows) /\ From(i, j) # i /\ rows[From(i, j)] = e
      BY <1>5, <1>8, <2>1
    <2>3. e # v
      BY <1>2, <1>8, <2>2 DEF Counted, Once
    <2> HIDE DEF From
    <2>4. e \in ToSet(rows)
      BY <1>1, <2>2, MembersAre
    <2> QED BY <2>3, <2>4
  <1> QED BY <1>3, <1>6, <1>7, <1>8

-----------------------------------------------------------------------------
(* Every list is of versions that are made *)

LEMMA EmptyKnown == Known(<<>>)
  BY EmptySeq DEF Known

\* What was made stays made
LEMMA MadeStays == ASSUME Inv, newest' \in {newest, newest + 1}, NEW e, Made(e) PROVE Made(e)'
  BY DEF Made, Versions, Inv, HistoryOK

LEMMA KnownStays == ASSUME Inv, newest' \in {newest, newest + 1}, NEW h, Known(h) PROVE Known(h)'
  BY MadeStays DEF Known

\* A step that takes its lists from the ones there are
LEMMA ListsKnown ==
  ASSUME Counted, UNCHANGED <<rows, newest>>,
         Known(history'),
         (reload' # Nothing /\ reload'.rows # Nothing) => Known(reload'.rows),
         \A t \in tasks' : Known(t.rows)
  PROVE  Counted'
  BY DEF Counted, Known, Made, Once

\* A step of the links alone
LEMMA CountedStays ==
  ASSUME Counted, UNCHANGED <<rows, newest, history, reload, tasks>>
  PROVE  Counted'
  BY DEF Counted, Known, Made, Once

LEMMA CountedInit == Init => Counted
  <1> SUFFICES ASSUME Init PROVE Counted
    OBVIOUS
  <1>1. /\ rows = <<1>> /\ history = <<Initial>> /\ newest = 1 /\ tasks = {}
        /\ reload = [rows |-> Nothing]
    BY DEF Init
  <1>2. Known(rows) /\ Once(rows)
    BY <1>1 DEF Known, Made, Once
  <1>3. Known(history)
    BY <1>1 DEF Known, Made, Versions
  <1> QED BY <1>1, <1>2, <1>3 DEF Counted

LEMMA WorkflowCounted ==
  ASSUME Inv, Counted, NEW k \in {"save", "event"}, WorkflowStep(k) PROVE Counted'
  <1> DEFINE h == <<Phantom>> \o history
             t == [n |-> asked + 1, kind |-> k, ver |-> Nothing,
                   phase |-> IF k = "save" THEN "asked" ELSE "done", rows |-> <<>>]
  <1>1. /\ history' = h /\ tasks' = tasks \cup {t} /\ UNCHANGED <<rows, newest, reload>>
    BY DEF WorkflowStep, ShowEntry
  <1>2. history \in Seq(Entries) /\ Phantom \in Entries
    BY DEF Inv, HistoryOK, Entries
  <1>3. /\ Len(h) = Len(history) + 1 /\ Len(history) \in Nat
        /\ h[1] = Phantom /\ \A i \in 1..Len(history) : h[i + 1] = history[i]
    BY <1>2, ConsIs
  <1>4. t.rows = <<>>
    OBVIOUS
  <1> HIDE DEF h, t
  <1>5. Known(h)
    <2> SUFFICES ASSUME NEW i \in 1..Len(h) PROVE Made(h[i])
      BY DEF Known
    <2>1. CASE i = 1
      BY <1>3, <2>1 DEF Made, Versions
    <2>2. CASE i # 1
      <3>1. i - 1 \in 1..Len(history) /\ (i - 1) + 1 = i
        BY <1>3, <2>2
      <3> QED BY <1>3, <3>1 DEF Counted, Known
    <2> QED BY <2>1, <2>2
  <1>6. \A u \in tasks' : Known(u.rows)
    BY <1>1, <1>4, EmptyKnown DEF Counted
  <1> QED BY <1>1, <1>5, <1>6, ListsKnown DEF Counted

LEMMA DeleteCounted ==
  ASSUME Inv, Counted, NEW i \in 1..Len(history), DeleteVersion(i) PROVE Counted'
  <1> DEFINE t == [n |-> asked + 1, kind |-> "delete", ver |-> history[i],
                   phase |-> "asked", rows |-> <<>>]
  <1>1. tasks' = tasks \cup {t} /\ UNCHANGED <<rows, newest, reload, history>>
    BY DEF DeleteVersion, panel
  <1>2. t.rows = <<>>
    OBVIOUS
  <1> HIDE DEF t
  <1>3. \A u \in tasks' : Known(u.rows)
    BY <1>1, <1>2, EmptyKnown DEF Counted
  <1> QED BY <1>1, <1>3, ListsKnown DEF Counted

\* A task in another phase has the list it had
LEMMA MovedCounted ==
  ASSUME Inv, Counted, NEW t \in tasks, NEW phase, Moved(t, phase)
  PROVE  \A x \in tasks' : Known(x.rows)
  <1> DEFINE u == [t EXCEPT !.phase = phase]
  <1>1. t \in Task /\ tasks' = (tasks \ {t}) \cup {u}
    BY DEF Moved, Inv, HistoryOK
  <1>2. u.rows = t.rows
    BY <1>1 DEF Task
  <1> HIDE DEF u
  <1> QED BY <1>1, <1>2 DEF Counted

LEMMA TaskServedCounted == ASSUME Inv, Counted, NEW t \in tasks, TaskServed(t) PROVE Counted'
  <1>1. UNCHANGED <<history, reload>>
    BY DEF TaskServed, panel
  <1>2. \A x \in tasks' : Known(x.rows)
    BY MovedCounted DEF TaskServed
  <1>3. newest' \in {newest, newest + 1} /\ Known(rows)' /\ Once(rows)'
    BY NewVersionListed, RemovedListed DEF TaskServed
  <1> QED BY <1>1, <1>2, <1>3, KnownStays DEF Counted, Known, Made

LEMMA TaskAnsweredCounted == ASSUME Inv, Counted, NEW t \in tasks, TaskAnswered(t) PROVE Counted'
  <1>1. UNCHANGED <<rows, newest, history>> /\ reload' = [rows |-> Nothing]
    BY DEF TaskAnswered, Restart, panel
  <1>2. \A x \in tasks' : Known(x.rows)
    BY MovedCounted DEF TaskAnswered
  <1> QED BY <1>1, <1>2, ListsKnown DEF Counted

\* What a list of the server names is made
LEMMA ListedKnown == ASSUME Inv, Counted, NEW list \in Listed PROVE Known(list)
  <1>1. rows \in Rows
    BY DEF Inv, HistoryOK
  <1>2. Event \notin Versions
    BY DEF Versions
  <1> QED BY <1>1, <1>2, ListedFits DEF Counted, Known, Made

LEMMA TaskListedCounted == ASSUME Inv, Counted, NEW t \in tasks, TaskListed(t) PROVE Counted'
  <1>1. PICK list \in Listed :
            tasks' = (tasks \ {t}) \cup {[t EXCEPT !.phase = "listed", !.rows = list]}
    BY DEF TaskListed
  <1> DEFINE u == [t EXCEPT !.phase = "listed", !.rows = list]
  <1>2. t \in Task /\ UNCHANGED <<rows, newest, history, reload>>
    BY DEF TaskListed, Inv, HistoryOK, panel
  <1>3. u.rows = list
    BY <1>2 DEF Task
  <1> HIDE DEF u
  <1>4. \A x \in tasks' : Known(x.rows)
    BY <1>1, <1>3, ListedKnown DEF Counted, u
  <1> QED BY <1>2, <1>4, ListsKnown DEF Counted

LEMMA TaskReturnsCounted == ASSUME Inv, Counted, NEW t \in tasks, TaskReturns(t) PROVE Counted'
  <1>1. /\ history' = t.rows /\ UNCHANGED <<rows, newest>>
        /\ reload' \in {Nothing, [rows |-> Nothing]}
    BY DEF TaskReturns, Close, ListShown, ShowEntry, Restart
  <1>2. \A x \in tasks' : Known(x.rows)
    <2>1. CASE tasks' \subseteq tasks
      BY <2>1 DEF Counted
    <2>2. CASE Moved(t, "fetching")
      BY <2>2, MovedCounted
    <2> QED BY <2>1, <2>2 DEF TaskReturns, Close, ListShown
  <1>3. Known(history')
    BY <1>1 DEF Counted
  <1>4. (reload' # Nothing /\ reload'.rows # Nothing) => Known(reload'.rows)
    BY <1>1
  <1> QED BY <1>1, <1>2, <1>3, <1>4, ListsKnown

LEMMA FileFetchedCounted == ASSUME Inv, Counted, NEW t \in tasks, FileFetched(t) PROVE Counted'
  <1>1. /\ tasks' \subseteq tasks /\ reload' = [rows |-> Nothing]
        /\ UNCHANGED <<rows, newest, history>>
    BY DEF FileFetched, ShowEntry, Restart
  <1> QED BY <1>1, ListsKnown DEF Counted

LEMMA TaskFailsCounted == ASSUME Inv, Counted, NEW t \in tasks, TaskFails(t) PROVE Counted'
  <1>1. tasks' \subseteq tasks /\ UNCHANGED <<rows, newest, history, reload>>
    BY DEF TaskFails, panel
  <1> QED BY <1>1, ListsKnown DEF Counted

LEMMA OthersCounted == ASSUME Inv, Counted, Others PROVE Counted'
  <1>1. UNCHANGED <<history, reload, tasks>>
    BY DEF Others, OtherSaves, OtherDeletes, panel, listing
  <1>2. newest' \in {newest, newest + 1} /\ Known(rows)' /\ Once(rows)'
    BY NewVersionListed, RemovedListed DEF Others, OtherSaves, OtherDeletes
  <1> QED BY <1>1, <1>2, KnownStays DEF Counted, Known, Made

\* Every step keeps the lists what they are
LEMMA CountedNext == Inv /\ Counted /\ [Next]_vars => Counted'
  <1> SUFFICES ASSUME Inv, Counted, [Next]_vars PROVE Counted'
    OBVIOUS
  <1>1. CASE User
    <2>1. CASE \E i \in 1..Len(history) : PickVersion(i)
      <3>1. UNCHANGED <<rows, newest, history, reload, tasks>>
        BY <2>1 DEF PickVersion, ShowEntry, listing
      <3> QED BY <3>1, CountedStays
    <2>2. CASE Refresh
      <3>1. reload' = [rows |-> Nothing] /\ UNCHANGED <<rows, newest, history, tasks>>
        BY <2>2 DEF Refresh, Restart, panel
      <3> QED BY <3>1, ListsKnown DEF Counted
    <2>3. CASE (\E s \in Sides : ClickPoint(s)) \/ NewFile \/ SaveLinks
      BY <2>3, CountedStays DEF ClickPoint, NewFile, SaveLinks, historyVars, panel, listing
    <2> QED BY <1>1, <2>1, <2>2, <2>3, DeleteCounted, WorkflowCounted DEF User
  <1>2. CASE Others
    BY <1>2, OthersCounted
  <1>3. CASE Posting
    BY <1>3, CountedStays DEF Posting, PostServed, PostReturns, PostFails,
       historyVars, panel, listing
  <1>4. CASE Hashing
    BY <1>4, CountedStays DEF Hashing, FirstPoint, SecondPoint, historyVars, panel,
       listing
  <1>5. CASE Listing
    <2>1. CASE RefreshServed
      <3>1. PICK list \in Listed : reload' = [rows |-> list]
        BY <2>1 DEF RefreshServed
      <3>2. Known(reload'.rows) /\ UNCHANGED <<rows, newest, history, tasks>>
        BY <2>1, <3>1, ListedKnown DEF RefreshServed, panel
      <3> QED BY <3>2, ListsKnown DEF Counted
    <2>2. CASE RefreshReturns
      <3>1. /\ Known(history') /\ reload' = Nothing /\ UNCHANGED <<rows, newest, tasks>>
        BY <2>2 DEF RefreshReturns, ShowEntry, Counted
      <3> QED BY <3>1, ListsKnown DEF Counted
    <2>3. CASE RefreshFails
      <3>1. reload' = Nothing /\ UNCHANGED <<rows, newest, history, tasks>>
        BY <2>3 DEF RefreshFails, panel
      <3> QED BY <3>1, ListsKnown DEF Counted
    <2> QED BY <1>5, <2>1, <2>2, <2>3 DEF Listing
  <1>6. CASE Loading
    BY <1>6, CountedStays DEF Loading, LoadServed, LoadReturns, LoadFails,
       historyVars, panel, listing
  <1>7. CASE Progress
    BY <1>7, TaskServedCounted, TaskAnsweredCounted, TaskListedCounted, TaskReturnsCounted,
       FileFetchedCounted, TaskFailsCounted DEF Progress
  <1>8. CASE UNCHANGED vars
    BY <1>8, CountedStays DEF vars, panel, listing
  <1> QED BY <1>1, <1>2, <1>3, <1>4, <1>5, <1>6, <1>7, <1>8 DEF Next

-----------------------------------------------------------------------------
(* As long as nothing is disturbed                                          *)
(*                                                                          *)
(* StoredWithItsVersion and ScreenIsStored hold together with what is under *)
(* way, for the versions that the server holds: a load is for the version   *)
(* that is shown and, once answered, has exactly the stored links (Loaded), *)
(* a post has the links of its version and at least the stored ones         *)
(* (Posted), and the list on the screen is the one that is being posted for *)
(* the shown version or else the stored one; after an error it may have     *)
(* more (Screen).  Other entries may keep each other's list: an event has   *)
(* the id of its version or one of its own.                                 *)

OfItself(list, e) == \A l \in list : l.of = e

\* Lists that wait for the server
Unstored(e) == {p \in posts : p.entry = e /\ ~p.stored}

Stored == \A v \in Versions : OfItself(server[v], v)

Posted ==
    /\ \A p, q \in posts : p = q
    /\ posts # {} => status = "saving"
    /\ \A p \in posts : Made(p.entry)
    /\ \A p \in posts : p.entry \in Held =>
           /\ OfItself(p.links, p.entry)
           /\ ~p.stored => server[p.entry] \subseteq p.links

Loaded ==
    load # Nothing =>
        /\ Made(load.entry)
        /\ load.entry \in Held \/ Active \in Held => load.entry = Active
        /\ load.answered /\ load.entry \in Held =>
               Unstored(load.entry) = {} /\ load.got = server[load.entry]

Screen ==
    load = Nothing /\ Active \in Held =>
        /\ OfItself(links, Active)
        /\ server[Active] \subseteq links
        /\ status # "error" => IF Unstored(Active) = {} THEN links = server[Active]
                               ELSE \A p \in Unstored(Active) : links = p.links

Faithful == Stored /\ Posted /\ Loaded /\ Screen
Honest == ~disturbed => Faithful

\* A disturbance is never forgotten
LEMMA DisturbedStays == ASSUME disturbed, [Next]_vars PROVE disturbed'
  <1>1. CASE User
    BY <1>1, Zenon DEF User, PickVersion, DeleteVersion, WorkflowStep, ClickPoint, Refresh,
       NewFile, SaveLinks, Persist
  <1>2. CASE Others
    BY <1>2, Zenon DEF Others, OtherSaves, OtherDeletes
  <1>3. CASE Posting
    BY <1>3, Zenon DEF Posting, PostServed, PostReturns, PostFails
  <1>4. CASE Hashing
    BY <1>4, Zenon DEF Hashing, FirstPoint, SecondPoint, Persist
  <1>5. CASE Listing
    BY <1>5, Zenon DEF Listing, RefreshServed, RefreshReturns, RefreshFails
  <1>6. CASE Loading
    BY <1>6, Zenon DEF Loading, LoadServed, LoadReturns, LoadFails
  <1>7. CASE Progress
    BY <1>7, Zenon DEF Progress, TaskServed, TaskAnswered, TaskListed, TaskReturns,
       FileFetched, TaskFails
  <1>8. CASE UNCHANGED vars
    BY <1>8, Zenon DEF vars
  <1> QED BY <1>1, <1>2, <1>3, <1>4, <1>5, <1>6, <1>7, <1>8 DEF Next

\* The shown entry is made
LEMMA ActiveMade == ASSUME Inv, Counted PROVE Active \in Entries /\ Made(Active)
  <1>1. Active \in Entries
    BY ActiveFits DEF Inv
  <1>2. Initial \notin Versions
    BY DEF Versions
  <1>3. Made(Active)
    BY <1>2 DEF Active, EntryAt, Counted, Known, Made
  <1> QED BY <1>1, <1>3

LEMMA HeldAreVersions == Held \subseteq Versions
  BY DEF Held

\* The server's list changes and nothing on this side: what is made and still
\* held keeps its links
LEMMA ListChanges ==
  ASSUME Inv, Counted, Faithful,
         UNCHANGED <<history, shown, links, status, load, posts>>,
         newest' \in {newest, newest + 1},
         \A e \in Versions : OfItself(server'[e], e),
         \A e \in Held' : Made(e) => e \in Held /\ server'[e] = server[e]
  PROVE  Faithful'
  <1>1. Active' = Active /\ Made(Active)
    BY ActiveMade DEF Active
  <1>2. \A e : Unstored(e)' = Unstored(e)
    BY DEF Unstored
  <1>3. Stored'
    BY DEF Stored, OfItself
  <1>4. Posted'
    <2>1. \A p \in posts : Made(p.entry) /\ Made(p.entry)'
      BY MadeStays DEF Faithful, Posted
    <2>2. \A p \in posts : p.entry \in Held' =>
              /\ OfItself(p.links, p.entry)
              /\ ~p.stored => server'[p.entry] \subseteq p.links
      BY <2>1 DEF Faithful, Posted
    <2> QED BY <2>1, <2>2 DEF Faithful, Posted, OfItself
  <1>5. Loaded'
    <2>1. load # Nothing => Made(load.entry) /\ Made(load.entry)'
      BY MadeStays DEF Faithful, Loaded
    <2> QED BY <1>1, <1>2, <2>1 DEF Faithful, Loaded
  <1>6. Screen'
    BY <1>1, <1>2 DEF Faithful, Screen, OfItself
  <1> QED BY <1>3, <1>4, <1>5, <1>6 DEF Faithful

\* Nothing changes that a link depends on
LEMMA FaithfulStays ==
  ASSUME Inv, Counted, Faithful,
         UNCHANGED <<rows, server, history, shown, links, status, load, posts, newest>>
  PROVE  Faithful'
  <1>1. \A e \in Versions : OfItself(server'[e], e)
    BY DEF Faithful, Stored
  <1>2. Held' = Held
    BY DEF Held
  <1> QED BY <1>1, <1>2, ListChanges

\* Another entry is shown: its links are being loaded, unless it may have the
\* id of the one before
LEMMA ShowFaithful ==
  ASSUME Inv, Counted, Faithful, Inv', Counted', NEW h, NEW i, ShowEntry(h, i),
         UNCHANGED <<rows, server, status, posts, newest>>
  PROVE  Faithful'
  <1> DEFINE j == Settled(h, i)
  <1>1. history' = h /\ shown' = j /\ links' = links /\ Active' = EntryAt(h, j)
    BY DEF ShowEntry, Active
  <1>2. Held' = Held /\ \A e : Unstored(e)' = Unstored(e)
    BY DEF Unstored, Held
  <1>3. Stored' /\ Posted'
    BY <1>2 DEF Faithful, Stored, Posted, OfItself, Made
  <1>4. Active' \in Entries /\ Made(Active)'
    <2>1. h \in Seq(Entries) /\ Known(h)'
      BY <1>1 DEF Inv, HistoryOK, Counted, Known, Made
    <2>2. Made(EntryAt(h, j))'
      <3>1. Initial \notin Versions
        BY DEF Versions
      <3> QED BY <2>1, <3>1 DEF EntryAt, Known, Made
    <2> QED BY <1>1, <2>1, <2>2, EntryFits DEF Made
  <1> HIDE DEF j
  <1>5. CASE UNCHANGED load /\ SameId(h, j)
    <2>1. Active' = Active
      BY <1>1, <1>5 DEF SameId, Active
    <2> QED BY <1>1, <1>2, <1>3, <1>5, <2>1 DEF Faithful, Loaded, Screen, OfItself, Made
  <1>6. CASE UNCHANGED load /\ MayBeSameId(EntryAt(h, j))
    <2>1. Active' \notin Held /\ Active \notin Held
      BY <1>1, <1>6 DEF MayBeSameId, Held, Marks, Versions
    <2> QED BY <1>1, <1>2, <1>3, <1>6, <2>1 DEF Faithful, Loaded, Screen, Made
  <1>7. CASE load' = [entry |-> Active', got |-> {}, answered |-> FALSE]
    <2>1. load' \in Load
      BY <1>4, <1>7 DEF Load
    <2>2. load' # Nothing /\ load'.entry = Active' /\ ~load'.answered
      BY <1>7, <2>1, NothingIsNoRequest
    <2>3. Made(load.entry)'
      BY <1>4, <2>2 DEF Made
    <2> QED BY <1>3, <2>2, <2>3 DEF Faithful, Loaded, Screen, Made
  <1> QED BY <1>1, <1>5, <1>6, <1>7 DEF ShowEntry, j

\* The list on the screen is posted, perhaps with a new link of the shown version
LEMMA PersistFaithful ==
  ASSUME Inv, Counted, Faithful, ~disturbed',
         NEW e \in Entries, NEW list, Persist(e, list), links' = list, links \subseteq list,
         \A l \in list : l \in links \/ l.of = e,
         UNCHANGED <<rows, server, history, shown, load, newest>>
  PROVE  Faithful'
  <1>1. e = Active /\ Active' = Active /\ Held' = Held
    BY DEF Persist, Active, Held
  <1>2. Stored'
    BY DEF Faithful, Stored, OfItself
  <1>3. Made(e)'
    BY <1>1, ActiveMade DEF Made
  <1>4. CASE HasEndpoint(e)
    <2> DEFINE p == [n |-> posted + 1, entry |-> e, links |-> list, stored |-> FALSE]
    <2>1. load = Nothing /\ posts' = {p} /\ status' = "saving"
      BY <1>4 DEF Persist
    <2>2. p.entry = e /\ p.links = list /\ ~p.stored
      OBVIOUS
    <2> HIDE DEF p
    <2>3. e \in Held => OfItself(list, e) /\ server[e] \subseteq list
      BY <1>1, <2>1 DEF Faithful, Screen, OfItself
    <2>4. Posted'
      BY <1>1, <1>3, <2>1, <2>2, <2>3 DEF Posted, OfItself, Made
    <2>5. Unstored(e)' = {p}
      BY <2>1, <2>2 DEF Unstored
    <2>6. Screen'
      BY <1>1, <2>1, <2>2, <2>3, <2>5 DEF Screen, OfItself
    <2> QED BY <1>2, <2>1, <2>4, <2>6 DEF Faithful, Loaded
  <1>5. CASE ~HasEndpoint(e)
    <2>1. UNCHANGED <<posts, status>> /\ Active \notin Held
      BY <1>1, <1>5 DEF Persist, HasEndpoint, Versions, Held
    <2>2. Posted'
      BY <1>1, <2>1 DEF Faithful, Posted, OfItself, Made
    <2>3. Loaded'
      BY <1>1, <2>1 DEF Faithful, Loaded, Unstored, Made
    <2>4. Screen'
      BY <1>1, <2>1 DEF Screen
    <2> QED BY <1>2, <2>2, <2>3, <2>4 DEF Faithful
  <1> QED BY <1>4, <1>5

\* The server has the list of the one post there is
LEMMA PostServedFaithful ==
  ASSUME Inv, Counted, Faithful, NEW p \in posts, PostServed(p) PROVE Faithful'
  <1> DEFINE q == [p EXCEPT !.stored = TRUE]
  <1>1. /\ ~p.stored /\ p.entry \in Held
        /\ server' = [server EXCEPT ![p.entry] = p.links]
        /\ posts' = (posts \ {p}) \cup {q}
        /\ UNCHANGED <<rows, history, shown, links, status, load, newest>>
    BY DEF PostServed, historyVars, panel
  <1>2. p \in Post /\ p.entry \in Versions
    BY <1>1, HeldAreVersions DEF Inv, LinksOK
  <1>3. q.entry = p.entry /\ q.links = p.links /\ q.stored
    BY <1>2 DEF Post
  <1> HIDE DEF q
  <1>4. posts = {p} /\ posts' = {q} /\ status = "saving"
    BY <1>1 DEF Faithful, Posted
  <1>5. \A e \in Versions : server'[e] = IF e = p.entry THEN p.links ELSE server[e]
    BY <1>1, <1>2 DEF Inv, LinksOK
  <1>6. \A e : Unstored(e)' = {} /\ (Unstored(e) = IF e = p.entry THEN {p} ELSE {})
    BY <1>1, <1>3, <1>4 DEF Unstored
  <1>7. Active' = Active /\ Held' = Held
    BY <1>1 DEF Active, Held
  <1>8. Stored'
    BY <1>1, <1>2, <1>5 DEF Faithful, Stored, Posted, OfItself
  <1>9. Posted'
    BY <1>1, <1>3, <1>4, <1>7 DEF Faithful, Posted, OfItself, Made
  <1>10. Loaded'
    BY <1>1, <1>5, <1>6, <1>7, HeldAreVersions DEF Faithful, Loaded, Made
  <1>11. Screen'
    <2> SUFFICES ASSUME load = Nothing, Active \in Held
                 PROVE  OfItself(links, Active) /\ links = server'[Active]
      BY <1>1, <1>6, <1>7 DEF Screen, OfItself
    <2>1. CASE Active = p.entry
      BY <1>4, <1>5, <1>6, <2>1, HeldAreVersions DEF Faithful, Screen
    <2>2. CASE Active # p.entry
      BY <1>4, <1>5, <1>6, <2>2, HeldAreVersions DEF Faithful, Screen
    <2> QED BY <2>1, <2>2
  <1> QED BY <1>8, <1>9, <1>10, <1>11 DEF Faithful

\* The answer of the one post: what it carried is stored
LEMMA PostReturnsFaithful ==
  ASSUME Inv, Counted, Faithful, NEW p \in posts, PostReturns(p) PROVE Faithful'
  <1>1. /\ p.stored /\ posts = {p} /\ posts' = {} /\ status = "saving" /\ status' = "saved"
        /\ UNCHANGED <<rows, server, history, shown, links, load, newest>>
    BY DEF PostReturns, Faithful, Posted, historyVars, panel
  <1>2. \A e : Unstored(e)' = {} /\ Unstored(e) = {}
    BY <1>1 DEF Unstored
  <1>3. Active' = Active /\ Held' = Held
    BY <1>1 DEF Active, Held
  <1>4. Stored' /\ Posted'
    BY <1>1 DEF Faithful, Stored, Posted, OfItself
  <1>5. Loaded'
    BY <1>1, <1>2, <1>3 DEF Faithful, Loaded, Made
  <1>6. Screen'
    BY <1>1, <1>2, <1>3 DEF Faithful, Screen, OfItself
  <1> QED BY <1>4, <1>5, <1>6 DEF Faithful

LEMMA PostFailsFaithful ==
  ASSUME Inv, Counted, Faithful, NEW p \in posts, PostFails(p) PROVE Faithful'
  <1>1. /\ posts' = {} /\ status' = "error"
        /\ UNCHANGED <<rows, server, history, shown, links, load, newest>>
    BY DEF PostFails, Faithful, Posted, historyVars, panel
  <1>2. \A e : Unstored(e)' = {}
    BY <1>1 DEF Unstored
  <1>3. Active' = Active /\ Held' = Held
    BY <1>1 DEF Active, Held
  <1>4. Stored' /\ Posted'
    BY <1>1 DEF Faithful, Stored, Posted, OfItself
  <1>5. Loaded'
    BY <1>1, <1>2, <1>3 DEF Faithful, Loaded, Made
  <1>6. Screen'
    BY <1>1, <1>3 DEF Faithful, Screen, OfItself
  <1> QED BY <1>4, <1>5, <1>6 DEF Faithful

\* The stored links go out, with no list on its way that they miss
LEMMA LoadServedFaithful ==
  ASSUME Inv, Counted, Faithful, ~disturbed', LoadServed PROVE Faithful'
  <1>1. /\ load # Nothing /\ load.entry \in Held /\ load.entry = Active
        /\ load' = [load EXCEPT !.answered = TRUE, !.got = server[load.entry]]
        /\ \A p \in posts : p.entry = load.entry => p.stored
        /\ UNCHANGED <<rows, server, history, shown, links, status, posts, newest>>
    BY DEF LoadServed, Faithful, Loaded, historyVars, panel
  <1>2. load \in Load /\ load.entry \in Versions
    BY <1>1, HeldAreVersions DEF Inv, LinksOK
  <1>3. load' \in Load /\ load'.entry = load.entry /\ load'.got = server[load.entry]
    BY <1>1, <1>2 DEF Load, Inv, LinksOK
  <1>4. load' # Nothing
    BY <1>3, NothingIsNoRequest
  <1>5. Active' = Active /\ Held' = Held
    BY <1>1 DEF Active, Held
  <1>6. Unstored(load.entry)' = {}
    BY <1>1 DEF Unstored
  <1>7. Stored' /\ Posted'
    BY <1>1, <1>5 DEF Faithful, Stored, Posted, OfItself, Made
  <1>8. Loaded'
    BY <1>1, <1>3, <1>5, <1>6 DEF Faithful, Loaded, Made
  <1> QED BY <1>4, <1>7, <1>8 DEF Faithful, Screen

\* They arrive: the screen has the stored links
LEMMA LoadReturnsFaithful == ASSUME Inv, Counted, Faithful, LoadReturns PROVE Faithful'
  <1>1. /\ load # Nothing /\ load.answered /\ load' = Nothing /\ links' = load.got
        /\ UNCHANGED <<rows, server, history, shown, status, posts, newest>>
    BY DEF LoadReturns, historyVars, panel
  <1>2. Active \in Held => Unstored(Active) = {} /\ load.got = server[Active]
    BY <1>1 DEF Faithful, Loaded
  <1>3. Active' = Active /\ Held' = Held
    BY <1>1 DEF Active, Held
  <1>4. Stored' /\ Posted' /\ Loaded'
    BY <1>1, <1>3 DEF Faithful, Stored, Posted, Loaded, OfItself, Made
  <1>5. Active \in Held => Unstored(Active)' = {}
    BY <1>1, <1>2, <1>3 DEF Unstored
  <1>6. Active \in Held => OfItself(server[Active], Active)
    BY HeldAreVersions DEF Faithful, Stored
  <1>7. Screen'
    BY <1>1, <1>2, <1>3, <1>5, <1>6 DEF Screen, OfItself
  <1> QED BY <1>4, <1>7 DEF Faithful

\* A load fails undisturbed only for an entry that the server does not hold
LEMMA LoadFailsFaithful ==
  ASSUME Inv, Counted, Faithful, ~disturbed', LoadFails PROVE Faithful'
  <1>1. /\ load # Nothing /\ load.entry \notin Held /\ load' = Nothing
        /\ UNCHANGED <<rows, server, history, shown, status, posts, newest>>
    BY DEF LoadFails, historyVars, panel
  <1>2. Active \notin Held
    BY <1>1 DEF Faithful, Loaded
  <1>3. Active' = Active /\ Held' = Held
    BY <1>1 DEF Active, Held
  <1>4. Stored' /\ Posted' /\ Loaded'
    BY <1>1, <1>3 DEF Faithful, Stored, Posted, Loaded, OfItself, Made
  <1>5. Screen'
    BY <1>2, <1>3 DEF Screen
  <1> QED BY <1>4, <1>5 DEF Faithful

\* A new version has a number that no link, load or post has
LEMMA NewVersionFaithful ==
  ASSUME Inv, Counted, Faithful, NewVersion,
         UNCHANGED <<history, shown, links, status, load, posts>>
  PROVE  Faithful'
  <1>1. newest' = newest + 1 /\ server' = server
    BY DEF NewVersion
  <1>2. ASSUME NEW e \in Held', Made(e) PROVE e \in Held
    <2>1. e \in Versions /\ (e \in ToSet(rows) \/ e = newest + 1)
      BY NewVersionFits DEF Held, Inv
    <2>2. e # newest + 1
      BY <1>2, <2>1 DEF Made, Versions, Inv, HistoryOK
    <2> QED BY <2>1, <2>2 DEF Held
  <1>3. \A e \in Versions : OfItself(server'[e], e)
    BY <1>1 DEF Faithful, Stored
  <1> QED BY <1>1, <1>2, <1>3, ListChanges

\* A removed version takes its links along and is not held any more
LEMMA RemoveFaithful ==
  ASSUME Inv, Counted, Faithful, NEW v, RemoveVersion(v),
         UNCHANGED <<history, shown, links, status, load, posts>>
  PROVE  Faithful'
  <1>1. newest' = newest /\ server' = [server EXCEPT ![v] = {}]
    BY DEF RemoveVersion
  <1>2. \A e \in Versions : server'[e] = IF e = v THEN {} ELSE server[e]
    BY <1>1 DEF Inv, LinksOK
  <1>3. \A e \in Versions : OfItself(server'[e], e)
    BY <1>2 DEF Faithful, Stored, OfItself
  <1>4. \A e \in Held' : e \in Held /\ e # v
    BY RemovedListed DEF Held
  <1>5. \A e \in Held' : e \in Held /\ server'[e] = server[e]
    BY <1>2, <1>4, HeldAreVersions
  <1> QED BY <1>1, <1>3, <1>5, ListChanges

\* Without its last version the viewer shows no entry of the server
LEMMA CloseFaithful ==
  ASSUME Inv, Counted, Faithful, NEW t \in tasks, LastDeleted(t), Close(t),
         UNCHANGED <<rows, server, status, posts, newest>>
  PROVE  Faithful'
  <1>1. /\ Held' = Held /\ load' = Nothing /\ history' = t.rows /\ shown' = 1
        /\ UNCHANGED <<rows, server, status, posts, newest>>
    BY DEF Close, Held
  <1>2. Active' \notin Held
    <2> SUFFICES ASSUME Active' \in Versions PROVE FALSE
      BY HeldAreVersions
    <2>1. t.rows \in Seq(Versions \cup Marks)
      BY DEF Inv, HistoryOK, Task, Lists
    <2>2. 1 \in 1..Len(t.rows) /\ Active' = t.rows[1]
      BY <1>1 DEF Active, EntryAt, Versions
    <2>3. Active' \in ToSet(t.rows)
      BY <2>1, <2>2, MembersAre
    <2> QED BY <2>3 DEF LastDeleted
  <1>3. Stored' /\ Posted'
    BY <1>1 DEF Faithful, Stored, Posted, OfItself, Made
  <1>4. Loaded' /\ Screen'
    BY <1>1, <1>2 DEF Loaded, Screen
  <1> QED BY <1>3, <1>4 DEF Faithful

LEMMA ProgressFaithful ==
  ASSUME Inv, Counted, Faithful, Inv', Counted', Progress PROVE Faithful'
  <1>1. ASSUME NEW t \in tasks, TaskServed(t) PROVE Faithful'
    <2>1. UNCHANGED <<history, shown, links, status, load, posts>>
      BY <1>1 DEF TaskServed, panel, drawing
    <2> QED BY <1>1, <2>1, NewVersionFaithful, RemoveFaithful DEF TaskServed
  <1>2. ASSUME NEW t \in tasks, TaskAnswered(t) \/ TaskListed(t) \/ TaskFails(t) PROVE Faithful'
    <2>1. UNCHANGED <<rows, server, history, shown, links, status, load, posts, newest>>
      BY <1>2 DEF TaskAnswered, TaskListed, TaskFails, panel, drawing
    <2> QED BY <2>1, FaithfulStays
  <1>3. ASSUME NEW t \in tasks, TaskReturns(t) PROVE Faithful'
    <2>1. UNCHANGED <<rows, server, status, posts, newest>>
      BY <1>3 DEF TaskReturns
    <2> QED BY <1>3, <2>1, CloseFaithful, ShowFaithful DEF TaskReturns, ListShown
  <1>4. ASSUME NEW t \in tasks, FileFetched(t) PROVE Faithful'
    BY <1>4, ShowFaithful DEF FileFetched
  <1> QED BY <1>1, <1>2, <1>3, <1>4 DEF Progress

LEMMA OthersFaithful == ASSUME Inv, Counted, Faithful, Others PROVE Faithful'
  <1>1. UNCHANGED <<history, shown, links, status, load, posts>>
    BY DEF Others, OtherSaves, OtherDeletes, panel, drawing
  <1> QED BY <1>1, NewVersionFaithful, RemoveFaithful DEF Others, OtherSaves, OtherDeletes

-----------------------------------------------------------------------------
(* The theorems about behaviours that nothing disturbs *)

LEMMA HonestInit == Init => Honest
  <1> SUFFICES ASSUME Init PROVE Faithful
    BY DEF Honest
  <1>1. /\ server = [v \in Versions |-> {}] /\ load = Nothing /\ posts = {}
        /\ history = <<Initial>> /\ shown = 1
    BY DEF Init
  <1>2. Stored /\ Posted /\ Loaded
    BY <1>1 DEF Stored, Posted, Loaded, OfItself
  <1>3. Active = Initial
    BY <1>1 DEF Active, EntryAt
  <1>4. Screen
    BY <1>3 DEF Screen, Held, Versions
  <1> QED BY <1>2, <1>4 DEF Faithful

\* Every step that leaves nothing disturbed keeps the links faithful
LEMMA HonestNext == Inv /\ Counted /\ Honest /\ [Next]_vars => Honest'
  <1> SUFFICES ASSUME Inv, Counted, Honest, [Next]_vars, ~disturbed' PROVE Faithful'
    BY DEF Honest
  <1>0. Faithful /\ Inv' /\ Counted'
    BY DisturbedStays, InvNext, CountedNext DEF Honest
  <1>1. CASE User
    <2>1. ASSUME NEW i \in 1..Len(history), PickVersion(i) PROVE Faithful'
      BY <1>0, <2>1, ShowFaithful DEF PickVersion
    <2>2. ASSUME NEW i \in 1..Len(history), DeleteVersion(i) PROVE Faithful'
      BY <1>0, <2>2, FaithfulStays DEF DeleteVersion, panel, drawing
    <2>3. ASSUME NEW k \in {"save", "event"}, WorkflowStep(k) PROVE Faithful'
      BY <1>0, <2>3, ShowFaithful DEF WorkflowStep
    <2>4. CASE (\E s \in Sides : ClickPoint(s)) \/ Refresh \/ NewFile
      <3>1. UNCHANGED <<rows, server, history, shown, links, status, load, posts, newest>>
        BY <2>4 DEF ClickPoint, Refresh, NewFile, historyVars, panel, drawing
      <3> QED BY <1>0, <3>1, FaithfulStays
    <2>5. CASE SaveLinks
      <3>1. /\ links' = links /\ Persist(Active, links)
            /\ UNCHANGED <<rows, server, history, shown, load, newest>>
        BY <2>5 DEF SaveLinks, historyVars, panel
      <3> QED BY <1>0, <3>1, PersistFaithful, ActiveMade
    <2> QED BY <1>1, <2>1, <2>2, <2>3, <2>4, <2>5 DEF User
  <1>2. CASE Others
    BY <1>0, <1>2, OthersFaithful
  <1>3. CASE Posting
    BY <1>0, <1>3, PostServedFaithful, PostReturnsFaithful, PostFailsFaithful DEF Posting
  <1>4. CASE Hashing
    <2>1. ASSUME NEW c \in clicks, FirstPoint(c) PROVE Faithful'
      <3>1. UNCHANGED <<rows, server, history, shown, links, status, load, posts, newest>>
        BY <2>1 DEF FirstPoint, historyVars, panel
      <3> QED BY <1>0, <3>1, FaithfulStays
    <2>2. ASSUME NEW c \in clicks, SecondPoint(c) PROVE Faithful'
      <3> DEFINE l == [n |-> c.n, of |-> c.entry]
      <3>1. /\ links' = links \cup {l} /\ l.of = c.entry /\ Persist(c.entry, links')
            /\ UNCHANGED <<rows, server, history, shown, load, newest>>
        BY <2>2 DEF SecondPoint, historyVars, panel
      <3>2. c.entry \in Entries
        BY DEF Inv, LinksOK, Click
      <3> HIDE DEF l
      <3> QED BY <1>0, <3>1, <3>2, PersistFaithful
    <2> QED BY <1>4, <2>1, <2>2 DEF Hashing
  <1>5. CASE Listing
    <2>1. CASE RefreshServed \/ RefreshFails
      <3>1. UNCHANGED <<rows, server, history, shown, links, status, load, posts, newest>>
        BY <2>1 DEF RefreshServed, RefreshFails, panel, drawing
      <3> QED BY <1>0, <3>1, FaithfulStays
    <2>2. CASE RefreshReturns
      BY <1>0, <2>2, ShowFaithful DEF RefreshReturns
    <2> QED BY <1>5, <2>1, <2>2 DEF Listing
  <1>6. CASE Loading
    BY <1>0, <1>6, LoadServedFaithful, LoadReturnsFaithful, LoadFailsFaithful DEF Loading
  <1>7. CASE Progress
    BY <1>0, <1>7, ProgressFaithful
  <1>8. CASE UNCHANGED vars
    BY <1>0, <1>8, FaithfulStays DEF vars, panel, drawing
  <1> QED BY <1>1, <1>2, <1>3, <1>4, <1>5, <1>6, <1>7, <1>8 DEF Next

LEMMA AlwaysHonest == Spec => [](Inv /\ Counted /\ Honest)
  <1>1. Init => Inv /\ Counted /\ Honest
    BY InvInit, CountedInit, HonestInit
  <1>2. (Inv /\ Counted /\ Honest) /\ [Next]_vars => (Inv /\ Counted /\ Honest)'
    BY InvNext, CountedNext, HonestNext
  <1> QED BY <1>1, <1>2, PTL DEF Spec

\* As long as no list was posted behind another request, a link is stored with
\* the version it was made on and with no other
THEOREM LinksStayWithTheirVersion == Spec => []StoredWithItsVersion
  <1>1. Honest => StoredWithItsVersion
    BY DEF Honest, Faithful, Stored, OfItself, StoredWithItsVersion
  <1> QED BY <1>1, AlwaysHonest, PTL

\* Then the list on the screen is the stored one whenever nothing is on its way
\* and the last save was not refused
THEOREM ScreenShowsStoredLinks == Spec => []ScreenIsStored
  <1>1. Honest => ScreenIsStored
    <2> SUFFICES ASSUME Faithful, posts = {}, load = Nothing, Active \in Held, status # "error"
                 PROVE  links = server[Active]
      BY DEF Honest, ScreenIsStored
    <2>1. Unstored(Active) = {}
      BY DEF Unstored
    <2> QED BY <2>1 DEF Faithful, Screen
  <1> QED BY <1>1, AlwaysHonest, PTL

\* Then no step takes a stored link away, unless it deletes its version
THEOREM StoredLinksAreKept == Spec => LinksKept
  <1> DEFINE Kept == ~disturbed' =>
        \A v \in Versions : server[v] \subseteq server'[v] \/ v \notin Held'
  <1>1. Inv /\ Counted /\ Honest /\ [Next]_vars => [Kept]_vars
    <2> SUFFICES ASSUME Inv, Counted, Honest, Next, ~disturbed', NEW v \in Versions, v \in Held'
                 PROVE  server[v] \subseteq server'[v]
      OBVIOUS
    <2>1. Faithful
      BY DisturbedStays DEF Honest
    <2>2. CASE UNCHANGED server
      BY <2>2
    <2>3. ASSUME NEW u, RemoveVersion(u) PROVE server[v] \subseteq server'[v]
      <3>1. v # u
        BY <2>3, RemovedListed DEF Held
      <3> QED BY <2>3, <3>1 DEF RemoveVersion, Inv, LinksOK
    <2>4. ASSUME NEW p \in posts, PostServed(p) PROVE server[v] \subseteq server'[v]
      <3>1. /\ ~p.stored /\ p.entry \in Held /\ server' = [server EXCEPT ![p.entry] = p.links]
        BY <2>4 DEF PostServed
      <3>2. v = p.entry => server[v] \subseteq p.links
        BY <2>1, <3>1 DEF Faithful, Posted
      <3> QED BY <3>1, <3>2 DEF Inv, LinksOK
    <2>5. CASE User
      BY <2>2, <2>5 DEF User, PickVersion, DeleteVersion, WorkflowStep, ClickPoint, Refresh,
         NewFile, SaveLinks
    <2>6. CASE Others
      BY <2>2, <2>3, <2>6 DEF Others, OtherSaves, OtherDeletes, NewVersion
    <2>7. CASE Posting
      BY <2>2, <2>4, <2>7 DEF Posting, PostReturns, PostFails
    <2>8. CASE Hashing \/ Listing \/ Loading
      BY <2>2, <2>8 DEF Hashing, FirstPoint, SecondPoint, Listing, RefreshServed, RefreshReturns,
         RefreshFails, Loading, LoadServed, LoadReturns, LoadFails
    <2>9. CASE Progress
      BY <2>2, <2>3, <2>9 DEF Progress, TaskServed, TaskAnswered, TaskListed, TaskReturns,
         FileFetched, TaskFails, NewVersion
    <2> QED BY <2>5, <2>6, <2>7, <2>8, <2>9 DEF Next
  <1> QED BY <1>1, AlwaysHonest, PTL DEF Spec, LinksKept
=============================================================================
