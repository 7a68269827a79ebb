--------------------------- MODULE SlotStore_proofs ---------------------------
(***************************************************************************)
(* Proofs about SlotStore for any periods and slots and any number of      *)
(* identifiers: IInv is an invariant, and with it every invariant that the *)
(* runs check on small instances; and the tables implement DocumentMatrix. *)
(*                                                                         *)
(* The argument follows the shape of the handlers.  First, a nonempty set  *)
(* of versions has a latest one, and a saved version is above it.  Then    *)
(* what saving a file does to each table (the Saved lemmas), once for the  *)
(* six handlers that do it.  Then one lemma per handler, and the handlers  *)
(* together.  Last, what each handler is in DocumentMatrix.                *)
(***************************************************************************)
EXTENDS SlotStore, TLAPS, WellFoundedInduction

-----------------------------------------------------------------------------
(***************************************************************************)
(* The latest version.                                                     *)
(***************************************************************************)

\* A set of naturals below a bound has a greatest element.
LEMMA GreatestBelow ==
    ASSUME NEW N \in Nat, NEW S \in SUBSET (0 .. N), S # {}
    PROVE  \E m \in S : \A n \in S : n <= m
<1> DEFINE T == {k \in Nat : \E n \in S : k = N - n}
<1>1. \A n \in S : N - n \in T
    OBVIOUS
<1>2. T \subseteq Nat /\ T # {}
    BY <1>1
<1>3. PICK t \in T : \A u \in T : ~ (<<u, t>> \in OpToRel(<, Nat))
    BY <1>2, WFMin, NatLessThanWellFounded
<1>4. \A u \in T : ~ (u < t)
    BY <1>2, <1>3 DEF OpToRel
<1>5. PICK m \in S : t = N - m
    OBVIOUS
<1>6. ASSUME NEW n \in S PROVE n <= m
    <2>1. ~ (N - n < N - m)
        BY <1>1, <1>4, <1>5
    <2> QED
        BY <2>1
<1> QED
    BY <1>6

\* The types of the tables, entry by entry.
LEMMA Types ==
    ASSUME TypeOK
    PROVE  /\ lastId \in Nat /\ lastId <= MaxId /\ MaxId \in Nat
           /\ \A v \in DOMAIN versions :
                /\ v \in 1 .. lastId /\ v \in Id /\ v \in Nat
                /\ versions[v] \in Version
                /\ versions[v].logical \in Id /\ versions[v].kind \in Kind
                /\ versions[v].major \in Nat /\ versions[v].minor \in Nat
           /\ \A l \in DOMAIN logicals :
                /\ l \in 1 .. lastId /\ l \in Id
                /\ logicals[l] \in Logical
                /\ logicals[l].place \in Place /\ logicals[l].status \in Status
                /\ logicals[l].cur \in Id \cup {NULL}
                /\ logicals[l].approved \in Id \cup {NULL}
           /\ \A d \in DOMAIN rows :
                /\ d \in 1 .. lastId /\ d \in Id
                /\ rows[d] \in Row
                /\ rows[d].place \in Place /\ rows[d].from \in SlotId \cup {NULL}
                /\ rows[d].logical \in Id /\ rows[d].cur \in Id
                /\ rows[d].shared \in BOOLEAN /\ rows[d].spi \in BOOLEAN
                /\ rows[d].name \in {"pdf", "image"}
           /\ stored \subseteq 1 .. lastId
<1>1. lastId \in Nat /\ lastId <= MaxId /\ MaxId \in Nat
    BY MaxIdAssumption DEF TypeOK
<1>2. \A v \in DOMAIN versions : versions[v] \in Version /\ v \in 1 .. lastId
    BY DEF TypeOK
<1>3. \A l \in DOMAIN logicals : logicals[l] \in Logical /\ l \in 1 .. lastId
    BY DEF TypeOK
<1>4. \A d \in DOMAIN rows : rows[d] \in Row /\ d \in 1 .. lastId
    BY DEF TypeOK
<1>5. stored \subseteq 1 .. lastId
    BY DEF TypeOK
<1> QED
    BY <1>1, <1>2, <1>3, <1>4, <1>5 DEF Version, Logical, Row, Id

\* Places made from issued identifiers are places, and stay so.  One made from d is
\* neither a slot nor made from another identifier.
LEMMA Places ==
    ASSUME TypeOK
    PROVE  /\ \A s \in IssuedSlot : s \in SlotId
           /\ \A p \in Period \X IssuedSlot : p \in Place /\ p = <<p[1], p[2]>>
                                            /\ p[1] \in Period /\ p[2] \in IssuedSlot
           /\ \A p \in Coordinate : p \in Period \X IssuedSlot /\ p[2] \in Slot
           /\ \A d \in 1 .. lastId : Unassigned(d) \in IssuedSlot /\ Trash(d) \in IssuedSlot
           /\ \A d \in Id : d \notin 1 .. lastId => Trash(d) \notin IssuedSlot
           /\ \A d \in Id : Trash(d) \notin Slot
           /\ \A d, e : Unassigned(d) # Trash(e)
<1>1. \A d \in 1 .. lastId : d \in Id
    BY Types DEF Id
<1>2. \A s \in IssuedSlot : s \in SlotId
    BY <1>1 DEF IssuedSlot, SlotId
<1>3. \A p \in Period \X IssuedSlot : p \in Place /\ p = <<p[1], p[2]>>
                                     /\ p[1] \in Period /\ p[2] \in IssuedSlot
    BY <1>2 DEF Place
<1>4. \A p \in Coordinate : p \in Period \X IssuedSlot /\ p[2] \in Slot
    BY DEF Coordinate, IssuedSlot
<1>5. \A d \in 1 .. lastId : Unassigned(d) \in IssuedSlot /\ Trash(d) \in IssuedSlot
    BY DEF IssuedSlot
<1>6. /\ \A d, e : Unassigned(d) # Trash(e)
      /\ \A d, e : Trash(d) = Trash(e) => d = e
    BY DEF Unassigned, Trash
<1>7. \A d \in Id : Trash(d) \notin Slot
    BY SlotAssumption
<1>8. \A d \in Id : d \notin 1 .. lastId => Trash(d) \notin IssuedSlot
    BY <1>6, <1>7 DEF IssuedSlot
<1> QED
    BY <1>2, <1>3, <1>4, <1>5, <1>6, <1>7, <1>8

LEMMA IssuedGrows ==
    ASSUME lastId \in Nat, lastId' \in Nat, lastId <= lastId'
    PROVE  /\ \A s \in IssuedSlot : s \in IssuedSlot'
           /\ \A p \in Period \X IssuedSlot : p \in Period \X IssuedSlot'
BY DEF IssuedSlot

\* Of any versions one is the latest, and it is the one Latest chooses: the greatest
\* identifier among those of the greatest minor among those of the greatest major.
LEMMA LatestExists ==
    ASSUME TypeOK, NumbersBelowIds, NEW S \in SUBSET (DOMAIN versions), S # {}
    PROVE  IsLatest(Latest(S), S)
<1> DEFINE Majors == {n \in 0 .. MaxId : \E v \in S : versions[v].major = n}
<1>1. \A v \in S : /\ versions[v].major \in 0 .. MaxId
                   /\ versions[v].minor \in 0 .. MaxId
                   /\ v \in 0 .. MaxId
    BY Types DEF NumbersBelowIds
<1>2. PICK a \in Majors : \A n \in Majors : n <= a
    <2>1. Majors # {}
        BY <1>1
    <2> QED
        BY <2>1, GreatestBelow, MaxIdAssumption
<1> DEFINE Minors == {n \in 0 .. MaxId :
                        \E v \in S : versions[v].major = a /\ versions[v].minor = n}
<1>3. PICK b \in Minors : \A n \in Minors : n <= b
    <2>1. Minors # {}
        BY <1>1, <1>2
    <2> QED
        BY <2>1, GreatestBelow, MaxIdAssumption
<1> DEFINE Ids == {v \in S : versions[v].major = a /\ versions[v].minor = b}
<1>4. PICK v \in Ids : \A w \in Ids : w <= v
    <2>1. Ids # {} /\ Ids \in SUBSET (0 .. MaxId)
        BY <1>1, <1>3
    <2> QED
        BY <2>1, GreatestBelow, MaxIdAssumption
<1>5. ASSUME NEW w \in S \ {v} PROVE Newer(v, w)
    <2>1. versions[w].major \in Majors /\ versions[w].major <= a
        BY <1>1, <1>2
    <2>2. versions[w].major = a => versions[w].minor \in Minors /\ versions[w].minor <= b
        BY <1>1, <1>3
    <2>3. versions[w].major = a /\ versions[w].minor = b => w \in Ids /\ w <= v
        BY <1>4
    <2>4. versions[v].major = a /\ versions[v].minor = b /\ v # w
        BY <1>4, <1>5
    <2> QED
        BY <1>1, <1>2, <1>3, <2>1, <2>2, <2>3, <2>4 DEF Newer
<1>6. IsLatest(v, S)
    BY <1>4, <1>5 DEF IsLatest
<1> QED
    BY <1>6 DEF Latest

\* The next number stays below the next identifier, and is above every number of the
\* document unless it opens an audit.
LEMMA NextNumberFacts ==
    ASSUME TypeOK, NumbersBelowIds, NEW l, NEW bump
    PROVE  /\ NextNumber(l, bump).major \in Nat /\ NextNumber(l, bump).minor \in Nat
           /\ NextNumber(l, bump).major <= Fresh /\ NextNumber(l, bump).minor < Fresh
           /\ \/ \A w \in VersionsOf(l) :
                    \/ versions[w].major < NextNumber(l, bump).major
                    \/ /\ versions[w].major = NextNumber(l, bump).major
                       /\ versions[w].minor < NextNumber(l, bump).minor
              \/ NextNumber(l, bump).major = 2 /\ NextNumber(l, bump).minor = 0
<1>1. CASE VersionsOf(l) = {}
    BY <1>1, Types DEF NextNumber, Fresh
<1>2. CASE VersionsOf(l) # {}
    <2> DEFINE p == Latest(VersionsOf(l))
    <2>1. VersionsOf(l) \in SUBSET (DOMAIN versions)
        BY DEF VersionsOf
    <2>2. IsLatest(p, VersionsOf(l))
        BY <1>2, <2>1, LatestExists
    <2>3. /\ p \in 1 .. lastId
          /\ versions[p].major \in Nat /\ versions[p].minor \in Nat
          /\ versions[p].major <= p /\ versions[p].minor < p
        BY <2>1, <2>2, Types DEF IsLatest, NumbersBelowIds
    <2>4. ASSUME NEW w \in VersionsOf(l)
          PROVE  \/ versions[w].major < versions[p].major
                 \/ /\ versions[w].major = versions[p].major
                    /\ versions[w].minor <= versions[p].minor
        <3>1. versions[w].major \in Nat /\ versions[w].minor \in Nat
            BY <2>1, Types
        <3>2. w = p \/ Newer(p, w)
            BY <2>2 DEF IsLatest
        <3> QED
            BY <2>3, <3>1, <3>2 DEF Newer
    <2>5. \A w \in VersionsOf(l) : versions[w].major \in Nat /\ versions[w].minor \in Nat
        BY <2>1, Types
    <2>6. CASE bump = "audit_start"
        <3>1. NextNumber(l, bump) = [major |-> 2, minor |-> 0]
            BY <1>2, <2>6 DEF NextNumber
        <3> QED
            BY <2>3, <3>1, Types DEF Fresh
    <2>7. CASE bump = "major"
        <3>1. NextNumber(l, bump) = [major |-> versions[p].major + 1, minor |-> 0]
            BY <1>2, <2>7 DEF NextNumber
        <3> QED
            BY <2>3, <2>4, <2>5, <3>1, Types DEF Fresh
    <2>8. CASE bump \notin {"audit_start", "major"}
        <3>1. NextNumber(l, bump) = [major |-> versions[p].major,
                                     minor |-> versions[p].minor + 1]
            BY <1>2, <2>8 DEF NextNumber
        <3> QED
            BY <2>3, <2>4, <2>5, <3>1, Types DEF Fresh
    <2> QED
        BY <2>6, <2>7, <2>8
<1> QED
    BY <1>1, <1>2

-----------------------------------------------------------------------------
(***************************************************************************)
(* Saving a file.                                                          *)
(***************************************************************************)

\* The new version: its identifier f is new, the versions that were there stay as
\* they are, and it is the latest of its document unless it opens an audit.
LEMMA SavedVersion ==
    ASSUME TypeOK, NumbersBelowIds, VersionsHaveFiles,
           NEW l \in Id, NEW kind \in Kind, NEW bump, AddVersion(l, kind, bump),
           NEW f, f = Fresh
    PROVE  /\ f \in Id /\ f = lastId + 1 /\ lastId' = f /\ lastId' \in 0 .. MaxId
           /\ f \notin DOMAIN versions
           /\ DOMAIN versions' = DOMAIN versions \cup {f}
           /\ \A v \in DOMAIN versions : versions'[v] = versions[v]
           /\ versions'[f].logical = l /\ versions'[f].kind = kind
           /\ versions' \in [DOMAIN versions' -> Version]
           /\ DOMAIN versions' \subseteq 1 .. lastId'
           /\ stored' \subseteq 1 .. lastId'
           /\ NumbersBelowIds'
           /\ VersionsHaveFiles'
           /\ \A k : VersionsOf(k)' = IF k = l THEN VersionsOf(k) \cup {f} ELSE VersionsOf(k)
           /\ \/ IsLatest(f, VersionsOf(l))'
              \/ versions'[f].major = 2 /\ versions'[f].minor = 0
<1> DEFINE new == [logical |-> l, kind |-> kind,
                   major |-> NextNumber(l, bump).major,
                   minor |-> NextNumber(l, bump).minor]
<1>1. /\ f \in Id /\ f = lastId + 1 /\ lastId' = f /\ lastId' \in 0 .. MaxId
      /\ f \notin DOMAIN versions /\ f \in Nat
    BY Types DEF AddVersion, Fresh, Id
<1>2. versions' = Put(versions, f, new) /\ stored' = stored \cup {f}
    BY DEF AddVersion
<1>3. /\ DOMAIN versions' = DOMAIN versions \cup {f}
      /\ versions'[f] = new
      /\ \A v \in DOMAIN versions : versions'[v] = versions[v]
    BY <1>1, <1>2 DEF Put
<1>4. new \in Version /\ new.major <= f /\ new.minor < f
    BY NextNumberFacts DEF Version
<1>5. versions' \in [DOMAIN versions' -> Version]
    <2>1. versions' = [z \in DOMAIN versions \cup {f} |-> versions'[z]]
        BY <1>2, <1>3 DEF Put
    <2> QED
        BY <1>3, <1>4, <2>1, Types
<1>6. DOMAIN versions' \subseteq 1 .. lastId' /\ stored' \subseteq 1 .. lastId'
    BY <1>1, <1>2, <1>3, Types
<1>7. NumbersBelowIds'
    BY <1>3, <1>4 DEF NumbersBelowIds
<1>8. VersionsHaveFiles'
    BY <1>2, <1>3 DEF VersionsHaveFiles
<1>9. \A k : VersionsOf(k)' = IF k = l THEN VersionsOf(k) \cup {f} ELSE VersionsOf(k)
    BY <1>1, <1>3 DEF VersionsOf
<1>10. \/ IsLatest(f, VersionsOf(l))'
       \/ versions'[f].major = 2 /\ versions'[f].minor = 0
    <2>1. VersionsOf(l) \subseteq DOMAIN versions
        BY DEF VersionsOf
    <2>2. CASE \A w \in VersionsOf(l) :
                    \/ versions[w].major < NextNumber(l, bump).major
                    \/ /\ versions[w].major = NextNumber(l, bump).major
                       /\ versions[w].minor < NextNumber(l, bump).minor
        <3>1. ASSUME NEW w \in VersionsOf(l) PROVE Newer(f, w)'
            <4>1. /\ versions[w].major \in Nat /\ versions[w].minor \in Nat
                  /\ versions'[w] = versions[w]
                BY <1>3, <2>1, Types
            <4>2. new.major \in Nat /\ new.minor \in Nat
                BY <1>4 DEF Version
            <4>3. \/ versions'[f].major > versions'[w].major
                  \/ /\ versions'[f].major = versions'[w].major
                     /\ versions'[f].minor > versions'[w].minor
                BY <1>3, <2>2, <4>1, <4>2
            <4> QED
                BY <4>3 DEF Newer
        <3> QED
            BY <1>9, <3>1 DEF IsLatest
    <2> QED
        BY <1>3, <2>2, NextNumberFacts
<1> QED
    BY <1>1, <1>3, <1>5, <1>6, <1>7, <1>8, <1>9, <1>10

\* The logical documents after a save.  base is the table with the document l in it,
\* made by ensure_logical_document if it was not there; l has the new version f as
\* its current one, and as its approved one when the save is an approval.
LEMMA SavedLogicals ==
    ASSUME IInv, NEW l \in Id, NEW kind \in Kind, NEW bump, AddVersion(l, kind, bump),
           NEW f, f = Fresh,
           NEW base,
           base \in [DOMAIN logicals \cup {l} -> Logical], l \in 1 .. f,
           \A k \in DOMAIN logicals : base[k] = logicals[k],
           \A j, k \in DOMAIN base : base[j].place = base[k].place => j = k,
           \A k \in DOMAIN base : base[k].place \in Period \X IssuedSlot,
           \/ logicals' = MakeCurrent(base, l)
           \/ logicals' = MarkApproved(MakeCurrent(base, l), l, f)
    PROVE  /\ logicals' \in [DOMAIN logicals' -> Logical]
           /\ DOMAIN logicals' \subseteq 1 .. lastId'
           /\ VersionsOwned' /\ CurrentOwned' /\ CurrentIsLatest'
           /\ OneLogicalPerPlace' /\ LogicalPlacesIssued' /\ ApprovedNamesVersion'
<1>0. TypeOK /\ NumbersBelowIds /\ VersionsHaveFiles
    BY DEF IInv
<1>1. /\ f \in Id /\ f = lastId + 1 /\ lastId' = f
      /\ f \notin DOMAIN versions
      /\ DOMAIN versions' = DOMAIN versions \cup {f}
      /\ \A v \in DOMAIN versions : versions'[v] = versions[v]
      /\ versions'[f].logical = l
      /\ \A k : VersionsOf(k)' = IF k = l THEN VersionsOf(k) \cup {f} ELSE VersionsOf(k)
      /\ \/ IsLatest(f, VersionsOf(l))'
         \/ versions'[f].major = 2 /\ versions'[f].minor = 0
    BY ONLY <1>0, SavedVersion, l \in Id, kind \in Kind, AddVersion(l, kind, bump), f = Fresh
<1> USE DEF IInv
<1>2. /\ DOMAIN logicals' = DOMAIN logicals \cup {l}
      /\ \A k \in DOMAIN logicals : k # l => logicals'[k] = logicals[k]
      /\ logicals'[l].cur = f
      /\ logicals'[l].place = base[l].place
      /\ \/ logicals'[l].status = "uploaded" /\ logicals'[l].approved = base[l].approved
         \/ logicals'[l].status = "approved" /\ logicals'[l].approved = f
      /\ logicals' \in [DOMAIN logicals \cup {l} -> Logical]
    <2> DEFINE saved == [base[l] EXCEPT !.cur = f, !.status = "uploaded"]
               signed == [saved EXCEPT !.approved = f, !.status = "approved"]
    <2>1. /\ saved \in Logical /\ signed \in Logical
          /\ saved.place = base[l].place /\ signed.place = base[l].place
          /\ saved.cur = f /\ signed.cur = f
          /\ saved.approved = base[l].approved /\ signed.approved = f
          /\ saved.status = "uploaded" /\ signed.status = "approved"
        <3>1. base[l] \in Logical
            OBVIOUS
        <3> QED
            BY <1>1, <3>1 DEF Logical, Status
    <2>2. CASE logicals' = MakeCurrent(base, l)
        <3>1. logicals' = [base EXCEPT ![l] = saved]
            BY <2>2 DEF MakeCurrent
        <3> HIDE DEF saved
        <3> QED
            BY <2>1, <3>1
    <2>3. CASE logicals' = MarkApproved(MakeCurrent(base, l), l, f)
        <3>1. logicals' = [base EXCEPT ![l] = signed]
            BY <2>3 DEF MakeCurrent, MarkApproved
        <3> HIDE DEF saved, signed
        <3> QED
            BY <2>1, <3>1
    <2> QED
        BY <2>2, <2>3
<1>3. logicals' \in [DOMAIN logicals' -> Logical]
    BY <1>2
<1>4. DOMAIN logicals' \subseteq 1 .. lastId'
    BY <1>1, <1>2, Types
<1>5. VersionsOwned'
    BY <1>1, <1>2 DEF VersionsOwned
<1>6. CurrentOwned'
    BY <1>1, <1>2 DEF CurrentOwned
<1>7. CurrentIsLatest'
    <2> SUFFICES ASSUME NEW k \in DOMAIN logicals', logicals'[k].cur # NULL
                 PROVE  \/ IsLatest(logicals[k].cur, VersionsOf(k))'
                        \/ /\ versions'[logicals'[k].cur].major = 2
                           /\ versions'[logicals'[k].cur].minor = 0
        BY DEF CurrentIsLatest
    <2>1. CASE k = l
        BY <1>1, <1>2, <2>1
    <2>2. CASE k # l
        <3>1. /\ k \in DOMAIN logicals /\ logicals'[k] = logicals[k]
              /\ VersionsOf(k)' = VersionsOf(k) /\ VersionsOf(k) \subseteq DOMAIN versions
              /\ logicals[k].cur \in VersionsOf(k)
            BY <1>1, <1>2, <2>2 DEF CurrentOwned, VersionsOf
        <3>2. \A v, w \in VersionsOf(k) : Newer(v, w) => Newer(v, w)'
            BY <1>1, <3>1 DEF Newer
        <3> QED
            BY <1>1, <3>1, <3>2 DEF CurrentIsLatest, IsLatest
    <2> QED
        BY <2>1, <2>2
<1>8. OneLogicalPerPlace'
    <2>1. \A k \in DOMAIN logicals' : logicals'[k].place = base[k].place
        BY <1>2
    <2> QED
        BY <1>2, <2>1 DEF OneLogicalPerPlace
<1>9. ApprovedNamesVersion'
    BY <1>1, <1>2, NullAssumption DEF ApprovedNamesVersion
<1>10. LogicalPlacesIssued'
    <2>1. \A k \in DOMAIN logicals' : logicals'[k].place \in Period \X IssuedSlot
        BY <1>2
    <2>2. lastId \in Nat /\ lastId' \in Nat /\ lastId <= lastId'
        BY <1>1, Types
    <2> QED
        BY <2>1, <2>2, IssuedGrows DEF LogicalPlacesIssued
<1> QED
    BY <1>3, <1>4, <1>5, <1>6, <1>7, <1>8, <1>9, <1>10

\* ensure_logical_document: its answer is the one logical document at the coordinate.
LEMMA EnsureLogicalFacts ==
    ASSUME IInv, lastId < MaxId, NEW p \in Coordinate
    PROVE  /\ LogicalFor(p) \in Id /\ LogicalFor(p) \in 1 .. Fresh
           /\ EnsureLogical(p) \in [DOMAIN logicals \cup {LogicalFor(p)} -> Logical]
           /\ \A k \in DOMAIN logicals : EnsureLogical(p)[k] = logicals[k]
           /\ \A j, k \in DOMAIN EnsureLogical(p) :
                EnsureLogical(p)[j].place = EnsureLogical(p)[k].place => j = k
           /\ \A k \in DOMAIN EnsureLogical(p) :
                EnsureLogical(p)[k].place \in Period \X IssuedSlot
<1> USE DEF IInv
<1>1. /\ Fresh \in Id /\ Fresh = lastId + 1 /\ lastId \in Nat
      /\ \A k \in DOMAIN logicals : k \in 1 .. lastId /\ logicals[k] \in Logical
      /\ logicals \in [DOMAIN logicals -> Logical]
    BY Types DEF Fresh, Id, TypeOK
<1>0. /\ p \in Place /\ p \in Period \X IssuedSlot
      /\ \A k \in DOMAIN logicals : logicals[k].place \in Period \X IssuedSlot
    BY Places DEF LogicalPlacesIssued
<1>2. CASE LogicalsAt(p) = {}
    <2> DEFINE new == [place |-> p, status |-> "empty", cur |-> NULL, approved |-> NULL]
    <2>1. /\ LogicalFor(p) = Fresh
          /\ EnsureLogical(p) = [z \in DOMAIN logicals \cup {Fresh} |->
                                    IF z = Fresh THEN new ELSE logicals[z]]
        BY <1>2 DEF LogicalFor, EnsureLogical, Put
    <2>2. new \in Logical /\ new.place = p
        BY <1>0 DEF Logical, Status
    <2>3. Fresh \notin DOMAIN logicals
        BY <1>1
    <2>4. \A k \in DOMAIN logicals : logicals[k].place # p
        BY <1>2 DEF LogicalsAt
    <2> HIDE DEF new
    <2> QED
        BY <1>0, <1>1, <2>1, <2>2, <2>3, <2>4 DEF OneLogicalPerPlace
<1>3. CASE LogicalsAt(p) # {}
    <2>1. LogicalFor(p) \in LogicalsAt(p) /\ EnsureLogical(p) = logicals
        BY <1>3 DEF LogicalFor, EnsureLogical
    <2>2. LogicalFor(p) \in DOMAIN logicals
        BY <2>1 DEF LogicalsAt
    <2>3. DOMAIN logicals \cup {LogicalFor(p)} = DOMAIN logicals
        BY <2>2
    <2> QED
        BY <1>0, <1>1, <2>1, <2>2, <2>3, Types DEF OneLogicalPerPlace
<1> QED
    BY <1>2, <1>3

\* The rows after a save at a place: the one row there shows the new version.
LEMMA SavedRows ==
    ASSUME IInv, NEW p \in Period \X IssuedSlot, NEW l \in Id,
           NEW kind \in Kind, NEW bump, AddVersion(l, kind, bump),
           NEW shared \in BOOLEAN, NEW spi \in BOOLEAN, spi => ~shared,
           shared => p[2] \in Slot \/ Shared(p),
           UpsertRow(p, l, kind, shared, spi)
    PROVE  /\ rows' \in [DOMAIN rows' -> Row]
           /\ DOMAIN rows' \subseteq 1 .. lastId'
           /\ RowShowsOwnVersion' /\ VersionsIssued'
           /\ OneRowPerPlace' /\ RowPlacesIssued'
           /\ FlaggedRowNotShared' /\ TrashedRowWithdrawn'
<1> USE DEF IInv
<1> DEFINE d0 == RowFor(p)
           new == [place |-> p, logical |-> l, cur |-> Fresh, from |-> From(p),
                   shared |-> shared, spi |-> spi, name |-> NameOf(kind)]
<1>2. /\ Fresh \in Id /\ Fresh = lastId + 1 /\ lastId' = Fresh /\ lastId \in Nat
      /\ DOMAIN versions' = DOMAIN versions \cup {Fresh}
      /\ \A v \in DOMAIN versions : versions'[v] = versions[v]
      /\ versions'[Fresh].logical = l
    BY SavedVersion, Types
<1>3. \A d \in DOMAIN rows :
        /\ d \in 1 .. lastId /\ rows[d] \in Row /\ rows[d].cur \in 1 .. lastId
        /\ rows[d].place \in Period \X IssuedSlot
        /\ rows[d].from \in IssuedSlot \cup {NULL} /\ rows[d].from # Trash(d)
    BY Types DEF VersionsIssued, RowPlacesIssued
\* The row is a new one, and its place was not made from its id, or the one there.
<1>4. /\ d0 \in Id /\ d0 \in 1 .. Fresh
      /\ From(p) \in IssuedSlot \cup {NULL} /\ From(p) # Trash(d0)
      /\ \A d \in DOMAIN rows : rows[d].place = p => d = d0
      /\ p[2] = Trash(d0) => ~shared /\ From(p) # NULL
    <2>1. CASE RowsAt(p) = {}
        <3>1. d0 = Fresh /\ From(p) = NULL /\ \A d \in DOMAIN rows : rows[d].place # p
            BY <2>1 DEF RowFor, From, RowsAt
        <3>2. p[2] # Trash(d0)
            BY <1>2, <3>1, Places
        <3>3. NULL # Trash(d0)
            BY <1>2, <3>1, NullAssumption DEF SlotId
        <3> QED
            BY <1>2, <3>1, <3>2, <3>3
    <2>2. CASE RowsAt(p) # {}
        <3>1. d0 \in RowsAt(p) /\ From(p) = rows[d0].from
            BY <2>2 DEF RowFor, From
        <3>2. d0 \in DOMAIN rows /\ rows[d0].place = p
            BY <3>1 DEF RowsAt
        <3>3. p[2] = Trash(d0) => ~Shared(p) /\ p[2] \notin Slot /\ From(p) # NULL
            BY <3>1, <3>2, Places, Types DEF TrashedRowWithdrawn, Shared
        <3> QED
            BY <1>2, <1>3, <3>1, <3>2, <3>3, Types DEF OneRowPerPlace
    <2> QED
        BY <2>1, <2>2
<1>5. /\ new \in Row
      /\ new.place = p /\ new.cur = Fresh /\ new.logical = l
      /\ new.from = From(p) /\ new.shared = shared /\ new.spi = spi
    <2>1. p \in Place /\ From(p) \in SlotId \cup {NULL}
        BY <1>4, Places
    <2> QED
        BY <1>2, <2>1 DEF Row, NameOf
<1>6. rows' = [d \in DOMAIN rows \cup {d0} |-> IF d = d0 THEN new ELSE rows[d]]
    BY DEF UpsertRow, Put
<1> HIDE DEF new, d0
<1>7. /\ DOMAIN rows' = DOMAIN rows \cup {d0} /\ rows'[d0] = new
      /\ \A d \in DOMAIN rows : d # d0 => rows'[d] = rows[d]
    BY <1>6
<1>8. rows' \in [DOMAIN rows' -> Row]
    BY <1>3, <1>5, <1>6
<1>9. DOMAIN rows' \subseteq 1 .. lastId'
    BY <1>2, <1>3, <1>4, <1>7
<1>10. RowShowsOwnVersion' /\ VersionsIssued'
    BY <1>2, <1>3, <1>5, <1>7 DEF RowShowsOwnVersion, VersionsIssued
<1>11. OneRowPerPlace'
    BY <1>4, <1>5, <1>7 DEF OneRowPerPlace
<1>12. RowPlacesIssued'
    <2>1. \A d \in DOMAIN rows' :
            /\ rows'[d].place \in Period \X IssuedSlot
            /\ rows'[d].from \in IssuedSlot \cup {NULL} /\ rows'[d].from # Trash(d)
        BY <1>3, <1>4, <1>5, <1>7
    <2>2. lastId \in Nat /\ lastId' \in Nat /\ lastId <= lastId'
        BY <1>2
    <2> QED
        BY <2>1, <2>2, IssuedGrows DEF RowPlacesIssued
<1>13. FlaggedRowNotShared'
    BY <1>5, <1>7 DEF FlaggedRowNotShared
<1>14. TrashedRowWithdrawn'
    BY <1>4, <1>5, <1>7 DEF TrashedRowWithdrawn
<1> QED
    BY <1>8, <1>9, <1>10, <1>11, <1>12, <1>13, <1>14

\* A save at a coordinate, whichever handler asks for it.
LEMMA SavedAtPlace ==
    ASSUME IInv, NEW p \in Coordinate, NEW kind \in Kind, NEW bump,
           AddVersion(LogicalFor(p), kind, bump),
           \/ logicals' = MakeCurrent(EnsureLogical(p), LogicalFor(p))
           \/ logicals' = MarkApproved(MakeCurrent(EnsureLogical(p), LogicalFor(p)),
                                       LogicalFor(p), Fresh),
           NEW shared \in BOOLEAN, NEW spi \in BOOLEAN, spi => ~shared,
           UpsertRow(p, LogicalFor(p), kind, shared, spi)
    PROVE  IInv'
<1>1. TypeOK /\ NumbersBelowIds /\ VersionsHaveFiles /\ lastId < MaxId
    BY DEF IInv, AddVersion
<1>2. /\ LogicalFor(p) \in Id /\ LogicalFor(p) \in 1 .. Fresh
      /\ EnsureLogical(p) \in [DOMAIN logicals \cup {LogicalFor(p)} -> Logical]
      /\ \A k \in DOMAIN logicals : EnsureLogical(p)[k] = logicals[k]
      /\ \A j, k \in DOMAIN EnsureLogical(p) :
            EnsureLogical(p)[j].place = EnsureLogical(p)[k].place => j = k
      /\ \A k \in DOMAIN EnsureLogical(p) :
            EnsureLogical(p)[k].place \in Period \X IssuedSlot
      /\ p \in Period \X IssuedSlot /\ p[2] \in Slot
    BY <1>1, EnsureLogicalFacts, Places
<1>3. /\ lastId' \in 0 .. MaxId
      /\ versions' \in [DOMAIN versions' -> Version]
      /\ DOMAIN versions' \subseteq 1 .. lastId'
      /\ stored' \subseteq 1 .. lastId'
      /\ NumbersBelowIds' /\ VersionsHaveFiles'
    BY <1>1, <1>2, SavedVersion
<1>4. /\ logicals' \in [DOMAIN logicals' -> Logical]
      /\ DOMAIN logicals' \subseteq 1 .. lastId'
      /\ VersionsOwned' /\ CurrentOwned' /\ CurrentIsLatest'
      /\ OneLogicalPerPlace' /\ LogicalPlacesIssued' /\ ApprovedNamesVersion'
    BY <1>2, SavedLogicals
<1>5. /\ rows' \in [DOMAIN rows' -> Row]
      /\ DOMAIN rows' \subseteq 1 .. lastId'
      /\ RowShowsOwnVersion' /\ VersionsIssued'
      /\ OneRowPerPlace' /\ RowPlacesIssued'
      /\ FlaggedRowNotShared' /\ TrashedRowWithdrawn'
    BY <1>2, SavedRows
<1> QED
    BY <1>3, <1>4, <1>5 DEF IInv, TypeOK

\* The share and the flag of the row at a coordinate, as the save handlers read them.
LEMMA RowFlags ==
    ASSUME IInv, NEW p
    PROVE  Shared(p) \in BOOLEAN /\ Spi(p) \in BOOLEAN /\ (Spi(p) => ~Shared(p))
<1>1. CASE RowsAt(p) = {}
    BY <1>1 DEF Shared, Spi
<1>2. CASE RowsAt(p) # {}
    <2>1. RowFor(p) \in RowsAt(p)
        BY <1>2 DEF RowFor
    <2>2. RowFor(p) \in DOMAIN rows
        BY <2>1 DEF RowsAt
    <2>3. rows[RowFor(p)].shared \in BOOLEAN /\ rows[RowFor(p)].spi \in BOOLEAN
        BY <2>2, Types DEF IInv
    <2>4. rows[RowFor(p)].spi => ~rows[RowFor(p)].shared
        BY <2>2 DEF IInv, FlaggedRowNotShared
    <2> QED
        BY <1>2, <2>3, <2>4 DEF Shared, Spi
<1> QED
    BY <1>1, <1>2

LEMMA UploadStep ==
    ASSUME IInv, NEW p \in Coordinate, NEW kind \in Kinds, NEW byClient \in BOOLEAN,
           Upload(p, kind, byClient)
    PROVE  IInv'
<1>1. kind \in Kind
    BY InputAssumption
<1>2. /\ AddVersion(LogicalFor(p), kind, "upload")
      /\ logicals' = MakeCurrent(EnsureLogical(p), LogicalFor(p))
      /\ UpsertRow(p, LogicalFor(p), kind, byClient /\ kind # "spi", kind = "spi")
    BY DEF Upload
<1> DEFINE shared == byClient /\ kind # "spi"
           spi == (kind = "spi")
<1>3. shared \in BOOLEAN /\ spi \in BOOLEAN /\ (spi => ~shared)
    OBVIOUS
<1>4. UpsertRow(p, LogicalFor(p), kind, shared, spi)
    BY <1>2
<1> HIDE DEF shared, spi
<1> QED
    BY <1>1, <1>2, <1>3, <1>4, SavedAtPlace

LEMMA RouteToSlotStep ==
    ASSUME IInv, NEW p \in Coordinate, NEW kind \in Kinds, RouteToSlot(p, kind)
    PROVE  IInv'
<1>1. kind \in Kind
    BY InputAssumption
<1> QED
    BY <1>1, RowFlags, SavedAtPlace DEF RouteToSlot

LEMMA PostVersionStep ==
    ASSUME IInv, NEW p \in Coordinate, NEW bump, PostVersion(p, bump)
    PROVE  IInv'
<1>1. "pdf" \in Kind
    BY DEF Kind
<1>2. /\ AddVersion(LogicalFor(p), "pdf", bump)
      /\ UpsertRow(p, LogicalFor(p), "pdf", Shared(p), Spi(p))
      /\ \/ logicals' = MakeCurrent(EnsureLogical(p), LogicalFor(p))
         \/ logicals' = MarkApproved(MakeCurrent(EnsureLogical(p), LogicalFor(p)),
                                     LogicalFor(p), Fresh)
    BY DEF PostVersion
<1> QED
    BY <1>1, <1>2, RowFlags, SavedAtPlace

-----------------------------------------------------------------------------
(***************************************************************************)
(* Saving behind a row or a version that is there already.                 *)
(***************************************************************************)

\* A save for a logical document that exists.
LEMMA SavedBehind ==
    ASSUME IInv, NEW l \in DOMAIN logicals, NEW kind \in Kind, NEW bump,
           AddVersion(l, kind, bump), logicals' = MakeCurrent(logicals, l)
    PROVE  /\ lastId' = lastId + 1 /\ lastId' \in Id /\ lastId' \in 0 .. MaxId
           /\ logicals' \in [DOMAIN logicals' -> Logical]
           /\ DOMAIN logicals' \subseteq 1 .. lastId'
           /\ VersionsOwned' /\ CurrentOwned' /\ CurrentIsLatest'
           /\ OneLogicalPerPlace' /\ LogicalPlacesIssued' /\ ApprovedNamesVersion'
           /\ versions' \in [DOMAIN versions' -> Version]
           /\ DOMAIN versions' \subseteq 1 .. lastId'
           /\ stored' \subseteq 1 .. lastId'
           /\ NumbersBelowIds' /\ VersionsHaveFiles'
           /\ DOMAIN versions' = DOMAIN versions \cup {Fresh}
           /\ \A v \in DOMAIN versions : versions'[v] = versions[v]
           /\ versions'[Fresh].logical = l
<1>1. TypeOK /\ NumbersBelowIds /\ VersionsHaveFiles /\ OneLogicalPerPlace
    BY DEF IInv
<1>2. /\ l \in Id /\ l \in 1 .. Fresh
      /\ logicals \in [DOMAIN logicals \cup {l} -> Logical]
    <2>1. DOMAIN logicals \cup {l} = DOMAIN logicals
        OBVIOUS
    <2>2. logicals \in [DOMAIN logicals -> Logical]
        BY <1>1 DEF TypeOK
    <2> QED
        BY <1>1, <2>1, <2>2, Types DEF Fresh
<1>3. /\ \A j, k \in DOMAIN logicals : logicals[j].place = logicals[k].place => j = k
      /\ \A k \in DOMAIN logicals : logicals[k].place \in Period \X IssuedSlot
    BY <1>1 DEF OneLogicalPerPlace, IInv, LogicalPlacesIssued
<1>4. /\ lastId' = lastId + 1 /\ lastId' \in Id /\ lastId' \in 0 .. MaxId
      /\ versions' \in [DOMAIN versions' -> Version]
      /\ DOMAIN versions' \subseteq 1 .. lastId'
      /\ stored' \subseteq 1 .. lastId'
      /\ NumbersBelowIds' /\ VersionsHaveFiles'
      /\ DOMAIN versions' = DOMAIN versions \cup {Fresh}
      /\ \A v \in DOMAIN versions : versions'[v] = versions[v]
      /\ versions'[Fresh].logical = l
    BY <1>1, <1>2, SavedVersion
<1>5. /\ logicals' \in [DOMAIN logicals' -> Logical]
      /\ DOMAIN logicals' \subseteq 1 .. lastId'
      /\ VersionsOwned' /\ CurrentOwned' /\ CurrentIsLatest'
      /\ OneLogicalPerPlace' /\ LogicalPlacesIssued' /\ ApprovedNamesVersion'
    BY <1>2, <1>3, SavedLogicals
<1> QED
    BY <1>4, <1>5

LEMMA LinkStampStep ==
    ASSUME IInv, NEW v \in DOMAIN versions, LinkStamp(v)
    PROVE  IInv'
<1>1. PICK l \in DOMAIN logicals : l = versions[v].logical
    BY DEF IInv, VersionsOwned
<1>2. PICK p \in Period \X IssuedSlot : p = logicals[l].place
    BY DEF IInv, LogicalPlacesIssued
<1>3. PICK shared \in BOOLEAN, spi \in BOOLEAN :
        shared = Shared(p) /\ spi = Spi(p) /\ (spi => ~shared)
    BY RowFlags
<1>4. /\ AddVersion(l, "pdf", "minor")
      /\ logicals' = MakeCurrent(logicals, l)
      /\ UpsertRow(p, l, "pdf", shared, spi)
    BY <1>1, <1>2, <1>3 DEF LinkStamp, Stamp
<1>5. l \in Id /\ "pdf" \in Kind
    BY Types DEF IInv, Kind
<1>6. /\ rows' \in [DOMAIN rows' -> Row]
      /\ DOMAIN rows' \subseteq 1 .. lastId'
      /\ RowShowsOwnVersion' /\ VersionsIssued'
      /\ OneRowPerPlace' /\ RowPlacesIssued'
      /\ FlaggedRowNotShared' /\ TrashedRowWithdrawn'
    BY <1>3, <1>4, <1>5, SavedRows
<1> QED
    BY <1>4, <1>5, <1>6, SavedBehind DEF IInv, TypeOK

LEMMA QueuedStampStep ==
    ASSUME IInv, NEW v \in DOMAIN versions, QueuedStamp(v)
    PROVE  IInv'
<1>1. versions[v].logical \in DOMAIN logicals /\ "pdf" \in Kind
    BY DEF IInv, VersionsOwned, Kind
<1>2. /\ AddVersion(versions[v].logical, "pdf", "minor")
      /\ logicals' = MakeCurrent(logicals, versions[v].logical)
      /\ rows' = rows
    BY DEF QueuedStamp, Stamp
<1>3. TypeOK
    BY DEF IInv
<1>4. /\ lastId' = lastId + 1 /\ Fresh = lastId + 1 /\ lastId \in Nat
      /\ DOMAIN versions' = DOMAIN versions \cup {Fresh}
      /\ \A w \in DOMAIN versions : versions'[w] = versions[w]
    BY <1>1, <1>2, <1>3, SavedBehind, Types DEF Fresh
<1>5. RowShowsOwnVersion' /\ VersionsIssued'
    <2>1. \A d \in DOMAIN rows : rows[d].cur \in 1 .. lastId
        BY DEF IInv, VersionsIssued
    <2>2. \A d \in DOMAIN rows : rows[d].cur # Fresh
        BY <1>4, <2>1
    <2>3. RowShowsOwnVersion
        BY DEF IInv
    <2> QED
        BY <1>2, <1>4, <2>1, <2>2, <2>3 DEF RowShowsOwnVersion, VersionsIssued
<1>6. rows' \in [DOMAIN rows' -> Row] /\ DOMAIN rows' \subseteq 1 .. lastId'
    BY <1>2, <1>3, <1>4 DEF TypeOK
<1>7. OneRowPerPlace' /\ FlaggedRowNotShared' /\ TrashedRowWithdrawn'
    BY <1>2 DEF IInv, OneRowPerPlace, FlaggedRowNotShared, TrashedRowWithdrawn
<1>8. RowPlacesIssued'
    <2>1. RowPlacesIssued
        BY DEF IInv
    <2> QED
        BY <1>2, <1>4, <2>1, IssuedGrows DEF RowPlacesIssued
<1> QED
    BY <1>1, <1>2, <1>5, <1>6, <1>7, <1>8, SavedBehind DEF IInv, TypeOK

LEMMA ConvertToPdfStep ==
    ASSUME IInv, NEW d \in DOMAIN rows, ConvertToPdf(d)
    PROVE  IInv'
<1> DEFINE l == rows[d].logical
           new == [rows[d] EXCEPT !.cur = Fresh, !.name = "pdf"]
<1>1. /\ AddVersion(l, "pdf", "upload") /\ logicals' = MakeCurrent(logicals, l)
      /\ rows' = [rows EXCEPT ![d] = new]
      /\ rows[d].cur \in DOMAIN versions
    BY DEF ConvertToPdf
<1>2. TypeOK /\ "pdf" \in Kind
    BY DEF IInv, Kind
<1>3. l \in DOMAIN logicals
    BY <1>1 DEF IInv, RowShowsOwnVersion, VersionsOwned
<1>4. /\ lastId' = lastId + 1 /\ Fresh = lastId + 1 /\ lastId \in Nat /\ Fresh \in Id
      /\ DOMAIN versions' = DOMAIN versions \cup {Fresh}
      /\ \A w \in DOMAIN versions : versions'[w] = versions[w]
      /\ versions'[Fresh].logical = l
    BY <1>1, <1>2, <1>3, SavedBehind, Types DEF Fresh
<1>5. /\ new \in Row /\ new.cur = Fresh
      /\ new.logical = l /\ new.place = rows[d].place /\ new.from = rows[d].from
      /\ new.shared = rows[d].shared /\ new.spi = rows[d].spi
    <2>1. rows[d] \in Row
        BY <1>2, Types
    <2> QED
        BY <1>4, <2>1 DEF Row
<1> HIDE DEF new
<1>6. /\ DOMAIN rows' = DOMAIN rows /\ rows'[d] = new
      /\ \A e \in DOMAIN rows : e # d => rows'[e] = rows[e]
    BY <1>1
<1>7. rows' \in [DOMAIN rows' -> Row] /\ DOMAIN rows' \subseteq 1 .. lastId'
    <2>1. rows \in [DOMAIN rows -> Row] /\ DOMAIN rows \subseteq 1 .. lastId
        BY <1>2 DEF TypeOK
    <2> QED
        BY <1>1, <1>4, <1>5, <1>6, <2>1
<1>8. RowShowsOwnVersion' /\ VersionsIssued'
    <2>1. \A e \in DOMAIN rows : rows[e].cur \in 1 .. lastId
        BY DEF IInv, VersionsIssued
    <2>2. RowShowsOwnVersion
        BY DEF IInv
    <2>3. ASSUME NEW e \in DOMAIN rows', e # d
          PROVE  /\ rows'[e].cur \in 1 .. lastId'
                 /\ rows'[e].cur \in DOMAIN versions' =>
                        versions'[rows'[e].cur].logical = rows'[e].logical
        <3>1. rows'[e] = rows[e] /\ rows[e].cur \in 1 .. lastId /\ rows[e].cur # Fresh
            BY <1>4, <1>6, <2>1, <2>3
        <3>2. rows[e].cur \in DOMAIN versions' => rows[e].cur \in DOMAIN versions
            BY <1>4, <3>1
        <3> QED
            BY <1>4, <1>6, <2>2, <2>3, <3>1, <3>2 DEF RowShowsOwnVersion
    <2>4. /\ rows'[d].cur = Fresh /\ rows'[d].logical = l /\ Fresh \in 1 .. lastId'
        BY <1>4, <1>5, <1>6
    <2> QED
        BY <1>4, <1>6, <2>3, <2>4 DEF RowShowsOwnVersion, VersionsIssued
<1>9. OneRowPerPlace' /\ FlaggedRowNotShared' /\ TrashedRowWithdrawn' /\ RowPlacesIssued'
    <2>1. \A e \in DOMAIN rows :
            /\ rows'[e].place = rows[e].place /\ rows'[e].from = rows[e].from
            /\ rows'[e].shared = rows[e].shared /\ rows'[e].spi = rows[e].spi
        BY <1>5, <1>6
    <2>2. OneRowPerPlace /\ RowPlacesIssued /\ FlaggedRowNotShared /\ TrashedRowWithdrawn
        BY DEF IInv
    <2>3. OneRowPerPlace' /\ FlaggedRowNotShared' /\ TrashedRowWithdrawn'
        BY <1>6, <2>1, <2>2 DEF OneRowPerPlace, FlaggedRowNotShared, TrashedRowWithdrawn
    <2>4. RowPlacesIssued'
        BY <1>4, <1>6, <2>1, <2>2, IssuedGrows DEF RowPlacesIssued
    <2> QED
        BY <2>3, <2>4
<1> QED
    BY <1>1, <1>2, <1>3, <1>7, <1>8, <1>9, SavedBehind DEF IInv, TypeOK

-----------------------------------------------------------------------------
(***************************************************************************)
(* Handlers that save nothing.  The invariant falls into three parts, one  *)
(* for each table, and a handler changes one or two of the tables.         *)
(***************************************************************************)
RowsInv ==
    /\ rows \in [DOMAIN rows -> Row] /\ DOMAIN rows \subseteq 1 .. lastId
    /\ RowShowsOwnVersion /\ VersionsIssued
    /\ OneRowPerPlace /\ RowPlacesIssued
    /\ FlaggedRowNotShared /\ TrashedRowWithdrawn

LogicalsInv ==
    /\ logicals \in [DOMAIN logicals -> Logical] /\ DOMAIN logicals \subseteq 1 .. lastId
    /\ VersionsOwned /\ CurrentOwned /\ CurrentIsLatest
    /\ OneLogicalPerPlace /\ LogicalPlacesIssued /\ ApprovedNamesVersion

FilesInv ==
    /\ lastId \in 0 .. MaxId
    /\ versions \in [DOMAIN versions -> Version] /\ DOMAIN versions \subseteq 1 .. lastId
    /\ stored \subseteq 1 .. lastId
    /\ NumbersBelowIds /\ VersionsHaveFiles

LEMMA Parts == IInv <=> RowsInv /\ LogicalsInv /\ FilesInv
BY DEF IInv, TypeOK, RowsInv, LogicalsInv, FilesInv

LEMMA PartsNext == RowsInv' /\ LogicalsInv' /\ FilesInv' => IInv'
BY DEF IInv, TypeOK, RowsInv, LogicalsInv, FilesInv

LEMMA RowsUntouched ==
    ASSUME RowsInv, UNCHANGED <<rows, versions, lastId>>
    PROVE  RowsInv'
BY DEF RowsInv, RowShowsOwnVersion, VersionsIssued, OneRowPerPlace, RowPlacesIssued,
       IssuedSlot, FlaggedRowNotShared, TrashedRowWithdrawn

LEMMA LogicalsUntouched ==
    ASSUME LogicalsInv, UNCHANGED <<logicals, versions, lastId>>
    PROVE  LogicalsInv'
BY DEF LogicalsInv, VersionsOwned, CurrentOwned, CurrentIsLatest, OneLogicalPerPlace,
       LogicalPlacesIssued, IssuedSlot, ApprovedNamesVersion, VersionsOf, IsLatest, Newer

LEMMA FilesUntouched ==
    ASSUME FilesInv, UNCHANGED <<versions, stored, lastId>>
    PROVE  FilesInv'
BY DEF FilesInv, NumbersBelowIds, VersionsHaveFiles

\* A row may change its place, its origin and its flags: to a place no other row
\* has, and without being shared while it is flagged or in the trash.
LEMMA OneRowEdited ==
    ASSUME RowsInv, NEW d \in DOMAIN rows, NEW new \in Row,
           rows' = [rows EXCEPT ![d] = new], UNCHANGED <<versions, lastId>>,
           new.logical = rows[d].logical, new.cur = rows[d].cur,
           new.place \in Period \X IssuedSlot,
           new.from \in IssuedSlot \cup {NULL}, new.from # Trash(d),
           \A e \in DOMAIN rows \ {d} : rows[e].place # new.place,
           new.spi => ~new.shared,
           new.place[2] = Trash(d) => ~new.shared /\ new.from # NULL
    PROVE  RowsInv'
<1>1. /\ DOMAIN rows' = DOMAIN rows /\ rows'[d] = new
      /\ \A e \in DOMAIN rows \ {d} : rows'[e] = rows[e]
    OBVIOUS
<1>2. rows' \in [DOMAIN rows' -> Row] /\ DOMAIN rows' \subseteq 1 .. lastId'
    BY <1>1 DEF RowsInv
<1>3. RowShowsOwnVersion'
    BY <1>1 DEF RowsInv, RowShowsOwnVersion
<1>4. VersionsIssued'
    BY <1>1 DEF RowsInv, VersionsIssued
<1>5. OneRowPerPlace'
    BY <1>1 DEF RowsInv, OneRowPerPlace
<1>6. RowPlacesIssued'
    BY <1>1 DEF RowsInv, RowPlacesIssued, IssuedSlot
<1>7. FlaggedRowNotShared' /\ TrashedRowWithdrawn'
    BY <1>1 DEF RowsInv, FlaggedRowNotShared, TrashedRowWithdrawn
<1> QED
    BY <1>2, <1>3, <1>4, <1>5, <1>6, <1>7 DEF RowsInv

\* A status may change, to "approved" only when an approved version is named.
LEMMA StatusSet ==
    ASSUME LogicalsInv, NEW l, NEW s \in Status, logicals' = SetStatus(l, s),
           UNCHANGED <<versions, lastId>>,
           l \in DOMAIN logicals /\ s = "approved" => logicals[l].approved # NULL
    PROVE  LogicalsInv'
<1>1. /\ DOMAIN logicals' = DOMAIN logicals
      /\ \A k \in DOMAIN logicals :
            /\ logicals'[k] \in Logical
            /\ logicals'[k].place = logicals[k].place
            /\ logicals'[k].cur = logicals[k].cur
            /\ logicals'[k].approved = logicals[k].approved
            /\ logicals'[k].status = IF k = l THEN s ELSE logicals[k].status
    <2> SUFFICES ASSUME NEW k \in DOMAIN logicals
                 PROVE  /\ logicals'[k] \in Logical
                        /\ logicals'[k].place = logicals[k].place
                        /\ logicals'[k].cur = logicals[k].cur
                        /\ logicals'[k].approved = logicals[k].approved
                        /\ logicals'[k].status = IF k = l THEN s ELSE logicals[k].status
        BY DEF SetStatus
    <2>1. logicals[k] \in Logical
        BY DEF LogicalsInv
    <2>2. logicals'[k] = IF k = l THEN [logicals[k] EXCEPT !.status = s] ELSE logicals[k]
        BY DEF SetStatus
    <2> QED
        BY <2>1, <2>2 DEF Logical
<1>2. logicals' \in [DOMAIN logicals' -> Logical] /\ DOMAIN logicals' \subseteq 1 .. lastId'
    <2>1. logicals' = [k \in DOMAIN logicals |-> logicals'[k]]
        BY DEF SetStatus
    <2> QED
        BY <1>1, <2>1 DEF LogicalsInv
<1>3. VersionsOwned'
    BY <1>1 DEF LogicalsInv, VersionsOwned
<1>4. CurrentOwned' /\ CurrentIsLatest'
    BY <1>1 DEF LogicalsInv, CurrentOwned, CurrentIsLatest, VersionsOf, IsLatest, Newer
<1>5. OneLogicalPerPlace'
    BY <1>1 DEF LogicalsInv, OneLogicalPerPlace
<1>6. ApprovedNamesVersion'
    BY <1>1 DEF LogicalsInv, ApprovedNamesVersion
<1>7. LogicalPlacesIssued'
    BY <1>1 DEF LogicalsInv, LogicalPlacesIssued, IssuedSlot
<1> QED
    BY <1>2, <1>3, <1>4, <1>5, <1>6, <1>7 DEF LogicalsInv

\* A row can take the slot id p made from an identifier, in the period it is in.
LEMMA PlaceOfRow ==
    ASSUME RowsInv, TypeOK, NEW d \in DOMAIN rows, NEW s \in IssuedSlot
    PROVE  /\ WithSlot(rows[d].place, s) \in Period \X IssuedSlot
           /\ WithSlot(rows[d].place, s) \in Place
           /\ WithSlot(rows[d].place, s)[2] = s
           /\ rows[d].place[2] \in IssuedSlot /\ rows[d].place[2] \in SlotId
<1>1. rows[d].place \in Period \X IssuedSlot
    BY DEF RowsInv, RowPlacesIssued
<1>2. rows[d].place[1] \in Period /\ rows[d].place[2] \in IssuedSlot
    BY <1>1
<1>3. WithSlot(rows[d].place, s) \in Period \X IssuedSlot
    BY <1>2 DEF WithSlot
<1> QED
    BY <1>2, <1>3, Places DEF WithSlot

LEMMA DetachStep ==
    ASSUME IInv, NEW d \in DOMAIN rows, Detach(d)
    PROVE  IInv'
<1>1. RowsInv /\ LogicalsInv /\ FilesInv /\ TypeOK
    BY Parts DEF IInv
<1>2. PICK p : p = WithSlot(rows[d].place, Unassigned(d))
    OBVIOUS
<1> DEFINE new == [rows[d] EXCEPT !.place = p]
<1>3. /\ rows' = [rows EXCEPT ![d] = new] /\ rows[d].from = NULL
      /\ RowsAt(p) \ {d} = {}
      /\ UNCHANGED <<logicals, versions, stored, lastId>>
    BY <1>2 DEF Detach
<1>4. /\ d \in Id /\ p \in Period \X IssuedSlot /\ p \in Place /\ p[2] # Trash(d)
      /\ NULL # Trash(d)
    <2>1. d \in 1 .. lastId /\ d \in Id
        BY <1>1, Types
    <2> QED
        BY <1>1, <1>2, <2>1, Places, PlaceOfRow, NullAssumption DEF SlotId
<1>5. /\ new \in Row /\ new.place = p /\ new.from = NULL
      /\ new.logical = rows[d].logical /\ new.cur = rows[d].cur
      /\ new.shared = rows[d].shared /\ new.spi = rows[d].spi
    <2>1. rows[d] \in Row
        BY <1>1, Types
    <2> QED
        BY <1>3, <1>4, <2>1 DEF Row
<1> HIDE DEF new
<1>6. new.spi => ~new.shared
    BY <1>1, <1>5 DEF RowsInv, FlaggedRowNotShared
<1>7. \A e \in DOMAIN rows \ {d} : rows[e].place # new.place
    BY <1>3, <1>5 DEF RowsAt
<1>8. RowsInv'
    BY <1>1, <1>3, <1>4, <1>5, <1>6, <1>7, OneRowEdited
<1> QED
    BY <1>1, <1>3, <1>8, LogicalsUntouched, FilesUntouched, PartsNext

LEMMA SoftDeleteStep ==
    ASSUME IInv, NEW d \in DOMAIN rows, SoftDelete(d)
    PROVE  IInv'
<1>1. RowsInv /\ LogicalsInv /\ FilesInv /\ TypeOK
    BY Parts DEF IInv
<1>2. PICK p : p = WithSlot(rows[d].place, Trash(d))
    OBVIOUS
<1>3. PICK s : s = rows[d].place[2]
    OBVIOUS
<1> DEFINE new == [rows[d] EXCEPT !.place = p, !.from = s, !.shared = FALSE]
<1>4. /\ rows' = [rows EXCEPT ![d] = new] /\ rows[d].from = NULL
      /\ RowsAt(p) \ {d} = {}
      /\ logicals' = SetStatus(rows[d].logical, "soft_deleted")
      /\ UNCHANGED <<versions, stored, lastId>>
    BY <1>2, <1>3 DEF SoftDelete
<1>5. p \in Period \X IssuedSlot /\ p \in Place /\ s \in IssuedSlot /\ s \in SlotId
    <2>1. d \in 1 .. lastId
        BY <1>1, Types
    <2> QED
        BY <1>1, <1>2, <1>3, <2>1, Places, PlaceOfRow
\* A row that is not in the trash is not at the place of the trash either.
<1>6. s # Trash(d) /\ s # NULL
    BY <1>1, <1>3, <1>4, <1>5, NullAssumption DEF RowsInv, TrashedRowWithdrawn
<1>7. /\ new \in Row /\ new.place = p /\ new.from = s
      /\ new.logical = rows[d].logical /\ new.cur = rows[d].cur
      /\ new.shared = FALSE
    <2>1. rows[d] \in Row
        BY <1>1, Types
    <2> QED
        BY <1>5, <2>1 DEF Row
<1> HIDE DEF new
<1>8. \A e \in DOMAIN rows \ {d} : rows[e].place # new.place
    BY <1>4, <1>7 DEF RowsAt
<1>9. RowsInv'
    BY <1>1, <1>4, <1>5, <1>6, <1>7, <1>8, OneRowEdited
<1>10. LogicalsInv'
    BY <1>1, <1>4, StatusSet DEF Status
<1> QED
    BY <1>1, <1>4, <1>9, <1>10, FilesUntouched, PartsNext

LEMMA PurgeStep ==
    ASSUME IInv, NEW d \in DOMAIN rows, Purge(d)
    PROVE  IInv'
<1>1. RowsInv /\ LogicalsInv /\ FilesInv
    BY Parts
<1>2. /\ DOMAIN rows' = DOMAIN rows \ {d}
      /\ \A e \in DOMAIN rows' : rows'[e] = rows[e]
      /\ rows' = [e \in DOMAIN rows' |-> rows'[e]]
      /\ logicals' = SetStatus(rows[d].logical, "deleted")
      /\ stored' \in {stored, stored \ {v \in DOMAIN versions :
                                           v = rows[d].cur /\ versions[v].kind = "spi"}}
      /\ UNCHANGED <<versions, lastId>>
    BY DEF Purge, Drop, Unlink
<1>3. RowsInv'
    <2>1. rows' \in [DOMAIN rows' -> Row] /\ DOMAIN rows' \subseteq 1 .. lastId'
        BY <1>1, <1>2 DEF RowsInv
    <2> QED
        BY <1>1, <1>2, <2>1
        DEF RowsInv, RowShowsOwnVersion, VersionsIssued, OneRowPerPlace, RowPlacesIssued,
            IssuedSlot, FlaggedRowNotShared, TrashedRowWithdrawn
<1>4. LogicalsInv'
    BY <1>1, <1>2, StatusSet DEF Status
<1>5. FilesInv'
    BY <1>1, <1>2 DEF FilesInv, NumbersBelowIds, VersionsHaveFiles
<1> QED
    BY <1>3, <1>4, <1>5, PartsNext

LEMMA RestoreStep ==
    ASSUME IInv, NEW d \in DOMAIN rows, Restore(d)
    PROVE  IInv'
<1> DEFINE l == rows[d].logical
<1>1. RowsInv /\ LogicalsInv /\ FilesInv /\ TypeOK
    BY Parts DEF IInv
<1>2. PICK p : p = WithSlot(rows[d].place, rows[d].from)
    OBVIOUS
<1> DEFINE new == [rows[d] EXCEPT !.place = p, !.from = NULL]
<1>3. /\ rows' = [rows EXCEPT ![d] = new] /\ rows[d].from # NULL
      /\ RowsAt(p) \ {d} = {}
      /\ logicals' = SetStatus(l, RestoredStatus(l))
      /\ UNCHANGED <<versions, stored, lastId>>
    BY <1>2 DEF Restore
<1>4. /\ p \in Period \X IssuedSlot /\ p \in Place /\ p[2] # Trash(d)
      /\ NULL # Trash(d)
    <2>1. rows[d].from \in IssuedSlot /\ rows[d].from # Trash(d)
        BY <1>1, <1>3 DEF RowsInv, RowPlacesIssued
    <2>2. d \in Id
        BY <1>1, Types
    <2> QED
        BY <1>1, <1>2, <2>1, <2>2, PlaceOfRow, NullAssumption DEF SlotId
<1>5. /\ new \in Row /\ new.place = p /\ new.from = NULL
      /\ new.logical = rows[d].logical /\ new.cur = rows[d].cur
      /\ new.shared = rows[d].shared /\ new.spi = rows[d].spi
    <2>1. rows[d] \in Row
        BY <1>1, Types
    <2> QED
        BY <1>4, <2>1 DEF Row
<1> HIDE DEF new
<1>6. new.spi => ~new.shared
    BY <1>1, <1>5 DEF RowsInv, FlaggedRowNotShared
<1>7. \A e \in DOMAIN rows \ {d} : rows[e].place # new.place
    BY <1>3, <1>5 DEF RowsAt
<1>8. RowsInv'
    BY <1>1, <1>3, <1>4, <1>5, <1>6, <1>7, OneRowEdited
<1>9. LogicalsInv'
    <2>1. /\ RestoredStatus(l) \in Status
          /\ RestoredStatus(l) = "approved" => logicals[l].approved # NULL
        BY DEF RestoredStatus, Status
    <2> QED
        BY <1>1, <1>3, <2>1, StatusSet
<1> QED
    BY <1>1, <1>3, <1>8, <1>9, FilesUntouched, PartsNext

LEMMA ShareStep ==
    ASSUME IInv, NEW d \in DOMAIN rows, NEW shared \in BOOLEAN,
           shared => ~rows[d].spi, rows[d].from = NULL,
           rows' = [rows EXCEPT ![d].shared = shared],
           UNCHANGED <<logicals, versions, stored, lastId>>
    PROVE  IInv'
<1> DEFINE new == [rows[d] EXCEPT !.shared = shared]
<1>1. RowsInv /\ LogicalsInv /\ FilesInv /\ TypeOK
    BY Parts DEF IInv
<1>2. rows' = [rows EXCEPT ![d] = new]
    OBVIOUS
<1>3. /\ new \in Row /\ new.place = rows[d].place /\ new.from = rows[d].from
      /\ new.logical = rows[d].logical /\ new.cur = rows[d].cur
      /\ new.shared = shared /\ new.spi = rows[d].spi
    <2>1. rows[d] \in Row
        BY <1>1, Types
    <2> QED
        BY <2>1 DEF Row
<1> HIDE DEF new
<1>4. /\ new.place \in Period \X IssuedSlot
      /\ new.from \in IssuedSlot \cup {NULL} /\ new.from # Trash(d)
      /\ \A e \in DOMAIN rows \ {d} : rows[e].place # new.place
      /\ new.spi => ~new.shared
      /\ new.place[2] # Trash(d)
    BY <1>1, <1>3 DEF RowsInv, RowPlacesIssued, OneRowPerPlace, TrashedRowWithdrawn
<1>5. RowsInv'
    BY <1>1, <1>2, <1>3, <1>4, OneRowEdited
<1> QED
    BY <1>1, <1>5, LogicalsUntouched, FilesUntouched, PartsNext

\* The logical documents that make way for a move own no version.
LEMMA VacantOwnsNothing ==
    ASSUME IInv, NEW k \in DOMAIN logicals, Vacant(k)
    PROVE  VersionsOf(k) = {}
<1>1. CurrentOwned /\ \A v \in VersionsOf(k) : v \in Id
    BY Types DEF IInv, VersionsOf
<1> QED
    BY <1>1, NullAssumption DEF CurrentOwned, Vacant

LEMMA RelocateFacts ==
    ASSUME IInv, NEW l \in DOMAIN logicals, NEW p \in Period \X IssuedSlot,
           \A k \in LogicalsAt(p) \ {l} : Vacant(k),
           logicals' = Relocate(l, p), UNCHANGED <<versions, lastId>>
    PROVE  LogicalsInv'
<1> DEFINE gone == LogicalsAt(p) \ {l}
<1>1. LogicalsInv /\ TypeOK
    BY Parts DEF IInv
<1>2. \A k \in gone : VersionsOf(k) = {}
    BY VacantOwnsNothing DEF LogicalsAt
<1>3. /\ DOMAIN logicals' = DOMAIN logicals \ gone
      /\ l \in DOMAIN logicals'
      /\ \A k \in DOMAIN logicals' \ {l} : logicals'[k] = logicals[k]
      /\ logicals'[l] = [logicals[l] EXCEPT !.place = p]
      /\ logicals' = [k \in DOMAIN logicals \ gone |-> logicals'[k]]
    BY DEF Relocate
<1>4. /\ logicals'[l] \in Logical /\ logicals'[l].place = p
      /\ logicals'[l].cur = logicals[l].cur
      /\ logicals'[l].approved = logicals[l].approved
      /\ logicals'[l].status = logicals[l].status
    <2>1. logicals[l] \in Logical
        BY <1>1, Types
    <2>2. p \in Place
        BY <1>1, Places
    <2> QED
        BY <1>3, <2>1, <2>2 DEF Logical
<1>5. \A k \in DOMAIN logicals' \ {l} : k \in DOMAIN logicals /\ logicals[k].place # p
    BY <1>3 DEF LogicalsAt
<1> HIDE DEF gone
<1>6. \A k \in DOMAIN logicals' :
        /\ logicals'[k].cur = logicals[k].cur
        /\ logicals'[k].approved = logicals[k].approved
        /\ logicals'[k].status = logicals[k].status
    BY <1>3, <1>4
<1>7. logicals' \in [DOMAIN logicals' -> Logical] /\ DOMAIN logicals' \subseteq 1 .. lastId'
    BY <1>1, <1>3, <1>4 DEF LogicalsInv
<1>8. VersionsOwned'
    <2> SUFFICES ASSUME NEW v \in DOMAIN versions PROVE versions[v].logical \in DOMAIN logicals'
        BY DEF VersionsOwned
    <2>1. v \in VersionsOf(versions[v].logical) /\ versions[v].logical \in DOMAIN logicals
        BY <1>1 DEF VersionsOf, LogicalsInv, VersionsOwned
    <2> QED
        BY <1>2, <1>3, <2>1
<1>9. CurrentOwned' /\ CurrentIsLatest'
    BY <1>1, <1>3, <1>6
    DEF LogicalsInv, CurrentOwned, CurrentIsLatest, VersionsOf, IsLatest, Newer
<1>10. OneLogicalPerPlace'
    <2>1. OneLogicalPerPlace
        BY <1>1 DEF LogicalsInv
    <2>2. \A j, k \in DOMAIN logicals' \ {l} :
            logicals'[j].place = logicals'[k].place => j = k
        BY <1>3, <1>5, <2>1 DEF OneLogicalPerPlace
    <2>3. \A k \in DOMAIN logicals' \ {l} : logicals'[k].place # logicals'[l].place
        BY <1>3, <1>4, <1>5
    <2> QED
        BY <2>2, <2>3 DEF OneLogicalPerPlace
<1>11. ApprovedNamesVersion'
    BY <1>1, <1>3, <1>6 DEF LogicalsInv, ApprovedNamesVersion
<1>12. LogicalPlacesIssued'
    BY <1>1, <1>3, <1>4 DEF LogicalsInv, LogicalPlacesIssued, IssuedSlot
<1> QED
    BY <1>7, <1>8, <1>9, <1>10, <1>11, <1>12 DEF LogicalsInv

LEMMA MoveStep ==
    ASSUME IInv, NEW d \in DOMAIN rows,
           NEW p \in Period \X (Slot \cup {rows[d].place[2]}), Move(d, p)
    PROVE  IInv'
<1> DEFINE l == rows[d].logical
           new == [rows[d] EXCEPT !.place = p]
<1>1. RowsInv /\ LogicalsInv /\ FilesInv /\ TypeOK
    BY Parts DEF IInv
<1>2. /\ rows' = [rows EXCEPT ![d] = new]
      /\ RowsAt(p) \ {d} = {}
      /\ UNCHANGED <<versions, stored, lastId>>
    BY DEF Move
<1>3. p \in Period \X IssuedSlot /\ p \in Place
      /\ (p[2] = Trash(d) => rows[d].place[2] = Trash(d))
    <2>1. d \in Id /\ rows[d].place[2] \in IssuedSlot
        BY <1>1, Types DEF RowsInv, RowPlacesIssued
    <2>2. p \in Period \X IssuedSlot /\ p[2] \in Slot \cup {rows[d].place[2]}
        BY <2>1 DEF IssuedSlot
    <2> QED
        BY <1>1, <2>1, <2>2, Places
<1>4. /\ new \in Row /\ new.place = p /\ new.from = rows[d].from
      /\ new.logical = rows[d].logical /\ new.cur = rows[d].cur
      /\ new.shared = rows[d].shared /\ new.spi = rows[d].spi
    <2>1. rows[d] \in Row
        BY <1>1, Types
    <2> QED
        BY <1>3, <2>1 DEF Row
<1> HIDE DEF new
<1>5. /\ new.from \in IssuedSlot \cup {NULL} /\ new.from # Trash(d)
      /\ \A e \in DOMAIN rows \ {d} : rows[e].place # new.place
      /\ new.spi => ~new.shared
    BY <1>1, <1>2, <1>4 DEF RowsInv, RowPlacesIssued, FlaggedRowNotShared, RowsAt
<1>6. new.place[2] = Trash(d) => ~new.shared /\ new.from # NULL
    BY <1>1, <1>3, <1>4 DEF RowsInv, TrashedRowWithdrawn
<1>7. RowsInv'
    BY <1>1, <1>2, <1>3, <1>4, <1>5, <1>6, OneRowEdited
<1>8. LogicalsInv'
    <2>1. CASE l \in DOMAIN logicals
        <3>1. (\A k \in LogicalsAt(p) \ {l} : Vacant(k)) /\ logicals' = Relocate(l, p)
            BY <2>1 DEF Move
        <3> QED
            BY <1>2, <1>3, <2>1, <3>1, RelocateFacts
    <2>2. CASE l \notin DOMAIN logicals
        <3>1. logicals' = logicals
            BY <2>2 DEF Move
        <3> QED
            BY <1>1, <1>2, <3>1, LogicalsUntouched
    <2> QED
        BY <2>1, <2>2
<1> QED
    BY <1>1, <1>2, <1>7, <1>8, FilesUntouched, PartsNext

-----------------------------------------------------------------------------
(***************************************************************************)
(* Review and classification.                                              *)
(***************************************************************************)
LEMMA ApproveStep ==
    ASSUME IInv, NEW l \in DOMAIN logicals, NEW v \in 1 .. lastId, Approve(l, v)
    PROVE  IInv'
<1> DEFINE new == [logicals[l] EXCEPT !.approved = v, !.status = "approved"]
<1>1. RowsInv /\ LogicalsInv /\ FilesInv /\ TypeOK
    BY Parts DEF IInv
<1>2. /\ logicals' = [logicals EXCEPT ![l] = new]
      /\ UNCHANGED <<rows, versions, stored, lastId>>
    BY DEF Approve, MarkApproved
<1>3. v \in Id /\ v # NULL
    BY <1>1, Types, NullAssumption DEF Id
<1>4. /\ new \in Logical /\ new.place = logicals[l].place /\ new.cur = logicals[l].cur
      /\ new.approved = v
    <2>1. logicals[l] \in Logical
        BY <1>1, Types
    <2> QED
        BY <1>3, <2>1 DEF Logical, Status
<1> HIDE DEF new
<1>5. /\ DOMAIN logicals' = DOMAIN logicals /\ logicals'[l] = new
      /\ \A k \in DOMAIN logicals \ {l} : logicals'[k] = logicals[k]
      /\ \A k \in DOMAIN logicals : /\ logicals'[k].place = logicals[k].place
                                    /\ logicals'[k].cur = logicals[k].cur
    BY <1>2, <1>4
<1>6. logicals' \in [DOMAIN logicals' -> Logical] /\ DOMAIN logicals' \subseteq 1 .. lastId'
    BY <1>1, <1>2, <1>4 DEF LogicalsInv
<1>7. VersionsOwned' /\ OneLogicalPerPlace' /\ LogicalPlacesIssued'
    BY <1>1, <1>2, <1>5 DEF LogicalsInv, VersionsOwned, OneLogicalPerPlace,
                            LogicalPlacesIssued, IssuedSlot
<1>8. CurrentOwned' /\ CurrentIsLatest'
    BY <1>1, <1>2, <1>5
    DEF LogicalsInv, CurrentOwned, CurrentIsLatest, VersionsOf, IsLatest, Newer
<1>9. ApprovedNamesVersion'
    BY <1>1, <1>3, <1>4, <1>5 DEF LogicalsInv, ApprovedNamesVersion
<1>10. LogicalsInv'
    BY <1>6, <1>7, <1>8, <1>9 DEF LogicalsInv
<1> QED
    BY <1>1, <1>2, <1>10, RowsUntouched, FilesUntouched, PartsNext

LEMMA StatusStep ==
    ASSUME IInv, NEW l, NEW s \in Status \ {"approved"}, logicals' = SetStatus(l, s),
           UNCHANGED <<rows, versions, stored, lastId>>
    PROVE  IInv'
<1>1. RowsInv /\ LogicalsInv /\ FilesInv
    BY Parts
<1>2. LogicalsInv'
    BY <1>1, StatusSet
<1> QED
    BY <1>1, <1>2, RowsUntouched, FilesUntouched, PartsNext

-----------------------------------------------------------------------------
(***************************************************************************)
(* Deleting a version.                                                     *)
(***************************************************************************)

\* What is promoted when v goes: nothing, or the latest of the other versions.
LEMMA PromotedFacts ==
    ASSUME IInv, NEW v \in DOMAIN versions
    PROVE  /\ v \in VersionsOf(versions[v].logical)
           /\ Others(v) \subseteq DOMAIN versions
           /\ \A w \in Others(v) : w \in Id /\ w # v
           /\ Others(v) = {} => Promoted(v) = NULL
           /\ Others(v) # {} => IsLatest(Promoted(v), Others(v)) /\ Promoted(v) \in Others(v)
<1>1. TypeOK /\ NumbersBelowIds
    BY DEF IInv
<1>2. Others(v) \in SUBSET (DOMAIN versions)
    BY DEF Others, VersionsOf
<1>3. \A w \in Others(v) : w \in Id /\ w # v
    BY <1>1, <1>2, Types DEF Others
<1>4. Others(v) # {} => IsLatest(Promoted(v), Others(v))
    BY <1>1, <1>2, LatestExists DEF Promoted
<1> QED
    BY <1>2, <1>3, <1>4 DEF Promoted, Others, VersionsOf, IsLatest

LEMMA DeleteVersionLogicals ==
    ASSUME IInv, NEW v \in DOMAIN versions, DeleteVersion(v)
    PROVE  LogicalsInv'
<1> DEFINE new == AfterDelete(v)
<1>0. PICK l : l = versions[v].logical
    OBVIOUS
<1>1. LogicalsInv /\ TypeOK /\ l \in DOMAIN logicals
    BY <1>0, Parts DEF IInv, DeleteVersion
<1>2. /\ logicals' = [logicals EXCEPT ![l] = new]
      /\ DOMAIN versions' = DOMAIN versions \ {v}
      /\ \A w \in DOMAIN versions' : versions'[w] = versions[w]
      /\ lastId' = lastId
    BY <1>0 DEF DeleteVersion, Drop
<1>3. /\ \A k \in DOMAIN logicals \ {l} : VersionsOf(k)' = VersionsOf(k)
      /\ VersionsOf(l)' = Others(v)
      /\ \A k : VersionsOf(k) \subseteq DOMAIN versions
    BY <1>0, <1>2 DEF VersionsOf, Others
<1>4. logicals[l].cur \in VersionsOf(l)
    BY <1>0, <1>1, PromotedFacts DEF LogicalsInv, CurrentOwned
<1>5. /\ new \in Logical /\ new.place = logicals[l].place
      /\ new.cur = IF logicals[l].cur = v THEN Promoted(v) ELSE logicals[l].cur
      /\ new.status = "approved" => new.approved # NULL
    <2> DEFINE old == logicals[l]
               cur == IF old.cur = v THEN Promoted(v) ELSE old.cur
               approved == IF old.approved = v THEN NULL ELSE old.approved
               status ==
                   IF old.cur = v
                   THEN IF cur = NULL THEN "empty"
                        ELSE IF \/ approved = cur
                                \/ old.status = "approved" /\ approved # NULL
                             THEN "approved" ELSE "uploaded"
                   ELSE IF old.approved = v /\ old.status = "approved" THEN "uploaded"
                        ELSE old.status
    <2>1. old \in Logical /\ old.approved \in Id \cup {NULL} /\ old.status \in Status
        BY <1>1, Types
    <2>2. new = [old EXCEPT !.cur = cur, !.approved = approved, !.status = status]
        BY <1>0 DEF AfterDelete
    <2>3. cur \in Id \cup {NULL}
        BY <1>1, PromotedFacts, Types
    <2>4. approved \in Id \cup {NULL} /\ status \in Status
        BY <2>1 DEF Status
    <2>5. status = "approved" => approved # NULL
        <3>1. CASE old.cur = v
            BY <3>1
        <3>2. CASE old.cur # v
            BY <1>1, <3>2 DEF LogicalsInv, ApprovedNamesVersion
        <3> QED
            BY <3>1, <3>2
    <2> HIDE DEF cur, approved, status, new
    <2>6. /\ new \in Logical /\ new.place = old.place
          /\ new.cur = cur /\ new.approved = approved /\ new.status = status
        BY <2>1, <2>2, <2>3, <2>4 DEF Logical
    <2> QED
        BY <2>5, <2>6 DEF cur
<1> HIDE DEF new
<1>6. /\ DOMAIN logicals' = DOMAIN logicals /\ logicals'[l] = new
      /\ \A k \in DOMAIN logicals \ {l} : logicals'[k] = logicals[k]
      /\ \A k \in DOMAIN logicals : logicals'[k].place = logicals[k].place
    BY <1>1, <1>2, <1>5
<1>7. logicals' \in [DOMAIN logicals' -> Logical] /\ DOMAIN logicals' \subseteq 1 .. lastId'
    BY <1>1, <1>2, <1>5 DEF LogicalsInv
<1>8. VersionsOwned' /\ OneLogicalPerPlace' /\ LogicalPlacesIssued'
    BY <1>1, <1>2, <1>6 DEF LogicalsInv, VersionsOwned, OneLogicalPerPlace,
                            LogicalPlacesIssued, IssuedSlot
<1>9. CurrentOwned'
    <2>1. Others(v) = VersionsOf(l) \ {v}
        BY <1>0 DEF Others
    <2>2. IF Others(v) = {} THEN new.cur = NULL ELSE new.cur \in Others(v)
        <3>1. CASE logicals[l].cur = v
            BY <1>5, <3>1, PromotedFacts
        <3>2. CASE logicals[l].cur # v
            BY <1>4, <1>5, <2>1, <3>2
        <3> QED
            BY <3>1, <3>2
    <2>3. \A k \in DOMAIN logicals \ {l} :
            IF VersionsOf(k) = {} THEN logicals[k].cur = NULL
                                  ELSE logicals[k].cur \in VersionsOf(k)
        BY <1>1 DEF LogicalsInv, CurrentOwned
    <2> QED
        BY <1>3, <1>6, <2>2, <2>3 DEF CurrentOwned
<1>10. CurrentIsLatest'
    <2> SUFFICES ASSUME NEW k \in DOMAIN logicals, logicals'[k].cur # NULL
                 PROVE  \/ IsLatest(logicals[k].cur, VersionsOf(k))'
                        \/ /\ versions'[logicals'[k].cur].major = 2
                           /\ versions'[logicals'[k].cur].minor = 0
        BY <1>6 DEF CurrentIsLatest
    <2>2. CASE k # l
        <3>1. /\ logicals'[k] = logicals[k] /\ VersionsOf(k)' = VersionsOf(k)
              /\ VersionsOf(k)' \subseteq DOMAIN versions'
            BY <1>3, <1>6, <2>2 DEF VersionsOf
        <3>2. logicals[k].cur \in VersionsOf(k)
            BY <1>1, <3>1 DEF LogicalsInv, CurrentOwned
        <3>3. IsLatest(logicals[k].cur, VersionsOf(k)) =>
                IsLatest(logicals[k].cur, VersionsOf(k))'
            BY <1>2, <3>1 DEF IsLatest, Newer
        <3> QED
            BY <1>1, <1>2, <3>1, <3>2, <3>3 DEF LogicalsInv, CurrentIsLatest
    <2>3. CASE k = l /\ logicals[l].cur = v
        <3>1. Others(v) # {} /\ IsLatest(Promoted(v), Others(v)) /\ logicals'[l].cur = Promoted(v)
            BY <1>5, <1>6, <2>3, PromotedFacts
        <3>2. Others(v) \subseteq DOMAIN versions'
            BY <1>2, PromotedFacts
        <3>3. VersionsOf(k)' = Others(v)
            BY <1>3, <2>3
        <3> QED
            BY <1>2, <2>3, <3>1, <3>2, <3>3 DEF IsLatest, Newer
    <2>4. CASE k = l /\ logicals[l].cur # v
        <3>1. logicals'[l].cur = logicals[l].cur /\ logicals[l].cur \in Others(v)
            BY <1>0, <1>4, <1>5, <1>6, <2>4 DEF Others
        <3>2. Others(v) \subseteq DOMAIN versions' /\ Others(v) \subseteq VersionsOf(l)
            BY <1>0, <1>2, PromotedFacts DEF Others
        <3>3. \/ IsLatest(logicals[l].cur, VersionsOf(l))
              \/ /\ versions[logicals[l].cur].major = 2
                 /\ versions[logicals[l].cur].minor = 0
            BY <1>1, <2>4, <3>1 DEF LogicalsInv, CurrentIsLatest
        <3>4. VersionsOf(k)' = Others(v)
            BY <1>3, <2>4
        <3>5. IsLatest(logicals[l].cur, VersionsOf(l)) =>
                IsLatest(logicals[k].cur, VersionsOf(k))'
            BY <1>2, <2>4, <3>1, <3>2, <3>4 DEF IsLatest, Newer
        <3> QED
            BY <1>2, <2>4, <3>1, <3>2, <3>3, <3>5
    <2> QED
        BY <2>2, <2>3, <2>4
<1>11. ApprovedNamesVersion'
    BY <1>1, <1>5, <1>6 DEF LogicalsInv, ApprovedNamesVersion
<1> QED
    BY <1>7, <1>8, <1>9, <1>10, <1>11 DEF LogicalsInv

LEMMA DeleteVersionRows ==
    ASSUME IInv, NEW v \in DOMAIN versions, DeleteVersion(v)
    PROVE  RowsInv'
<1> DEFINE hit == {d \in RowsAt(logicals[versions[v].logical].place) : rows[d].cur = v}
<1>1. RowsInv /\ TypeOK
    BY Parts DEF IInv
<1>2. /\ DOMAIN versions' = DOMAIN versions \ {v}
      /\ \A w \in DOMAIN versions' : versions'[w] = versions[w]
      /\ lastId' = lastId /\ rows' = RowsWithout(v)
    BY DEF DeleteVersion, Drop
<1>3. \A d \in hit : d \in DOMAIN rows /\ rows[d].logical = versions[v].logical
    BY <1>1 DEF RowsInv, RowShowsOwnVersion, RowsAt
<1>4. CASE Others(v) = {}
    <2>1. rows' = [d \in DOMAIN rows \ hit |-> rows[d]]
        BY <1>2, <1>4 DEF RowsWithout
    <2> HIDE DEF hit
    <2>2. DOMAIN rows' \subseteq DOMAIN rows /\ \A d \in DOMAIN rows' : rows'[d] = rows[d]
        BY <2>1
    <2>3. rows' \in [DOMAIN rows' -> Row] /\ DOMAIN rows' \subseteq 1 .. lastId'
        BY <1>1, <1>2, <2>1 DEF RowsInv
    <2> QED
        BY <1>1, <1>2, <2>2, <2>3
        DEF RowsInv, RowShowsOwnVersion, VersionsIssued, OneRowPerPlace, RowPlacesIssued,
            IssuedSlot, FlaggedRowNotShared, TrashedRowWithdrawn
<1>5. CASE Others(v) # {}
    <2>1. rows' = [d \in DOMAIN rows |->
                      IF d \in hit THEN [rows[d] EXCEPT !.cur = Promoted(v)] ELSE rows[d]]
        BY <1>2, <1>5 DEF RowsWithout
    <2>2. /\ Promoted(v) \in DOMAIN versions' /\ Promoted(v) \in 1 .. lastId
          /\ Promoted(v) \in Id
          /\ versions[Promoted(v)].logical = versions[v].logical
        <3>1. Promoted(v) \in Others(v) /\ Promoted(v) \in DOMAIN versions
            BY <1>5, PromotedFacts
        <3> QED
            BY <1>1, <1>2, <3>1, Types DEF Others, VersionsOf
    <2> HIDE DEF hit
    <2>3. \A d \in DOMAIN rows :
            /\ rows'[d] \in Row
            /\ rows'[d].place = rows[d].place /\ rows'[d].from = rows[d].from
            /\ rows'[d].logical = rows[d].logical
            /\ rows'[d].shared = rows[d].shared /\ rows'[d].spi = rows[d].spi
            /\ rows'[d].cur = IF d \in hit THEN Promoted(v) ELSE rows[d].cur
        <3> SUFFICES ASSUME NEW d \in DOMAIN rows
                     PROVE
            /\ rows'[d] \in Row
            /\ rows'[d].place = rows[d].place /\ rows'[d].from = rows[d].from
            /\ rows'[d].logical = rows[d].logical
            /\ rows'[d].shared = rows[d].shared /\ rows'[d].spi = rows[d].spi
            /\ rows'[d].cur = IF d \in hit THEN Promoted(v) ELSE rows[d].cur
            OBVIOUS
        <3>1. rows[d] \in Row
            BY <1>1, Types
        <3> QED
            BY <2>1, <2>2, <3>1 DEF Row
    <2>4. DOMAIN rows' = DOMAIN rows
        BY <2>1
    <2>5. rows' \in [DOMAIN rows' -> Row] /\ DOMAIN rows' \subseteq 1 .. lastId'
        <3>1. rows' = [d \in DOMAIN rows |-> rows'[d]]
            BY <2>1
        <3> QED
            BY <1>1, <1>2, <2>3, <2>4, <3>1 DEF RowsInv
    <2>6. RowShowsOwnVersion'
        BY <1>1, <1>2, <1>3, <2>2, <2>3, <2>4 DEF RowsInv, RowShowsOwnVersion
    <2>7. VersionsIssued'
        BY <1>1, <1>2, <2>2, <2>3, <2>4 DEF RowsInv, VersionsIssued
    <2>8. OneRowPerPlace' /\ RowPlacesIssued' /\ FlaggedRowNotShared' /\ TrashedRowWithdrawn'
        BY <1>1, <1>2, <2>3, <2>4
        DEF RowsInv, OneRowPerPlace, RowPlacesIssued, IssuedSlot, FlaggedRowNotShared,
            TrashedRowWithdrawn
    <2> QED
        BY <2>5, <2>6, <2>7, <2>8 DEF RowsInv
<1> QED
    BY <1>4, <1>5

LEMMA DeleteVersionStep ==
    ASSUME IInv, NEW v \in DOMAIN versions, DeleteVersion(v)
    PROVE  IInv'
<1>1. FilesInv
    BY Parts
<1>2. /\ versions' = [w \in DOMAIN versions \ {v} |-> versions[w]]
      /\ stored' \in {stored, stored \ {v}} /\ lastId' = lastId
    BY DEF DeleteVersion, Drop, Unlink
<1>3. FilesInv'
    BY <1>1, <1>2 DEF FilesInv, NumbersBelowIds, VersionsHaveFiles
<1> QED
    BY <1>3, DeleteVersionLogicals, DeleteVersionRows, PartsNext

-----------------------------------------------------------------------------
(***************************************************************************)
(* The handlers together.                                                  *)
(***************************************************************************)
LEMMA InitIInv == Init => IInv
<1> SUFFICES ASSUME Init PROVE IInv
    OBVIOUS
<1>1. /\ DOMAIN rows = {} /\ DOMAIN logicals = {} /\ DOMAIN versions = {}
      /\ rows = NoEntry /\ logicals = NoEntry /\ versions = NoEntry
      /\ stored = {} /\ lastId = 0
    BY DEF Init, NoEntry
<1>2. TypeOK
    <2>1. rows \in [DOMAIN rows -> Row] /\ logicals \in [DOMAIN logicals -> Logical]
        BY <1>1 DEF NoEntry
    <2>2. versions \in [DOMAIN versions -> Version]
        BY <1>1 DEF NoEntry
    <2> QED
        BY <1>1, <2>1, <2>2, MaxIdAssumption DEF TypeOK
<1> QED
    BY <1>1, <1>2
    DEF IInv, VersionsOwned, CurrentOwned, CurrentIsLatest, NumbersBelowIds,
        RowShowsOwnVersion, VersionsIssued, OneRowPerPlace, RowPlacesIssued,
        OneLogicalPerPlace, LogicalPlacesIssued, VersionsHaveFiles, ApprovedNamesVersion,
        FlaggedRowNotShared, TrashedRowWithdrawn

LEMMA SlotSaveStep ==
    ASSUME IInv, NEW p \in Coordinate, SlotSave(p)
    PROVE  IInv'
<1>1. ASSUME NEW kind \in Kinds, NEW byClient \in BOOLEAN, Upload(p, kind, byClient)
      PROVE  IInv'
    BY <1>1, UploadStep
<1>2. ASSUME NEW kind \in Kinds \ {"spi"}, RouteToSlot(p, kind) PROVE IInv'
    BY <1>2, RouteToSlotStep
<1>3. ASSUME NEW bump \in Bumps, PostVersion(p, bump) PROVE IInv'
    BY <1>3, PostVersionStep
<1>4. CASE Classify(p)
    <2>1. PICK l \in LogicalsAt(p) :
            /\ logicals' = SetStatus(l, IF logicals[l].cur # NULL THEN "uploaded"
                                                                  ELSE "processing")
            /\ UNCHANGED <<rows, versions, stored, lastId>>
        BY <1>4 DEF Classify
    <2>2. (IF logicals[l].cur # NULL THEN "uploaded" ELSE "processing")
            \in Status \ {"approved"}
        BY DEF Status
    <2> QED
        BY <2>1, <2>2, StatusStep
<1> QED
    BY <1>1, <1>2, <1>3, <1>4 DEF SlotSave

LEMMA RowStepStep ==
    ASSUME IInv, NEW d \in DOMAIN rows, RowStep(d)
    PROVE  IInv'
<1>1. CASE ConvertToPdf(d)
    BY <1>1, ConvertToPdfStep
<1>2. CASE Detach(d)
    BY <1>2, DetachStep
<1>3. CASE SoftDelete(d)
    BY <1>3, SoftDeleteStep
<1>4. CASE Purge(d)
    BY <1>4, PurgeStep
<1>5. CASE Restore(d)
    BY <1>5, RestoreStep
<1>6. CASE Share(d)
    BY <1>6, ShareStep DEF Share
<1>7. CASE Unshare(d)
    BY <1>7, ShareStep DEF Unshare
<1>8. ASSUME NEW p \in Period \X (Slot \cup {rows[d].place[2]}), Move(d, p) PROVE IInv'
    BY <1>8, MoveStep
<1> QED
    BY <1>1, <1>2, <1>3, <1>4, <1>5, <1>6, <1>7, <1>8 DEF RowStep

LEMMA ReviewStep ==
    ASSUME IInv, NEW l \in DOMAIN logicals, Review(l)
    PROVE  IInv'
<1>1. ASSUME NEW v \in 1 .. lastId, Approve(l, v) PROVE IInv'
    BY <1>1, ApproveStep
<1>2. CASE Remand(l)
    BY <1>2, StatusStep DEF Remand, Status
<1> QED
    BY <1>1, <1>2 DEF Review

LEMMA NextIInv == IInv /\ [Next]_vars => IInv'
<1> SUFFICES ASSUME IInv, [Next]_vars PROVE IInv'
    OBVIOUS
<1>1. ASSUME NEW p \in Coordinate, SlotSave(p) PROVE IInv'
    BY <1>1, SlotSaveStep
<1>2. ASSUME NEW d \in DOMAIN rows, RowStep(d) PROVE IInv'
    BY <1>2, RowStepStep
<1>3. ASSUME NEW v \in DOMAIN versions, LinkStamp(v) \/ QueuedStamp(v) PROVE IInv'
    BY <1>3, LinkStampStep, QueuedStampStep
<1>4. ASSUME NEW v \in DOMAIN versions, DeleteVersion(v) PROVE IInv'
    BY <1>4, DeleteVersionStep
<1>5. ASSUME NEW l \in DOMAIN logicals, Review(l) PROVE IInv'
    BY <1>5, ReviewStep
<1>6. CASE UNCHANGED vars
    BY <1>6, Parts, PartsNext, RowsUntouched, LogicalsUntouched, FilesUntouched DEF vars
<1> QED
    BY <1>1, <1>2, <1>3, <1>4, <1>5, <1>6 DEF Next

-----------------------------------------------------------------------------
(***************************************************************************)
(* The theorems.                                                           *)
(***************************************************************************)

\* Whatever requests the handlers serve, in whatever order, the tables and the files
\* stay consistent: IInv is an invariant.
THEOREM Consistent == Spec => []IInv
BY InitIInv, NextIInv, PTL DEF Spec

\* The tables hold records of their shapes.
THEOREM TypeCorrect == Spec => []TypeOK
<1>1. IInv => TypeOK
    BY DEF IInv
<1> QED
    BY <1>1, Consistent, PTL

\* No handler leaves a version without its logical document: a move deletes only
\* logical documents that own none.
THEOREM NoOrphanVersion == Spec => []VersionsOwned
<1>1. IInv => VersionsOwned
    BY DEF IInv
<1> QED
    BY <1>1, Consistent, PTL

\* The current version of a logical document is one of its versions, and there is one
\* as long as there are versions: deleting the current one promotes another.
THEOREM CurrentVersionExists == Spec => []CurrentOwned
<1>1. IInv => CurrentOwned
    BY DEF IInv
<1> QED
    BY <1>1, Consistent, PTL

\* The current version has the highest number of its document, or opened an audit.
THEOREM CurrentVersionIsLatest == Spec => []CurrentIsLatest
<1>1. IInv => CurrentIsLatest
    BY DEF IInv
<1> QED
    BY <1>1, Consistent, PTL

\* A row of the matrix never shows the version of another document.
THEOREM RowsShowTheirDocument == Spec => []RowShowsOwnVersion
<1>1. IInv => RowShowsOwnVersion
    BY DEF IInv
<1> QED
    BY <1>1, Consistent, PTL

\* Every version has its file on disk, but for what a purge erased.
THEOREM FilesConsistent == Spec => []VersionsHaveFiles
<1>1. IInv => VersionsHaveFiles
    BY DEF IInv
<1> QED
    BY <1>1, Consistent, PTL

\* A document shown as approved names the version that was approved.
THEOREM ApprovalNamed == Spec => []ApprovedNamesVersion
<1>1. IInv => ApprovedNamesVersion
    BY DEF IInv
<1> QED
    BY <1>1, Consistent, PTL

\* Nothing flagged as holding an individual number is shared with the client.
THEOREM FlaggedWithdrawn == Spec => []FlaggedRowNotShared
<1>1. IInv => FlaggedRowNotShared
    BY DEF IInv
<1> QED
    BY <1>1, Consistent, PTL

\* Nothing in the trash is shared with the client.
THEOREM TrashWithdrawn == Spec => []TrashedRowWithdrawn
<1>1. IInv => TrashedRowWithdrawn
    BY DEF IInv
<1> QED
    BY <1>1, Consistent, PTL

-----------------------------------------------------------------------------
(***************************************************************************)
(* The document matrix.                                                    *)
(*                                                                         *)
(* Each handler changes the places of the rows in one of four ways, one    *)
(* lemma each: not at all, by a new row at a place nobody holds, by moving *)
(* one row to such a place, or by dropping one row.  That the place is     *)
(* free is the guard of the handler; that a row found at a place is the    *)
(* only one, and that a new row has an identifier never seen before, comes *)
(* from IInv.                                                              *)
(***************************************************************************)

IdsGrow == lastId' \in lastId .. MaxId

\* The rows stay and so do their places.
LEMMA SamePlaces ==
    ASSUME IInv, IdsGrow, DOMAIN rows' = DOMAIN rows,
           \A d \in DOMAIN rows : rows'[d].place = rows[d].place
    PROVE  Matrix!Next
<1>1. \A d \in DOMAIN rows : WhereIs(d)' = WhereIs(d)
    BY DEF WhereIs
<1>2. UNCHANGED [d \in DOMAIN rows |-> WhereIs(d)]
    BY <1>1
<1>3. 1 .. lastId \subseteq 1 .. lastId' /\ 1 .. lastId' \subseteq Id
    BY MaxIdAssumption DEF IdsGrow, Id, IInv, TypeOK
<1> QED
    BY <1>2, <1>3 DEF Matrix!Next

\* A new row enters where no row is.
LEMMA RowEnters ==
    ASSUME IInv, IdsGrow, NEW d \in 1 .. lastId', d \notin 1 .. lastId, d \notin DOMAIN rows,
           NEW p \in Place, RowsAt(p) = {},
           DOMAIN rows' = DOMAIN rows \cup {d}, rows'[d].place = p,
           \A e \in DOMAIN rows : rows'[e].place = rows[e].place
    PROVE  Matrix!Next
<1> DEFINE q == IF p[2] \in Slot THEN p ELSE NULL
           at == [e \in DOMAIN rows |-> WhereIs(e)]
<1>1. q \in Coordinate \cup {NULL}
    BY DEF Place, Coordinate
<1>2. Matrix!Free(q)
    <2>1. \A e \in DOMAIN rows : rows[e].place # p
        BY DEF RowsAt
    <2>2. ASSUME q # NULL, NEW e \in DOMAIN rows PROVE at[e] # q
        BY <2>1, <2>2 DEF WhereIs
    <2> QED
        BY <2>2 DEF Matrix!Free
<1>3. at' = [e \in DOMAIN at \cup {d} |-> IF e = d THEN q ELSE at[e]]
    <2>1. WhereIs(d)' = q
        BY DEF WhereIs
    <2>2. \A e \in DOMAIN rows : WhereIs(e)' = WhereIs(e)
        BY DEF WhereIs
    <2> QED
        BY <2>1, <2>2
<1>4. 1 .. lastId \subseteq 1 .. lastId' /\ 1 .. lastId' \subseteq Id
    BY MaxIdAssumption DEF IdsGrow, Id, IInv, TypeOK
<1>5. Matrix!Enter(d, q)
    BY <1>2, <1>3 DEF Matrix!Enter
<1> QED
    BY <1>1, <1>4, <1>5 DEF Matrix!Next

\* One row goes to a place where no other row is.
LEMMA RowGoes ==
    ASSUME IInv, UNCHANGED lastId, NEW d \in DOMAIN rows,
           NEW p \in Place, RowsAt(p) \ {d} = {},
           DOMAIN rows' = DOMAIN rows, rows'[d].place = p,
           \A e \in DOMAIN rows \ {d} : rows'[e].place = rows[e].place
    PROVE  Matrix!Next
<1> DEFINE q == IF p[2] \in Slot THEN p ELSE NULL
           at == [e \in DOMAIN rows |-> WhereIs(e)]
<1>0. IdsGrow
    BY MaxIdAssumption DEF IdsGrow, IInv, TypeOK
<1>1. CASE rows[d].place = p
    BY <1>0, <1>1, SamePlaces
<1>2. CASE rows[d].place # p
    <2>1. q \in Coordinate \cup {NULL}
        BY DEF Place, Coordinate
    <2>2. \A e \in DOMAIN rows : rows[e].place # p
        BY <1>2 DEF RowsAt
    <2>3. ASSUME q # NULL, NEW e \in DOMAIN rows PROVE at[e] # q
        BY <2>2, <2>3 DEF WhereIs
    <2>4. Matrix!Free(q)
        BY <2>3 DEF Matrix!Free
    <2>5. WhereIs(d)' = q
        BY DEF WhereIs
    <2>6. \A e \in DOMAIN rows \ {d} : WhereIs(e)' = WhereIs(e)
        BY DEF WhereIs
    <2>7. at' = [at EXCEPT ![d] = q]
        BY <2>5, <2>6
    <2>8. Matrix!Go(d, q)
        BY <2>4, <2>7 DEF Matrix!Go
    <2>9. 1 .. lastId \subseteq 1 .. lastId' /\ 1 .. lastId' \subseteq Id
        BY <1>0, MaxIdAssumption DEF IdsGrow, Id, IInv, TypeOK
    <2> QED
        BY <2>1, <2>8, <2>9 DEF Matrix!Next
<1> QED
    BY <1>1, <1>2

\* One row is erased.
LEMMA RowRemoved ==
    ASSUME IInv, UNCHANGED lastId, NEW d \in DOMAIN rows,
           DOMAIN rows' = DOMAIN rows \ {d},
           \A e \in DOMAIN rows \ {d} : rows'[e].place = rows[e].place
    PROVE  Matrix!Next
<1> DEFINE at == [e \in DOMAIN rows |-> WhereIs(e)]
<1>1. \A e \in DOMAIN rows \ {d} : WhereIs(e)' = WhereIs(e)
    BY DEF WhereIs
<1>2. at' = [e \in DOMAIN at \ {d} |-> at[e]]
    BY <1>1
<1>3. Matrix!Remove(d)
    BY <1>2 DEF Matrix!Remove
<1>4. 1 .. lastId \subseteq 1 .. lastId' /\ 1 .. lastId' \subseteq Id
    BY MaxIdAssumption DEF Id, IInv, TypeOK
<1> QED
    BY <1>3, <1>4 DEF Matrix!Next

-----------------------------------------------------------------------------
(***************************************************************************)
(* Saving: the row of the place, or a new one.                             *)
(***************************************************************************)
LEMMA FreshIsNew ==
    ASSUME IInv, lastId < MaxId, lastId' = Fresh
    PROVE  /\ IdsGrow
           /\ Fresh \in 1 .. lastId' /\ Fresh \notin 1 .. lastId /\ Fresh \notin DOMAIN rows
BY MaxIdAssumption DEF Fresh, IdsGrow, IInv, TypeOK

LEMMA SavedRow ==
    ASSUME IInv, NEW p \in Place, lastId < MaxId, lastId' = Fresh,
           NEW l, NEW kind, NEW shared, NEW spi, UpsertRow(p, l, kind, shared, spi)
    PROVE  Matrix!Next
<1> DEFINE r == [place |-> p, logical |-> l, cur |-> Fresh, from |-> From(p),
                 shared |-> shared, spi |-> spi, name |-> NameOf(kind)]
<1>1. rows' = Put(rows, RowFor(p), r)
    BY DEF UpsertRow
<1>2. r.place = p
    OBVIOUS
<1> HIDE DEF r
<1>3. DOMAIN rows' = DOMAIN rows \cup {RowFor(p)}
    BY <1>1 DEF Put
<1>4. rows'[RowFor(p)].place = p
    BY <1>1, <1>2 DEF Put
<1>5. \A e \in DOMAIN rows \ {RowFor(p)} : rows'[e].place = rows[e].place
    BY <1>1 DEF Put
<1>6. CASE RowsAt(p) = {}
    <2>1. RowFor(p) = Fresh
        BY <1>6 DEF RowFor
    <2>2. \A e \in DOMAIN rows : rows'[e].place = rows[e].place
        BY <2>1, <1>5, FreshIsNew
    <2> QED
        BY <1>3, <1>4, <1>6, <2>1, <2>2, FreshIsNew, RowEnters
<1>7. CASE RowsAt(p) # {}
    <2>1. RowFor(p) \in RowsAt(p)
        BY <1>7 DEF RowFor
    <2>2. RowFor(p) \in DOMAIN rows /\ rows[RowFor(p)].place = p
        BY <2>1 DEF RowsAt
    <2>3. \A e \in DOMAIN rows : rows'[e].place = rows[e].place
        BY <2>2, <1>4, <1>5
    <2> QED
        BY <1>3, <2>2, <2>3, FreshIsNew, SamePlaces
<1> QED
    BY <1>6, <1>7

LEMMA SlotSaveMaps ==
    ASSUME IInv, NEW p \in Coordinate, SlotSave(p)
    PROVE  Matrix!Next
<1>1. p \in Place
    BY DEF Coordinate, Place, SlotId
<1>2. ASSUME NEW kind \in Kinds, NEW byClient \in BOOLEAN, Upload(p, kind, byClient)
      PROVE  Matrix!Next
    BY <1>1, <1>2, SavedRow DEF Upload, AddVersion
<1>3. ASSUME NEW kind \in Kinds \ {"spi"}, RouteToSlot(p, kind) PROVE Matrix!Next
    BY <1>1, <1>3, SavedRow DEF RouteToSlot, AddVersion
<1>4. ASSUME NEW bump \in Bumps, PostVersion(p, bump) PROVE Matrix!Next
    BY <1>1, <1>4, SavedRow DEF PostVersion, AddVersion
<1>5. CASE Classify(p)
    <2>1. UNCHANGED <<rows, lastId>>
        BY <1>5 DEF Classify
    <2> QED
        BY <2>1, SamePlaces, MaxIdAssumption DEF IdsGrow, IInv, TypeOK
<1> QED
    BY <1>2, <1>3, <1>4, <1>5 DEF SlotSave

\* A stamped version makes a row at the place of its document follow.
LEMMA StampMaps ==
    ASSUME IInv, NEW v \in DOMAIN versions, LinkStamp(v) \/ QueuedStamp(v)
    PROVE  Matrix!Next
<1>1. lastId < MaxId /\ lastId' = Fresh
    BY DEF LinkStamp, QueuedStamp, Stamp, AddVersion
<1>2. CASE QueuedStamp(v)
    <2>1. UNCHANGED rows
        BY <1>2 DEF QueuedStamp
    <2> QED
        BY <1>1, <2>1, FreshIsNew, SamePlaces
<1>3. CASE LinkStamp(v)
    <2> DEFINE l == versions[v].logical
               p == logicals[l].place
    <2>1. UpsertRow(p, l, "pdf", Shared(p), Spi(p))
        BY <1>3 DEF LinkStamp
    <2>2. l \in DOMAIN logicals
        BY DEF IInv, VersionsOwned
    <2>3. p \in Place
        BY <2>2, Types DEF IInv
    <2> HIDE DEF p, l
    <2> QED
        BY <1>1, <2>1, <2>3, SavedRow
<1> QED
    BY <1>2, <1>3

-----------------------------------------------------------------------------
(***************************************************************************)
(* The handlers of one row.                                                *)
(***************************************************************************)
LEMMA RowStepMaps ==
    ASSUME IInv, NEW d \in DOMAIN rows, RowStep(d)
    PROVE  Matrix!Next
<1>0. rows[d] \in Row /\ rows[d].place \in Place /\ d \in Id
    BY Types DEF IInv
<1>1. CASE ConvertToPdf(d)
    <2>1. DOMAIN rows' = DOMAIN rows /\ \A e \in DOMAIN rows : rows'[e].place = rows[e].place
        BY <1>1, <1>0 DEF ConvertToPdf, Row
    <2>2. lastId < MaxId /\ lastId' = Fresh
        BY <1>1 DEF ConvertToPdf, AddVersion
    <2> QED
        BY <2>1, <2>2, FreshIsNew, SamePlaces
<1>2. CASE Detach(d)
    <2> DEFINE p == WithSlot(rows[d].place, Unassigned(d))
    <2>1. p \in Place /\ RowsAt(p) \ {d} = {}
        BY <1>0, <1>2 DEF Detach, WithSlot, Place, SlotId
    <2>2. /\ DOMAIN rows' = DOMAIN rows /\ rows'[d].place = p
          /\ \A e \in DOMAIN rows \ {d} : rows'[e].place = rows[e].place
          /\ UNCHANGED lastId
        BY <1>0, <1>2 DEF Detach, Row
    <2> HIDE DEF p
    <2> QED
        BY <2>1, <2>2, RowGoes
<1>3. CASE SoftDelete(d)
    <2> DEFINE p == WithSlot(rows[d].place, Trash(d))
    <2>1. p \in Place /\ RowsAt(p) \ {d} = {}
        BY <1>0, <1>3 DEF SoftDelete, WithSlot, Place, SlotId
    <2>2. /\ DOMAIN rows' = DOMAIN rows /\ rows'[d].place = p
          /\ \A e \in DOMAIN rows \ {d} : rows'[e].place = rows[e].place
          /\ UNCHANGED lastId
        BY <1>0, <1>3 DEF SoftDelete, Row
    <2> HIDE DEF p
    <2> QED
        BY <2>1, <2>2, RowGoes
<1>4. CASE Purge(d)
    <2>1. /\ DOMAIN rows' = DOMAIN rows \ {d} /\ UNCHANGED lastId
          /\ \A e \in DOMAIN rows \ {d} : rows'[e].place = rows[e].place
        BY <1>4 DEF Purge, Drop
    <2> QED
        BY <2>1, RowRemoved
<1>5. CASE Restore(d)
    <2> DEFINE p == WithSlot(rows[d].place, rows[d].from)
    <2>1. p \in Place /\ RowsAt(p) \ {d} = {}
        BY <1>0, <1>5 DEF Restore, WithSlot, Place, Row
    <2>2. /\ DOMAIN rows' = DOMAIN rows /\ rows'[d].place = p
          /\ \A e \in DOMAIN rows \ {d} : rows'[e].place = rows[e].place
          /\ UNCHANGED lastId
        BY <1>0, <1>5 DEF Restore, Row
    <2> HIDE DEF p
    <2> QED
        BY <2>1, <2>2, RowGoes
<1>6. CASE Share(d) \/ Unshare(d)
    <2>1. /\ DOMAIN rows' = DOMAIN rows /\ UNCHANGED lastId
          /\ \A e \in DOMAIN rows : rows'[e].place = rows[e].place
        BY <1>0, <1>6 DEF Share, Unshare, Row
    <2>2. IdsGrow
        BY <2>1, MaxIdAssumption DEF IdsGrow, IInv, TypeOK
    <2> QED
        BY <2>1, <2>2, SamePlaces
<1>7. ASSUME NEW p \in Period \X (Slot \cup {rows[d].place[2]}), Move(d, p)
      PROVE  Matrix!Next
    <2>1. p \in Place
        BY <1>0 DEF Place, SlotId
    <2>2. /\ RowsAt(p) \ {d} = {} /\ UNCHANGED lastId
          /\ DOMAIN rows' = DOMAIN rows /\ rows'[d].place = p
          /\ \A e \in DOMAIN rows \ {d} : rows'[e].place = rows[e].place
        BY <1>0, <1>7 DEF Move, Row
    <2> QED
        BY <2>1, <2>2, RowGoes
<1> QED
    BY <1>1, <1>2, <1>3, <1>4, <1>5, <1>6, <1>7 DEF RowStep

\* Deleting a version touches the one row at the place of its document.
LEMMA DeleteVersionMaps ==
    ASSUME IInv, NEW v \in DOMAIN versions, DeleteVersion(v)
    PROVE  Matrix!Next
<1> DEFINE hit == {d \in RowsAt(logicals[versions[v].logical].place) : rows[d].cur = v}
<1>1. rows' = RowsWithout(v) /\ UNCHANGED lastId
    BY DEF DeleteVersion
<1>2. \A d, e \in hit : d = e
    BY DEF RowsAt, IInv, OneRowPerPlace
<1>3. IdsGrow
    BY <1>1, MaxIdAssumption DEF IdsGrow, IInv, TypeOK
<1>4. CASE Others(v) = {}
    <2>1. rows' = [d \in DOMAIN rows \ hit |-> rows[d]]
        BY <1>1, <1>4 DEF RowsWithout
    <2>2. hit \subseteq DOMAIN rows
        BY DEF RowsAt
    <2> HIDE DEF hit
    <2>3. CASE hit = {}
        BY <1>3, <2>1, <2>3, SamePlaces
    <2>4. CASE hit # {}
        <3>1. PICK d \in hit : TRUE
            BY <2>4
        <3>2. hit = {d}
            BY <3>1, <1>2
        <3>3. d \in DOMAIN rows
            BY <3>1, <2>2
        <3>4. DOMAIN rows' = DOMAIN rows \ {d}
              /\ \A e \in DOMAIN rows \ {d} : rows'[e].place = rows[e].place
            BY <2>1, <3>2
        <3> QED
            BY <1>1, <3>3, <3>4, RowRemoved
    <2> QED
        BY <2>3, <2>4
<1>5. CASE Others(v) # {}
    <2>1. rows' = [d \in DOMAIN rows |->
                     IF d \in hit THEN [rows[d] EXCEPT !.cur = Promoted(v)] ELSE rows[d]]
        BY <1>1, <1>5 DEF RowsWithout
    <2>2. \A d \in DOMAIN rows : rows[d] \in Row
        BY Types DEF IInv
    <2> HIDE DEF hit
    <2>3. DOMAIN rows' = DOMAIN rows /\ \A d \in DOMAIN rows : rows'[d].place = rows[d].place
        BY <2>1, <2>2 DEF Row
    <2> QED
        BY <1>3, <2>3, SamePlaces
<1> QED
    BY <1>4, <1>5

LEMMA NextMaps == IInv /\ [Next]_vars => [Matrix!Next]_(Matrix!vars)
<1> SUFFICES ASSUME IInv, [Next]_vars PROVE [Matrix!Next]_(Matrix!vars)
    OBVIOUS
<1>1. ASSUME NEW p \in Coordinate, SlotSave(p) PROVE Matrix!Next
    BY <1>1, SlotSaveMaps
<1>2. ASSUME NEW d \in DOMAIN rows, RowStep(d) PROVE Matrix!Next
    BY <1>2, RowStepMaps
<1>3. ASSUME NEW v \in DOMAIN versions, LinkStamp(v) \/ QueuedStamp(v) PROVE Matrix!Next
    BY <1>3, StampMaps
<1>4. ASSUME NEW v \in DOMAIN versions, DeleteVersion(v) PROVE Matrix!Next
    BY <1>4, DeleteVersionMaps
<1>5. ASSUME NEW l \in DOMAIN logicals, Review(l) PROVE Matrix!Next
    <2>1. UNCHANGED <<rows, lastId>>
        BY <1>5 DEF Review, Approve, Remand
    <2> QED
        BY <2>1, SamePlaces, MaxIdAssumption DEF IdsGrow, IInv, TypeOK
<1>6. CASE UNCHANGED vars
    <2>1. UNCHANGED <<rows, lastId>>
        BY <1>6 DEF vars
    <2> QED
        BY <2>1, SamePlaces, MaxIdAssumption DEF IdsGrow, IInv, TypeOK
<1> QED
    BY <1>1, <1>2, <1>3, <1>4, <1>5, <1>6 DEF Next

\* The server implements the document matrix: no handler ever moves two documents,
\* takes a slot that is held, or brings an erased document back.
THEOREM ServerImplementsMatrix == Spec => ImplementsMatrix
<1>1. Init => Matrix!Init
    BY DEF Init, NoEntry, Matrix!Init
<1>2. IInv /\ [Next]_vars => [Matrix!Next]_(Matrix!vars)
    BY NextMaps
<1> QED
    BY <1>1, <1>2, Consistent, PTL DEF Spec, ImplementsMatrix, Matrix!Spec
=============================================================================
