------------------------------ MODULE SlotStore ------------------------------
(***************************************************************************)
(* The document matrix of one accounting firm: the rows of the slot table  *)
(* (slot_documents.db), the logical documents and the immutable versions   *)
(* behind them (document_versions.db) and the version files on disk.       *)
(*                                                                         *)
(* Every operation is an HTTP handler of backend/api/routers.  A handler   *)
(* is an `async def` that awaits nothing once its body is read, so in the  *)
(* one server process it runs to its end before the next one starts: each  *)
(* is one action here.                                                     *)
(***************************************************************************)
EXTENDS Naturals, FiniteSets

CONSTANTS
    Period,  \* client x period: the columns of the matrix
    Slot,    \* the slots of a column
    NULL,    \* SQL NULL
    Kinds,   \* what is uploaded: a subset of Kind
    Bumps,   \* how POST /api/document-versions numbers a version
    MaxId    \* bound: identifiers issued, hence files ever saved

VARIABLES
    rows,       \* slot_documents: id -> row
    logicals,   \* logical_documents: id -> record
    versions,   \* document_versions: id -> record
    stored,     \* ids of the versions whose file is on disk
    lastId      \* identifiers issued so far (uuid4 in the code: never reused)

vars == <<rows, logicals, versions, stored, lastId>>

Id == 1 .. MaxId

(***************************************************************************)
(* A place is a slot id of a period.  A row taken out of the matrix keeps  *)
(* its period and gets a slot id made from its own id.                     *)
(***************************************************************************)
Unassigned(d) == <<"unassigned", d>>
Trash(d) == <<"deleted", d>>
SlotId == Slot \cup {Unassigned(d) : d \in Id} \cup {Trash(d) : d \in Id}
Place == Period \X SlotId
Coordinate == Period \X Slot
WithSlot(p, s) == <<p[1], s>>

ASSUME MaxIdAssumption == MaxId \in Nat
ASSUME NullAssumption == NULL \notin Id /\ NULL \notin SlotId
ASSUME SlotAssumption == \A d \in Id : Unassigned(d) \notin Slot /\ Trash(d) \notin Slot

(***************************************************************************)
(* What a stored file is: a PDF, an image, or an encrypted PDF with an     *)
(* individual number (specific personal information, kept under spi/).     *)
(***************************************************************************)
Kind == {"pdf", "image", "spi"}
ASSUME InputAssumption == /\ Kinds \subseteq Kind
                          /\ Bumps \subseteq {"minor", "major", "audit_start"}
NameOf(kind) == IF kind = "image" THEN "image" ELSE "pdf"

Status == {"empty", "uploaded", "processing", "approved", "remanded",
           "soft_deleted", "deleted"}

Row == [place : Place,
        logical : Id,              \* logical_document_id
        cur : Id,                  \* current_version_id, with its storage_key
        from : SlotId \cup {NULL}, \* deleted_from_slot_id; deleted_at is set with it
        shared : BOOLEAN,          \* client_shared_at
        spi : BOOLEAN,             \* contains_individual_number
        name : {"pdf", "image"}]   \* extension of original_name

Logical == [place : Place, status : Status,
            cur : Id \cup {NULL}, approved : Id \cup {NULL}]

\* The patch number is 0 in every version the code makes.
Version == [logical : Id, kind : Kind, major : Nat, minor : Nat]

Put(f, x, y) == [z \in DOMAIN f \cup {x} |-> IF z = x THEN y ELSE f[z]]
Drop(f, x) == [z \in DOMAIN f \ {x} |-> f[z]]

RowsAt(p) == {d \in DOMAIN rows : rows[d].place = p}
LogicalsAt(p) == {l \in DOMAIN logicals : logicals[l].place = p}
VersionsOf(l) == {v \in DOMAIN versions : versions[v].logical = l}

NoEntry == [x \in {} |-> x]

Init ==
    /\ rows = NoEntry
    /\ logicals = NoEntry
    /\ versions = NoEntry
    /\ stored = {}
    /\ lastId = 0

-----------------------------------------------------------------------------
(***************************************************************************)
(* Version numbers.                                                        *)
(***************************************************************************)

\* ORDER BY version_major DESC, version_minor DESC, ..., created_at DESC
Newer(v, w) ==
    \/ versions[v].major > versions[w].major
    \/ /\ versions[v].major = versions[w].major
       /\ versions[v].minor > versions[w].minor
    \/ /\ versions[v].major = versions[w].major
       /\ versions[v].minor = versions[w].minor
       /\ v > w

IsLatest(v, S) == v \in S /\ \A w \in S \ {v} : Newer(v, w)
Latest(S) == CHOOSE v \in S : IsLatest(v, S)

NextNumber(l, bump) ==
    IF VersionsOf(l) = {} THEN [major |-> 1, minor |-> 0]
    ELSE LET prev == versions[Latest(VersionsOf(l))]
         IN CASE bump = "audit_start" -> [major |-> 2, minor |-> 0]
              [] bump = "major" -> [major |-> prev.major + 1, minor |-> 0]
              [] OTHER -> [major |-> prev.major, minor |-> prev.minor + 1]

-----------------------------------------------------------------------------
(***************************************************************************)
(* Saving a file.  The uuid drawn for the version is the next identifier;  *)
(* a logical document or a row made by the same request gets that number   *)
(* too, since the three tables never mix their keys.                       *)
(***************************************************************************)
Fresh == lastId + 1

\* ensure_logical_document: the logical document of a coordinate, whatever its status.
LogicalFor(p) ==
    IF LogicalsAt(p) = {} THEN Fresh ELSE CHOOSE l \in LogicalsAt(p) : TRUE

EnsureLogical(p) ==
    IF LogicalsAt(p) = {}
    THEN Put(logicals, Fresh,
             [place |-> p, status |-> "empty", cur |-> NULL, approved |-> NULL])
    ELSE logicals

\* create_document_version: write the file, insert the version.
AddVersion(l, kind, bump) ==
    /\ lastId < MaxId
    /\ lastId' = Fresh
    /\ stored' = stored \cup {Fresh}
    /\ versions' = Put(versions, Fresh,
                       [logical |-> l, kind |-> kind,
                        major |-> NextNumber(l, bump).major,
                        minor |-> NextNumber(l, bump).minor])

\* ... and make it the current version of its logical document.
MakeCurrent(lg, l) ==
    [lg EXCEPT ![l].cur = Fresh, ![l].status = "uploaded"]

\* mark_approved
MarkApproved(lg, l, v) ==
    [lg EXCEPT ![l].approved = v, ![l].status = "approved"]

\* Mutant: a new row takes an identifier that no row has now.
RowForUnused(p) ==
    IF RowsAt(p) = {} THEN CHOOSE d \in 1 .. Fresh : d \notin DOMAIN rows ELSE CHOOSE d \in RowsAt(p) : TRUE

\* The row of a coordinate is updated in place, deleted or not, or inserted.
RowFor(p) == IF RowsAt(p) = {} THEN Fresh ELSE CHOOSE d \in RowsAt(p) : TRUE
From(p) == IF RowsAt(p) = {} THEN NULL ELSE rows[RowFor(p)].from
Shared(p) == RowsAt(p) # {} /\ rows[RowFor(p)].shared
Spi(p) == RowsAt(p) # {} /\ rows[RowFor(p)].spi

\* Mutant: the update of an existing row forgets its logical document.
UpsertRowKeepLogical(p, l, kind, shared, spi) ==
    rows' = Put(rows, RowFor(p),
                [place |-> p, cur |-> Fresh, from |-> From(p),
                 logical |-> IF RowsAt(p) = {} THEN l ELSE rows[RowFor(p)].logical,
                 shared |-> shared, spi |-> spi, name |-> NameOf(kind)])

UpsertRow(p, l, kind, shared, spi) ==
    rows' = Put(rows, RowFor(p),
                [place |-> p, logical |-> l, cur |-> Fresh, from |-> From(p),
                 shared |-> shared, spi |-> spi, name |-> NameOf(kind)])

\* Mutant: an upload leaves the share of the row it replaces.
UploadKeepShare(p, kind, byClient) ==
    /\ AddVersion(LogicalFor(p), kind, "upload")
    /\ logicals' = MakeCurrent(EnsureLogical(p), LogicalFor(p))
    /\ UpsertRow(p, LogicalFor(p), kind, Shared(p) \/ (byClient /\ kind # "spi"), kind = "spi")

\* POST /api/slots.  A file sent from the client portal is shared at once, any
\* other upload withdraws the share of the row it replaces.
Upload(p, kind, byClient) ==
    /\ AddVersion(LogicalFor(p), kind, "upload")
    /\ logicals' = MakeCurrent(EnsureLogical(p), LogicalFor(p))
    /\ UpsertRow(p, LogicalFor(p), kind, byClient /\ kind # "spi", kind = "spi")

\* Capture routing (always a PDF) and migration import write the same tables but
\* leave the share and the individual-number flag of an existing row alone.
RouteToSlot(p, kind) ==
    /\ AddVersion(LogicalFor(p), kind, "upload")
    /\ logicals' = MakeCurrent(EnsureLogical(p), LogicalFor(p))
    /\ UpsertRow(p, LogicalFor(p), kind, Shared(p), Spi(p))

\* POST /api/document-versions: work save (minor), approval snapshot (major) or
\* start of an audit.
PostVersion(p, bump) ==
    LET saved == MakeCurrent(EnsureLogical(p), LogicalFor(p))
    IN /\ AddVersion(LogicalFor(p), "pdf", bump)
       /\ logicals' = IF bump = "major" THEN MarkApproved(saved, LogicalFor(p), Fresh)
                                        ELSE saved
       /\ UpsertRow(p, LogicalFor(p), "pdf", Shared(p), Spi(p))

\* POST /api/slots/{id}/convert-to-pdf: a new PDF version from the image of a row
\* (left out: from a file whose version was deleted while its unlink failed).
ConvertToPdf(d) ==
    /\ rows[d].name = "image" /\ ~rows[d].spi
    /\ rows[d].cur \in stored \cap DOMAIN versions /\ versions[rows[d].cur].kind = "image"
    /\ AddVersion(rows[d].logical, "pdf", "upload")
    /\ logicals' = MakeCurrent(logicals, rows[d].logical)
    /\ rows' = [rows EXCEPT ![d].cur = Fresh, ![d].name = "pdf"]

\* register_stamped_version: Auto-Vouch saves a stamped copy of a version, whatever
\* became of its document.
Stamp(v) ==
    /\ v \in stored /\ versions[v].kind = "pdf"
    /\ AddVersion(versions[v].logical, "pdf", "minor")
    /\ logicals' = MakeCurrent(logicals, versions[v].logical)

\* POST /api/audit/auto-link: the row at the place of the document follows.
LinkStamp(v) ==
    LET l == versions[v].logical
        p == logicals[l].place
    IN Stamp(v) /\ UpsertRow(p, l, "pdf", Shared(p), Spi(p))

\* The retry from the queue when the OCR of the version is done: no row follows.
QueuedStamp(v) == Stamp(v) /\ UNCHANGED rows

-----------------------------------------------------------------------------
(***************************************************************************)
(* Taking rows out of the matrix and putting them back.                    *)
(***************************************************************************)

\* UPDATE logical_documents SET status: no effect when the record is gone.
SetStatus(l, status) ==
    [k \in DOMAIN logicals |->
        IF k = l THEN [logicals[k] EXCEPT !.status = status] ELSE logicals[k]]

\* DELETE ?mode=detach: the row leaves its coordinate, its logical document stays.
\* Another row at the place made from its id (auto-link can put one there) makes the
\* UNIQUE constraint abort the request, here and in a soft delete.
Detach(d) ==
    LET p == WithSlot(rows[d].place, Unassigned(d))
    IN /\ rows[d].from = NULL
       /\ RowsAt(p) \ {d} = {}
       /\ rows' = [rows EXCEPT ![d].place = p]
       /\ UNCHANGED <<logicals, versions, stored, lastId>>

\* Mutant: the share of a trashed row goes on.
SoftDeleteKeepShare(d) ==
    LET p == WithSlot(rows[d].place, Trash(d))
    IN /\ rows[d].from = NULL
       /\ RowsAt(p) \ {d} = {}
       /\ rows' = [rows EXCEPT ![d].place = p, ![d].from = rows[d].place[2]]
       /\ logicals' = SetStatus(rows[d].logical, "soft_deleted")
       /\ UNCHANGED <<versions, stored, lastId>>

\* DELETE (default mode): to the trash, remembering the slot; the share ends.
SoftDelete(d) ==
    LET p == WithSlot(rows[d].place, Trash(d))
    IN /\ rows[d].from = NULL
       /\ RowsAt(p) \ {d} = {}
       /\ rows' = [rows EXCEPT ![d].place = p, ![d].from = rows[d].place[2],
                               ![d].shared = FALSE]
       /\ logicals' = SetStatus(rows[d].logical, "soft_deleted")
       /\ UNCHANGED <<versions, stored, lastId>>

\* Mutant: a purge unlinks whatever file the row points at.
PurgeAnyFile(d) ==
    /\ rows' = Drop(rows, d)
    /\ logicals' = SetStatus(rows[d].logical, "deleted")
    /\ stored' = stored \ {rows[d].cur}
    /\ UNCHANGED <<versions, lastId>>

\* An unlink that fails is swallowed and leaves the file.
Unlink(files) == stored' \in {stored, stored \ files}

\* DELETE ?mode=purge: only a file outside versions/ is unlinked, and only the
\* one the row points at.
Purge(d) ==
    /\ rows' = Drop(rows, d)
    /\ logicals' = SetStatus(rows[d].logical, "deleted")
    /\ Unlink({v \in DOMAIN versions : v = rows[d].cur /\ versions[v].kind = "spi"})
    /\ UNCHANGED <<versions, lastId>>

\* Mutant: the current version is taken for the approved one.
RestoredStatusCur(l) == IF logicals[l].cur # NULL THEN "approved" ELSE "empty"

\* restore_logical_document: the status is worked out again from the pointers.
RestoredStatus(l) ==
    IF logicals[l].approved # NULL THEN "approved"
    ELSE IF logicals[l].cur # NULL THEN "uploaded" ELSE "empty"

\* POST .../restore, to the slot it came from in the period it is in now.  The conflict
\* query ignores trashed rows; when it passes over one, the UNIQUE constraint aborts
\* the request instead.
Restore(d) ==
    LET l == rows[d].logical
        p == WithSlot(rows[d].place, rows[d].from)
    IN /\ rows[d].from # NULL
       /\ l \in DOMAIN logicals /\ logicals[l].status = "soft_deleted"
       /\ RowsAt(p) \ {d} = {}
       /\ rows' = [rows EXCEPT ![d].place = p, ![d].from = NULL]
       /\ logicals' = SetStatus(l, RestoredStatus(l))
       /\ UNCHANGED <<versions, stored, lastId>>

\* POST .../share-with-client and .../unshare-with-client
Share(d) ==
    /\ ~rows[d].spi /\ rows[d].from = NULL /\ ~rows[d].shared
    /\ rows' = [rows EXCEPT ![d].shared = TRUE]
    /\ UNCHANGED <<logicals, versions, stored, lastId>>

Unshare(d) ==
    /\ rows[d].from = NULL /\ rows[d].shared
    /\ rows' = [rows EXCEPT ![d].shared = FALSE]
    /\ UNCHANGED <<logicals, versions, stored, lastId>>

\* Mutant: a logical document counts as empty without an approved version.
VacantIfUnapproved(l) == logicals[l].approved = NULL

\* relocate_logical_document: an empty logical document at the target makes way.
Vacant(l) == logicals[l].cur = NULL /\ logicals[l].approved = NULL

Relocate(l, p) ==
    [k \in DOMAIN logicals \ (LogicalsAt(p) \ {l}) |->
        IF k = l THEN [logicals[k] EXCEPT !.place = p] ELSE logicals[k]]

\* PATCH: move a row, trashed or not, to another slot, another period or both, or
\* rename it where it is.
Move(d, p) ==
    LET l == rows[d].logical
    IN /\ RowsAt(p) \ {d} = {}
       /\ IF l \in DOMAIN logicals
          THEN /\ \A k \in LogicalsAt(p) \ {l} : Vacant(k)
               /\ logicals' = Relocate(l, p)
          ELSE UNCHANGED logicals
       /\ rows' = [rows EXCEPT ![d].place = p]
       /\ UNCHANGED <<versions, stored, lastId>>

-----------------------------------------------------------------------------
(***************************************************************************)
(* DELETE /api/document-versions/{id}                                      *)
(***************************************************************************)
\* Mutant: the version being deleted can be promoted.
OthersAndSelf(v) == VersionsOf(versions[v].logical)

Others(v) == VersionsOf(versions[v].logical) \ {v}

\* Mutant: ORDER BY without DESC.
PromotedOldest(v) ==
    IF Others(v) = {} THEN NULL
    ELSE CHOOSE w \in Others(v) : \A u \in Others(v) \ {w} : Newer(u, w)

Promoted(v) == IF Others(v) = {} THEN NULL ELSE Latest(Others(v))

\* The logical document without version v: current and approved move on.
AfterDelete(v) ==
    LET old == logicals[versions[v].logical]
        cur == IF old.cur = v THEN Promoted(v) ELSE old.cur
        approved == IF old.approved = v THEN NULL ELSE old.approved
        status ==
            IF old.cur = v
            THEN IF cur = NULL THEN "empty"
                 ELSE IF \/ approved = cur
                         \/ old.status = "approved" /\ approved # NULL
                      THEN "approved" ELSE "uploaded"
            ELSE IF old.approved = v /\ old.status = "approved" THEN "uploaded"
                 ELSE old.status
    IN [old EXCEPT !.cur = cur, !.approved = approved, !.status = status]

\* The row at the coordinate of the logical document follows if it showed v, and
\* goes away with the last version.  Its name and flags stay as they are.
RowsWithout(v) ==
    LET hit == {d \in RowsAt(logicals[versions[v].logical].place) : rows[d].cur = v}
    IN IF Others(v) = {}
       THEN [d \in DOMAIN rows \ hit |-> rows[d]]
       ELSE [d \in DOMAIN rows |->
                IF d \in hit THEN [rows[d] EXCEPT !.cur = Promoted(v)] ELSE rows[d]]

DeleteVersion(v) ==
    LET l == versions[v].logical
    IN /\ l \in DOMAIN logicals
       /\ logicals[l].status \notin {"deleted", "soft_deleted"}
       /\ logicals' = [logicals EXCEPT ![l] = AfterDelete(v)]
       /\ versions' = Drop(versions, v)
       /\ Unlink({v})
       /\ rows' = RowsWithout(v)
       /\ UNCHANGED lastId

-----------------------------------------------------------------------------
(***************************************************************************)
(* Review and classification.                                              *)
(***************************************************************************)

\* POST /api/review-events, approve: the ids of the payload are taken as they are,
\* so the version may be gone or belong to another document.
Approve(l, v) ==
    /\ logicals' = MarkApproved(logicals, l, v)
    /\ UNCHANGED <<rows, versions, stored, lastId>>

\* POST /api/review-events, remand
Remand(l) ==
    /\ logicals' = SetStatus(l, "remanded")
    /\ UNCHANGED <<rows, versions, stored, lastId>>

\* POST /api/classify for a coordinate: "processing", then "uploaded" if there is a
\* current version.
Classify(p) ==
    \E l \in LogicalsAt(p) :
        /\ logicals' = SetStatus(l, IF logicals[l].cur # NULL THEN "uploaded"
                                                              ELSE "processing")
        /\ UNCHANGED <<rows, versions, stored, lastId>>

-----------------------------------------------------------------------------
SlotSave(p) ==
    \/ \E kind \in Kinds, byClient \in BOOLEAN : Upload(p, kind, byClient)
    \/ \E kind \in Kinds \ {"spi"} : RouteToSlot(p, kind)
    \/ \E bump \in Bumps : PostVersion(p, bump)
    \/ Classify(p)

RowStep(d) ==
    \/ ConvertToPdf(d)
    \/ Detach(d)
    \/ SoftDelete(d)
    \/ Purge(d)
    \/ Restore(d)
    \/ Share(d)
    \/ Unshare(d)
    \/ \E p \in Period \X (Slot \cup {rows[d].place[2]}) : Move(d, p)

Review(l) ==
    \/ \E v \in 1 .. lastId : Approve(l, v)
    \/ Remand(l)

Next ==
    \/ \E p \in Coordinate : SlotSave(p)
    \/ \E d \in DOMAIN rows : RowStep(d)
    \/ \E v \in DOMAIN versions : LinkStamp(v) \/ QueuedStamp(v) \/ DeleteVersion(v)
    \/ \E l \in DOMAIN logicals : Review(l)

Spec == Init /\ [][Next]_vars

-----------------------------------------------------------------------------
(***************************************************************************)
(* Properties.                                                             *)
(***************************************************************************)

\* Every table holds records of its shape, under identifiers already issued.
TypeOK ==
    /\ lastId \in 0 .. MaxId
    /\ stored \subseteq 1 .. lastId
    /\ DOMAIN rows \subseteq 1 .. lastId
    /\ DOMAIN logicals \subseteq 1 .. lastId
    /\ DOMAIN versions \subseteq 1 .. lastId
    /\ rows \in [DOMAIN rows -> Row]
    /\ logicals \in [DOMAIN logicals -> Logical]
    /\ versions \in [DOMAIN versions -> Version]

\* No version is orphaned: moving a document onto a coordinate deletes the logical
\* document standing there, and that one never owns a version.
VersionsOwned ==
    \A v \in DOMAIN versions : versions[v].logical \in DOMAIN logicals

\* A logical document has a current version exactly when it has versions, and it is
\* one of them, through any mix of uploads, moves and version deletes.
CurrentOwned ==
    \A l \in DOMAIN logicals :
        IF VersionsOf(l) = {} THEN logicals[l].cur = NULL
                              ELSE logicals[l].cur \in VersionsOf(l)

\* A row never shows a version of another logical document (its version may be gone).
RowShowsOwnVersion ==
    \A d \in DOMAIN rows :
        rows[d].cur \in DOMAIN versions => versions[rows[d].cur].logical = rows[d].logical

\* A version has its file, whatever was purged or deleted before, but for the
\* encrypted ones that a purge erased.
VersionsHaveFiles ==
    \A v \in DOMAIN versions \ stored : versions[v].kind = "spi"

\* The current version is the latest by number unless it opened an audit: the
\* number of an audit start is fixed, that of any other version is above all others.
CurrentIsLatest ==
    \A l \in DOMAIN logicals :
        logicals[l].cur # NULL =>
            \/ IsLatest(logicals[l].cur, VersionsOf(l))
            \/ /\ versions[logicals[l].cur].major = 2
               /\ versions[logicals[l].cur].minor = 0

\* A document shown as approved names the version that was approved, also after
\* version deletes, soft deletes and restores.
ApprovedNamesVersion ==
    \A l \in DOMAIN logicals :
        logicals[l].status = "approved" => logicals[l].approved # NULL

\* A row flagged as holding an individual number is never shared with the client.
FlaggedRowNotShared ==
    \A d \in DOMAIN rows : rows[d].spi => ~rows[d].shared

\* A row that sits in the trash is not shared and knows where it came from.
TrashedRowWithdrawn ==
    \A d \in DOMAIN rows :
        rows[d].place[2] = Trash(d) => ~rows[d].shared /\ rows[d].from # NULL

(***************************************************************************)
(* What the properties rest on: the UNIQUE constraints of the two tables   *)
(* hold; a place is a coordinate or was made from an identifier issued     *)
(* before, and nothing was deleted from its own place in the trash; a      *)
(* row's version was issued; and a version's number is bounded by its      *)
(* identifier, so that a document has a latest version.                    *)
(***************************************************************************)
OneRowPerPlace ==
    \A d, e \in DOMAIN rows : rows[d].place = rows[e].place => d = e
OneLogicalPerPlace ==
    \A k, l \in DOMAIN logicals : logicals[k].place = logicals[l].place => k = l

IssuedSlot == Slot \cup {Unassigned(d) : d \in 1 .. lastId} \cup {Trash(d) : d \in 1 .. lastId}

RowPlacesIssued ==
    \A d \in DOMAIN rows :
        /\ rows[d].place \in Period \X IssuedSlot
        /\ rows[d].from \in IssuedSlot \cup {NULL}
        /\ rows[d].from # Trash(d)

LogicalPlacesIssued ==
    \A l \in DOMAIN logicals : logicals[l].place \in Period \X IssuedSlot

VersionsIssued == \A d \in DOMAIN rows : rows[d].cur \in 1 .. lastId

NumbersBelowIds ==
    \A v \in DOMAIN versions : versions[v].major <= v /\ versions[v].minor < v

\* The inductive invariant: every property above with what it rests on.
IInv ==
    /\ TypeOK
    /\ VersionsOwned /\ CurrentOwned /\ CurrentIsLatest /\ NumbersBelowIds
    /\ RowShowsOwnVersion /\ VersionsIssued
    /\ OneRowPerPlace /\ RowPlacesIssued
    /\ OneLogicalPerPlace /\ LogicalPlacesIssued
    /\ VersionsHaveFiles
    /\ ApprovedNamesVersion
    /\ FlaggedRowNotShared /\ TrashedRowWithdrawn

(***************************************************************************)
(* The tables implement the document matrix: a row that is not in a slot   *)
(* of its period is aside.                                                 *)
(***************************************************************************)
WhereIs(d) == IF rows[d].place[2] \in Slot THEN rows[d].place ELSE NULL

Matrix == INSTANCE DocumentMatrix WITH
            Coordinates <- Coordinate, Ids <- Id, Aside <- NULL,
            at <- [d \in DOMAIN rows |-> WhereIs(d)], issued <- 1 .. lastId

\* Every operation moves at most one row, and only to a free slot, and no
\* operation brings an erased row back.
ImplementsMatrix == Matrix!Spec
=============================================================================
