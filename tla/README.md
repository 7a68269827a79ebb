# A verification project for DocuGrid / TAXX

DocuGrid keeps the documents of an accounting firm's clients: every client has a
matrix of periods and slots, a document sits at a coordinate of the matrix, every
save makes an immutable version of it, and the firm reviews, approves, shares,
archives and deletes what is there.  This directory holds TLA+ models of that
program, the TLC configurations that check them, and theorems about them that the
TLA+ proof system has checked.  Paths below are relative to the repository.

## 1. The system

One Next.js frontend (`frontend/`), one FastAPI process (`backend/main.py`, one
uvicorn worker), an MCP server that is a client of the same API.  The backend keeps
one SQLite file per domain and the files on disk; there is no transaction across two
databases, or across a database and the file system.

How requests run decides what can interleave:

- almost every endpoint is an `async def` that awaits nothing after its body is
  read, so it runs on the event loop from there to its end: such handlers are atomic
  with respect to each other, and only a crash of the process cuts one in two;
- `def` endpoints and `BackgroundTasks` (OCR jobs, and with them Auto-Vouch) run in
  threads, concurrently with the event loop and with each other;
- the frontend is a client that has several requests in flight and handles their answers
  in any order; a handler that awaits goes on with the state of the render that started it,
  not with the state of now.

| component | state | operations | interacts with |
|---|---|---|---|
| Document matrix (`api/routers/slots.py`, `services/document_version_service.py`) | `slot_documents`, `logical_documents`, `document_versions`, version files, encrypted `spi/` files | upload, post version, convert to PDF, detach, soft delete, purge, restore, share, unshare, move, delete version | everything below writes through it |
| Capture routing, migration import (`routers/capture.py`, `migration_persist.py`) | capture items, migration wallet | route an item to a coordinate | writes rows and versions of the matrix |
| Review events (`routers/review_events.py`) | append-only log | approve, remand, comment | sets pointers and status of logical documents |
| Classification (`routers/documents.py`, `pending_classify_service.py`, `extraction_draft_service.py`) | pending queue, drafts | classify, confirm, discard | sets the status of logical documents |
| OCR jobs (`ocr_job_service.py`) | `ocr_jobs`, index status per version | create, run, retry | reads versions, starts text index and Auto-Vouch |
| Auto-Vouch (`auto_vouching.py`) | vouch queue | match, stamp, retry | saves a stamped version behind a version |
| Client master (`api/master_store.py`, `client_master_store.py`, `profile_normalize_pipeline.py`, `routers/integrations.py`; in the browser `useClientMasterSettings.ts`, `client-field-mutations.ts`, `client-master-api.ts`) | one JSON file of the clients, profiles with histories, relations and groups of all firms | read, save a firm's part, learn a field from a document | written by the event loop and by OCR threads; the MCP server saves into it |
| Client transfer (`client_transfer_service.py`) | transfers, packages | create, claim, revoke, expire | imports a client into the master of another firm |
| MCP server (`mcp-server/src/tools.ts`) | none | reads, tags of a client | `PUT /api/client-master` |
| Moneytree (`moneytree_link_service.py`) | connection, OAuth state, accounts | connect, callback, refresh, sync, disconnect | outside OAuth server with rotating tokens |
| Stripe billing (`stripe_billing_service.py`) | plan and subscription of a firm | checkout, webhooks | grants to the AI wallet |
| AI usage (`ai_usage_service.py`) | usage and wallet per firm | check, record, grant | called by every AI feature |
| Rate limiter (`login_rate_limit.py`) | attempts per key, in memory | check, record, reset | login |
| Payroll (`payroll_ledger_service.py`, `year_end_engine.py`) | ledger rows, year-end runs | calculate, apply | - |
| DocuGrid workspace (`features/docugrid`, `docugrid_persist_service.py`) | one store of pages for the open slot, sync status; a row per workspace, a link per slot | open, edit, autosave, flush, load | autosave to the backend, link in `slot_documents` |
| PDF editor (`features/pdf-viewer/hooks/usePdfEditor.ts`, `features/matrix/hooks/useMatrixPdfOperations.ts`) | file on the screen, working files, undo and redo stacks, snapshot timer | annotate, reorder, merge, undo, redo, save | versions of the matrix |
| Audit viewer (`usePdfViewerSession.ts`, `useAuditWorkflow`, `routers/audit.py`) | history of versions, shown version, audit links | workflow steps, pick or delete a version, add and save links | versions and events of the matrix |
| Slot board (`useSlotDocumentMutations.ts`, `useSlotDocumentHydration.ts`) | slots, unassigned, trash, open slot | clear, delete, purge, restore, assign, move, upload, hydrate, refresh | repeats what the matrix did |
| Individual-number vault (`spi_vault.py`, `routers/spi.py`) | encrypted documents | upload, view, delete, purge | shares the `spi/` directory with the matrix |

The full list, with what is left out and why, is `components` in `PROJECT.json`.

### What is hard here

- A row of the matrix keeps a copy of its document's current version; the document
  is found again by coordinate, whatever its status; deletes, restores, moves and
  uploads can be done in any order.  Few of those orders are tested.
- Version numbers are computed from the latest version by number, but the start of
  an audit has a fixed number.
- What may be seen by the client is decided by flags on the row, what the row holds
  by the version under it.
- A handler commits in several databases and writes files in between: a crash leaves
  any prefix of that.
- Threads (OCR, Auto-Vouch) read pointers that handlers change.
- Calls from outside (Stripe, Moneytree) come twice, late or in another order.
- The browser keeps copies (board, workspace, file, history, links) and mends them with each
  answer; nothing reloads them.  Answers overtake each other and arrive under another slot,
  version or file than the one they were asked for.
- The client master is one file that every writer reads and writes whole, from the event loop
  and from threads, with nothing that keeps two apart; opening it for writing empties it.
- Lists and pages are posted whole: what a late answer put back is what the next post stores.

`hazards` in `PROJECT.json` lists each at its line with the properties that watch it.

## 2. The modules

| module | what it is |
|---|---|
| `SlotStore` | the document matrix: state, one action per handler, invariants, the inductive invariant `IInv` |
| `MCSlotStore` | instances for TLC: the symmetries of the matrix and three slices of `Next` |
| `SlotStore_proofs` | the proofs of `IInv`, of every invariant of `SlotStore`, and that its tables implement `DocumentMatrix` |
| `DocumentMatrix` | the abstract specification: what the matrix promises, whoever keeps it |
| `DocumentMatrix_proofs` | what follows from it for every implementation |
| `OcrJobs` | the OCR threads next to the event loop, and the queue of vouchings that wait for them |
| `OcrJobs_proofs` | the proofs of `OcrJobs`'s `IInv` and invariants |
| `WorkspaceSync` | the DocuGrid store of the browser against the workspaces of the server |
| `WorkspaceSync_proofs` | the proofs about it |
| `WorkspaceFindings` | what a comment says of the flush and the code does not do |
| `PdfEditor` | the editor of the viewer: requests, undo stacks, snapshot timer, saves |
| `MCPdfEditor`, `PdfEditor_proofs` | its instance and the proofs about it |
| `AuditLinks` | the history of versions in the viewer and the audit links of each |
| `MCAuditLinks`, `AuditLinks_proofs` | its instance and the proofs about it |
| `SlotBoard` | the board of a period in the browser against the matrix of the server |
| `MCSlotBoard`, `SlotBoard_proofs` | its instance and the proofs about it |
| `ClientMaster` | the client master of all firms, its pages, the documents that fill it, the transfer of a client |
| `MCClientMaster`, `ClientMaster_proofs` | its instance and the proofs about it |

### SlotStore

State and code:

| variable | code |
|---|---|
| `rows` | table `slot_documents` (`api/persistence.py`): place, logical document, current version with its storage key, `deleted_from_slot_id`, share, individual-number flag, extension of the name |
| `logicals` | table `logical_documents`: place, status, current and approved version |
| `versions` | table `document_versions`: logical document, kind of file, number |
| `stored` | which version files exist on disk |
| `lastId` | how many identifiers were drawn |

A place is a period (a client and a period of that client, one member of `Period`) and
a slot id.  A place whose slot id is a slot of the matrix is a *coordinate*.  A row
taken out of the matrix keeps its period and gets a slot id made from its own id:
`Unassigned(d)` after a detach, `Trash(d)` after a soft delete.  `deleted_from_slot_id`
is a slot id only, so a restore works in the period the row is in by then.  An identifier stands for a `uuid4`: it is never drawn
twice.  The version drawn by a request, and the row and the logical document it may
insert, get the same number; they live in three tables that never mix their keys.
File contents are one of three kinds: a PDF, an image, an encrypted PDF that holds an
individual number.

Each of the seventeen actions is one handler from its checks to its last write: `Upload`, `RouteToSlot`
(capture routing and migration import), `PostVersion`, `ConvertToPdf`,
`LinkStamp` (auto-link: the row at the document's place follows the stamped copy),
`QueuedStamp` (the retry after OCR: no row follows), `Detach`, `SoftDelete`, `Purge`, `Restore`, `Share`, `Unshare`,
`Move`, `DeleteVersion`, `Approve`, `Remand`, `Classify`.  The helpers carry the names
of the functions they stand for in their comments (`EnsureLogical`, `NextNumber`,
`AddVersion`, `Relocate`, `AfterDelete`, `RowsWithout`).  The UNIQUE constraint on the
coordinates is part of the guards: `Restore` and `Move` also ask for conflicts
themselves, `Detach` and `SoftDelete` only meet it, when an auto-link inserted a row at
the place made from their id.  `Approve` takes any version
id ever issued since the endpoint stores the one it is sent.  A file that cannot be
unlinked stays and nobody hears of it (`document_version_service.py:630`, `slots.py:648`), so
`Unlink` may leave it; the properties ask for the files of versions and say nothing of files left
behind.

The endpoints take any slot id that they are sent (`slots.py:24`, `slots.py:894`).  The
model uploads to coordinates only, and moves a row to coordinates or, under the slot id it
has, to another period: no client sends another one, and a request that names the
`deleted_` or `unassigned_` place of somebody else's row is outside what is shown here.

Left out of the module: page counts, hashes, titles and other payload columns; the
audit log; the Drive mirror and the text index, whose failures are swallowed and whose
state no handler reads back; authorisation (any caller some role allows); the one-off
migrations of old storage layouts.

### OcrJobs

The matrix is modelled with atomic handlers; OCR is where the process is concurrent.
`post_ocr_job` and `audit_auto_link` run on the event loop and commit one database at
a time; the background task they start, `run_ocr_job`, runs in a thread of its own, and
several runs of one version can overlap.

| variable | code |
|---|---|
| `record`, `meta` | `document_versions`: whether the record exists, and its `metadata_json` |
| `files` | the version files on disk |
| `jobs` | table `ocr_jobs` |
| `index` | table `document_index_state`: status and last job of a version |
| `queue` | table `auto_vouch_queue` |
| `runs` | the calls of `run_ocr_job`: their job, the line they have come to, and in `process_auto_vouch_queue_for_version` the list of entries still to do and the entry in hand |
| `loop` | the handler on the event loop between two commits |

A step is what one connection commits, or one look at what another thread may change
(`path.exists()`, `path.read_bytes()`, the list of the queue).  The position of a run
names what it did last: before its `try` block (`queued`, `found`, `exists`, `failing`),
in it (`work`, `written`, `done`), in the handler of its exceptions (`raised`,
`job_failed`, `meta_failed`), in the queue (`indexed`, `vouching`, `retry`, `scan`,
`stamped`, `refused`), or over.  `RunRaises` is a database call that raises at any of
them (SQLite gives up on a lock held too long): outside the `try` block and in the
handler of the exceptions nobody catches it (`dead`), in the block the handler does
(`raised`), around the queue it is swallowed (`cut`).  `HandlerRaises` is the same on the
event loop.  `Crash` ends the handler and every run that is not over.

A payload is who made it and whether it holds the text of the pages; `Enrich` is
`enrich_classify_metadata`, which copies the keys it knows and so drops that text.  The
versions are scans: what has a text layer is found at once and never queued.  Left out:
the RAG index of a version (its failure is swallowed), the normalisation of names and
dates, the wording of errors.  What a found value does to the matrix is `LinkStamp` and
`QueuedStamp` of `SlotStore`; because the text of the pages is dropped, no retry reaches
the second today, and `SlotStore` allows more than happens.

### DocumentMatrix

What a user may rely on, without tables: a document is at one coordinate or aside
(detached, in the trash, elsewhere); a step moves at most one document, and only to a
coordinate that nobody holds; an erased document does not come back under its identifier.
`SlotStore` implements it (`ImplementsMatrix`: a row stands for a document, a row whose
slot id is made from its own id is aside).

### WorkspaceSync

The browser has one store for the pages of the slot that is open
(`docugrid-store.ts`).  Two effects save it: a timer of two seconds after it becomes dirty,
and a cleanup when the scope of the effect changes (`useDocugridAutoSync.ts`).  Opening a
slot empties the store and fills it from the slot's PDF or from a stored workspace.

| variable | code |
|---|---|
| `store` | the zustand store: pages, `persistedDocumentId`, `sessionSyncStatus` |
| `active` | `activeSlotKey`, the scope the effects were created with |
| `clientLink` | `slotDocs[key].docugridDocumentId` |
| `saves`, `loads` | requests in flight, with what they carry and what was answered |
| `workspaces`, `link` | the server's rows and `slot_documents.docugrid_document_id` |
| `overlapped` | history: the store was edited or refilled behind a pending request, or refilled over an open slot |

Pages are the slot they were built from and a revision.  `SwitchTo` is the change of the
open slot with the cleanup that follows: React runs it after the handler, so it sees the
store that the handler left.  Left out: what the pages contain, and the layout.

### PdfEditor

Every edit posts a whole file and is answered by a whole file; the answer becomes the
file on the screen, the working file of its slot and an undo entry.  Annotations are saved
as a version by a timer of eight seconds, which is one for all slots; page operations and
the save button save at once, and the answer of a save sets the file again.

| variable | code |
|---|---|
| `active`, `isOpen`, `opening` | the open slot, the mounted viewer, the file shown while a workspace loads |
| `file`, `working` | the file on the screen, `slotDocs[key].file` |
| `undo`, `redo`, `log` | the stacks of `usePdfEditor` and its list of actions |
| `calls`, `timer`, `snaps`, `reload` | edits asked for, the snapshot timer, saves in flight, the list of versions being read |
| `versions` | the server's versions of each document |
| `disturbed` | history: an answer met another file or slot than the one it was computed from, a save failed, an edit was left without its undo entry, or somebody undid or redid while a merge was reading its thumbnails |

A file is the document it belongs to and the set of edits in it, which is what tells a
lost edit from a kept one.

A merge ends in two steps.  Its request is over, and `isLoading` taken back
(`useMatrixPdfOperations.ts:444`), when the version is there and the slot has the file
(`ArrangedSaved`); the drop then reads the thumbnails of the file and only after that shows
it once more and pushes its entry (`usePdfEditor.ts:622`: `MergeShown`), or gives up when
other thumbnails were asked for meanwhile (`MergeOvertaken`).  Everything the editor offers
can be used between the two.

Left out: annotation geometry, what thumbnails show, `isLoading` of annotations (nothing asks
it), and looking at an old version: the editor then shows the file of the history
(`usePdfViewerSession.ts:322`, `:405`), while highlight and reorder post the working file
(`useMatrixPdfOperations.ts:147`, `:273`).

### AuditLinks

An audit link joins a point of the left file to a point of the right one and belongs to a
version.  The viewer keeps the links of the shown version and posts the whole list; the
shown version is an index into a history that the viewer extends itself (with entries the
server never heard of, `Phantom`) and that is replaced when a list arrives.

| variable | code |
|---|---|
| `rows`, `server` | versions and events of the document; the links of each version |
| `open` | the viewer shows the document |
| `history`, `shown` | the history panel and `activeVerIdx` |
| `links`, `point`, `status` | `auditCheckLinks`, `pendingCheckPoint`, `linkSaveStatus` |
| `clicks` | check points whose file is being hashed, with the point and the version of the click |
| `load`, `posts`, `reload`, `tasks` | requests in flight |
| `busy` | `versionDeleteBusyId` |
| `missed` | history: a step or a list failed, or somebody else deleted a version, and the list has not been asked for since |
| `disturbed` | history: a list was posted behind another request or for a version that is not shown, a load overtook a list, or a load failed |

A deletion disables the button of its own version only (`HistoryPanel.tsx:236`), so several
may be under way, and the last version can go: the viewer then closes (`Close`,
`usePdfViewerSession.ts:661`) and only its posts are followed any further.  Others save and
delete versions at any time (`Others`).  A step or a deletion reads the lists of versions and
events (`TaskListed`), shows them (`TaskReturns`) and asks for them once more (`Restart`; an
answer of an earlier read is dropped).  A document without a version has a history of review
events, which have no file (`Event`, `usePdfViewerSession.ts:249`, `:620`, `:654`).

Left out: what a link points at, comments, the automatic matching (it ends in the same
`persistAuditLinks`), the swap of the two sides, a document that has no version when it is
opened, and a change between the reads of the two lists, which are one moment here.

### SlotBoard

The handlers of the board repeat in the browser what the server did, each after its own
answer; nothing is read again.  A hydration puts the listed documents over what is shown
and a refresh renews ids and version labels.  Opening a slot reads its pages first
(`OpenSlot`) and makes it the active slot when they are there, without another look at it
(`Activate`, `useSlotDocumentMutations.ts:91`, `:646`); a slot is opened once at a time, which
bounds the state and nothing else.

| variable | code |
|---|---|
| `at`, `from`, `held`, `made` | the server as these requests see it: place, origin, file of each document |
| `slots`, `unassigned`, `trash`, `active` | `slotDocs`, `unassignedDocs`, `deletedDocs`, `activeSlotKey` |
| `opening` | slots whose pages are being read |
| `requests`, `hydration`, `refresh` | changes and lists in flight; a change carries what its handler closed over |
| `restored`, `complete` | history: documents restored since the last hydration; whether that one fetched every file |
| `disturbed` | history: two requests met at a slot or document, a change during a hydration, an answer lost, a slot became the active one when it was empty or during a change of it, a file that could not be saved got an id |

Left out: share flags, the status "processing", the conversion to PDF, changes of the
layout, several users.

### ClientMaster

`client_master.json` holds the clients of every firm.  A page of a firm shows the firm's part
of it as it was when the page was opened (`OpenPage`, `Reload`), and sends all of that part
back: the settings page with what was typed and a history made by comparing the two
(`Save`), the relations page with fresh clients and its own relations (`Relate`), one field
of the data page (`PatchField`), the MCP tool one client and nothing else (`UpdateTags`).  The
server merges the part into the file (`Merged`).  A document sets a field that is empty or of
a lower rank (`LearnChecks`, `LearnReads`), on the event loop or in the thread of an OCR job.
A claim imports the client of a code into another firm and then marks the code
(`ClaimBegins`, `ClaimWritten`, `ClaimSettles`).

| variable | code |
|---|---|
| `file` | `client_master.json`; `NULL` while it is cut to nothing by an `open` for writing |
| `job` | what the event loop and each thread do with it: checked (`read`), copy made (`open`), file cut (`write`), copy imported (`settle`) |
| `screen` | the pages: what was loaded, what is typed, the request sent |
| `transfers` | table of the codes, with the pack |
| `known`, `origin`, `interrupted` | history: the firm of every client ever stored, the code of every copy, claims a crash cut off between import and mark |
| `stale`, `spoilt` | history: a document was checked against a field that changed before the file was read again; a whole-file write overtook another, or the file was left cut |

A handler of the event loop awaits nothing between its read and its write, so one job of it is
under way at a time; the threads interleave with it between any two steps.  One profile field
stands for all of them, its value with its source and history; a relation is a pair of
clients.  Left out: groups, layouts and tags, which `Merged` treats as it treats relations;
names and other fields; the documents of a pack; conflict alerts and metrics; the cap on the
length of a history; the completion of a master that holds the client `c1` of the demo.

### Histories of what is known to go wrong

The browser modules each carry a history variable (`overlapped`, `disturbed`) that turns
true when requests of one kind meet in a way after which the code does lose or mislabel
something; the disagreements below are those ways.  It never turns back.  The properties
of the browser hold *until* then (in `ClientMaster` the histories are `stale` and `spoilt`):
they say that nothing else goes wrong, in particular not by reopening, failing, reordering
answers of different slots, or leaving and coming back.  `missed` of `AuditLinks` is of
another kind: it says that the panel has yet to hear of something, and the next list that is
asked for ends it.

Where such a run carries `CONSTRAINT Undisturbed` (in `AuditLinks` as a part of `Explored`),
TLC does not go on from a disturbed state; it would find nothing there, because the
properties with the condition hold in it and in all that follow, and those without it are
proved for all states.

### Properties

Of `SlotStore`:

| property | says | code that could break it |
|---|---|---|
| `VersionsOwned` | no version loses its logical document | move deletes the logical document at the target |
| `CurrentOwned` | a document has a current version iff it has versions, and it is one of them | promotion on version delete |
| `CurrentIsLatest` | the current version has the highest number, unless it opened an audit | numbers computed from the latest, promotion by number |
| `RowShowsOwnVersion` | a row never shows the version of another document | the row's copy goes stale |
| `VersionsHaveFiles` | a version has its file, but for encrypted ones a purge erased | purge and version delete unlink files, by the version of a row or by that of a request |
| `ApprovedNamesVersion` | "approved" names the approved version | restore works the status out again |
| `FlaggedRowNotShared` | a flagged row is never shared | four handlers write the share or the flag |
| `TrashedRowWithdrawn` | nothing in the trash is shared, and it knows its origin | uploads, moves and deletes reach trashed rows |
| `ImplementsMatrix` | every handler is a step of `DocumentMatrix` | a handler that moves two rows or reuses an identifier |

That no two rows, and no two logical documents, have one place is not among them: the tables
have UNIQUE constraints for it (`persistence.py:139`, `document_version_service.py:80`), which
the actions take as guards.  It is a part of `IInv`, which the other properties rest on.

Of `OcrJobs`:

| property | says | code that could break it |
|---|---|---|
| `ReadyHasText` | a version that is ready has the payload of its OCR, unless a run of it failed or was ended | the index is set after the metadata, by each of several runs |
| `IndexAgreesWithJob` | when all runs of a version returned, its index agrees with the job it names, if that job ran once | three ways out of `run_ocr_job`, each writing two tables |
| `EntryInHand` | an entry in processing is in the hands of a run or was left by a stopped one | two runs take the same entry, one refuses it |
| `JobSettles` | a job ends, done or failed, unless its file is deleted | runs overtake each other, the OCR raises |
| `RetryHappens` | a vouching queued with a job is retried when the job is done | the queue is read once, at the end of a run |
| `LeftoverTakenUp` | an entry a crash left in processing is settled by the next run | the list takes entries in processing too |

Of `WorkspaceSync`:

| property | says | code that could break it |
|---|---|---|
| `LinksResolve` | every workspace id in the browser, in a row or in a save is one the server holds | four copies of the id, set by answers in any order |
| `HonestWhenAlone` | until requests overlap, "saved" means that the server holds the pages on the screen, and no slot is linked to pages of another | scope and body of a save are read at different times |
| `DirtyIsSaved` | dirty pages of an open slot are saved or an error is shown | the timer is armed by the status, which others change |

Of `PdfEditor`:

| property | says | code that could break it |
|---|---|---|
| `StacksBounded` | undo and redo together stay within the limit | redo does not apply it |
| `UndoChains` | the stacks are one chain through the file on the screen, whenever no page operation has shown its file without its entry | entries are pushed by answers, a merge's behind two awaits |
| `OwnFile` | a file never gets under another slot, in the browser or on the server | answers carry the slot they were asked for, effects the active one |
| `NothingForgotten` | the edits of a document are in a version or on their way to one | one timer, stopped by page operations and closing |
| `EditsReachServer` | and get there, unless they are undone | the same, under fairness |

Of `AuditLinks`:

| property | says | code that could break it |
|---|---|---|
| `ShownIsHeld` | once the lists that were asked for have arrived, the panel shows a version the server holds and offers no other | lists are replaced under an index, a late index is set, entries are made in the browser, deletions overlap |
| `StoredWithItsVersion` | a link is stored with the version it was made on and no other | the endpoint is that of the render, the list that of now |
| `ScreenIsStored` | at rest, the links of the shown version are the stored ones | load, post, failure in any order |
| `LinksKept` | a stored link stays until its version is deleted | every post replaces the list |
| `AddedIsStored` | an added link gets stored, or an error shows | posts and loads overtake each other |

Of `SlotBoard`:

| property | says | code that could break it |
|---|---|---|
| `ShownIsThere` | what the board shows is what the server has | every handler repeats the server by hand |
| `NothingMissing` | after a full hydration no document is missing, but for restored and covered ones | handlers that remove and do not add |
| `ActiveIsShown` | the open slot shows a document | `activeSlotKey` is the one of the handler's start, and is set only after the pages were read |

Of `ClientMaster`:

| property | says | code that could break it |
|---|---|---|
| `ClientsKept` | no client leaves the master or changes its firm, whatever old parts are sent | the merge of a firm's part, the refusal of ids of other firms |
| `OthersUntouched` | a request of one firm leaves clients and relations of the others as the file has them | relations are replaced by firm, demo clients and new ids are taken by whoever comes first |
| `HistoryExplains` | the history of a field leads to its value, and no document replaced what a person typed | histories are made in the browser by comparing two copies, and on the server |
| `ClaimsAccounted` | a code brings its client over once, plus once for each claim a crash cut off | import and mark are two commits |

## 3. The runs

| run | module, instance | shows |
|---|---|---|
| `slot_full` | `Spec`, one period of one slot, two identifiers, images, encrypted files and failing unlinks | every handler together keeps `IInv`; versions have their files, flags and shares agree with what the rows and the trash hold; no deadlock |
| `slot_places` | `PlacesSpec`, two periods of two slots (both symmetric), two identifiers | rows and documents taken out, moved to another period, in the trash too, and restored there while new files arrive; every step is one of `DocumentMatrix` |
| `slot_versions` | `VersionsSpec`, one slot, four identifiers, every bump | version numbers, promotion, review |
| `ocr_jobs` | `OcrJobs!Spec`, one version, two jobs, three runs, one entry, one fault, one crash, deletes | what index, job and metadata say of each other |
| `ocr_liveness` | `OcrJobs!FairSpec`, one version, two jobs, two runs, two entries, one crash, deletes | two runs in the same queue: jobs end, vouchings are retried, leftovers of a crash are taken up |
| `workspace_sync` | `WorkspaceSync!FairSpec`, two slots, three revisions, three requests | saves and loads in any order, lost or answered, while slots are opened, edited, closed and left |
| `pdf_editor` | `PdfEditor!FairSpec`, two documents, three edits, undo limit two | edits, undo, redo, saves, merges and the timer, with answers in any order and across slots |
| `audit_links` | `AuditLinks!FairSpec`, two versions, two steps, deletions or refreshes, two clicks, two posts, somebody else who saves and deletes | a history that is extended, replaced and shortened by overlapping requests, down to nothing, and the links of the version shown in it |
| `slot_board` | `SlotBoard!Spec`, two slots (symmetric), two documents, two files, four changes, openings or hydrations | the board after any four of them, with every list stale or partial |
| `client_master` | `ClientMaster!Spec`, two firms, three clients, two screens (symmetric), one thread, one code, two copies, one crash, three deeds | saves of old parts, documents and a claim in one file |
| `tags_only` | `ClientMaster!Spec`, the same | violated, see below |
| `unsaved_flushed` | `WorkspaceFindings` on the instance of `workspace_sync` | violated, see below |

Bounds.  `MaxId` bounds the files ever saved, `Period` and `Slot` the coordinates.  Two
slots are what a conflict needs (an origin and a target), two periods what a restore
after a move to another one needs.  Three versions are what a
promotion with a choice needs (the deleted one and two others); four allow an audit
start among them.  Two identifiers under all seventeen handlers already give 907 000
states; the slices leave operations out of `Next` to go deeper with the others.  The runs
take states for one that differ only in files left behind without their version
(`VIEW FilesOfVersions`): no action and no property asks for those.  The
proofs then cover every size.  The slices switch the deadlock check off: when the
identifiers are used up and everything is purged nothing is left to do.  `slot_full`
keeps it on (a logical document is never removed but by a move, so a review always
can happen once there was an upload).

`OcrJobs` has one version: the runs of two versions share only the queue and the table
of jobs, and touch different rows of both.  Three runs of two jobs are what it takes for
a job to run twice next to another one; two entries and two runs for one run to take
what the other has in hand.  The instances have 446 000 and 76 000 states; the proofs
cover every number of versions, jobs, runs, entries, faults and crashes.  The deadlock check is off: when the bounds are used up there is nothing left
to do.

The browser modules have two slots or documents, which is what a request needs to be
answered under the wrong one, and two versions, which is what a link needs to be stored
with the wrong one.  Three requests of `WorkspaceSync` are a save that makes a workspace,
one that replaces it and a load between them; three edits of `PdfEditor` over a limit of
two push the oldest out; four changes of `SlotBoard` are a detach, a delete or move, an
upload into the place, and a hydration; two steps of `AuditLinks` are two deletions under way
together.  Its history does not depend on its links, so both are explored to a depth of their
own: without a click every step within the bounds, with clicks or posts one step and
`MaxEffort` four (steps, clicks, posts and deleted versions together), which leaves two clicks,
a post and a deletion; the sides are interchangeable, so the first click is on the left
(`Explored`).  The instances have 244 000, 443 000, 630 000 and 1 918 000
states.  Their deadlock checks are off for the same reason: a user who asks for no more is no
deadlock, and the bounds stop the rest.

`ClientMaster` has two firms for what one may do to the other, and two clients in one of them
for a relation; a client of the demo and one id made from a name are the ids two firms may
both come to; a code with two copies is a claim that a crash cut off and one that settles.
Its deeds (`MaxDeeds`: pages opened, things typed, requests that need no page, jobs begun)
are three: a page, what is typed there, and a document or another page in between.  The
instance has 553 000 states; the proofs cover any number of all of them.

Fairness.  `SlotStore`, `SlotBoard` and `ClientMaster` have no liveness property and no fairness: a
handler runs when a user asks, and nothing must happen by itself.  `OcrJobs!FairSpec` asks weak fairness of the
steps of the handler on the event loop (it awaits nothing, so it goes on to its
response) and, for each run, of the steps of its thread (the thread pool starts every
task and the operating system schedules every thread).  Requests, faults and crashes
need not come.  `ocr_liveness` has no fault: an exception in the wrong place does stop a
job for good, and so does a crash (see below); `JobSettles` and `RetryHappens`
speak of the time before the crash, `LeftoverTakenUp` of the time after it.
In the browser, weak fairness of the timers (`setTimeout` fires while the page lives), of the
server and of the handling of answers (a `fetch` is answered or fails); never of what a user
does.  `AuditLinks` asks it of posts alone, since no property needs more.  An answer may always be a failure, so that no property
rests on a request that succeeds.

### What the code does not keep

`tags_only` checks what the MCP server says of its tool `update_client_tags`
(`mcp-server/src/tools.ts:117`, `mcp-server/README.md:105`): that it replaces the tags of one
client.  It sends that client with no relations and no groups (`tools.ts:135`), and the
server takes that for all the relations and groups the firm has
(`api/master_store.py:422`): they are gone.

`unsaved_flushed` checks a comment of the code and finds it violated: the second effect of
`useDocugridAutoSync` flushes what is unsaved when the slot or period changes (`:37`), but
its cleanup runs after the store was refilled for the next slot
(`useSlotDocumentMutations.ts:91` before `:92`), so an edit of the last two seconds is lost, and
what is saved under the old slot are the pages of the new one.

Disagreements without a run, which the models show as well.  On the server:

- an upload to the coordinate of a deleted document revives it
  (`document_version_service.py:206`), though `:406` calls its mutations blocked; the row
  in the trash then answers 409 to a restore (`slots.py:722`), though `slots.py:663` calls
  the delete restorable;
- two audit starts make two versions 2.0.0 (`document_version_service.py:253`), which
  `docs/roadmap.md:278` declares unique, and one after a 2.x or later puts the current version
  below older ones (`CurrentIsLatest` excuses it);
- a document that lost its last version stays in `processing` after a classification
  (`documents.py:159`);
- deleting the version a row shows puts the older one under the row and leaves its share and
  its flag (`slots.py:1215`): an encrypted file with an individual number ends up under a
  shared row, which `slots.py:52` and `docs/my-number-handling.md:40` forbid;
- a purge unlinks the file of the row only (`slots.py:647`); older encrypted versions stay on
  disk, and so does every file whose unlink fails (`slots.py:648`,
  `document_version_service.py:634`), though `docs/my-number-handling.md:42` calls a purge
  irrecoverable;
- a restart loses the task of a job, and job and index stay in processing
  (`ocr_job_service.py:360`), though `docs/backlog-2026-06-02.md:140` lets a job end only as
  done or failed;
- auto-link runs the job of a version that is ready (`audit.py:202`), though
  `ocr_job_service.py:322` says that it is reused and not run again;
- a vouching that is queued after the run has listed the queue is never retried
  (`auto_vouching.py:901`), though the answer at `:915` promises it;
- the text of the pages is dropped before it is stored (`extracted_document_meta.py:29`),
  though the retry searches it (`auto_vouching.py:607`);
- a delete between `exists()` and `read_bytes()` (`ocr_job_service.py:457`) leaves the job
  in processing, though a missing file found one line earlier fails it;
- of two overlapping runs one fails and replaces the payload, the other then sets the index
  to ready (`ocr_job_service.py:632`).

Of the client master (`ClientMaster`, the first three behind `spoilt`, the fourth behind `stale`):

- a thread that has read the file before a save or a claim and writes it after drops what was
  saved or claimed (`client_master_store.py:53`), and the other way round;
- a reader that meets the file cut short takes the demo master for it
  (`master_store.py:309`), and the next write stores that;
- two writers at once may leave a mixture that no longer parses;
- a document that was checked against an empty field replaces what a person typed before it
  is written (`profile_normalize_pipeline.py:226`), though a typed value is never to be
  replaced by a document;
- the relations page sends the relations it loaded with fresh clients, so that it takes back
  relations of another screen made meanwhile (`ClientRelationsPanel.tsx:203`);
- a CSV list "replaces" the clients (`client-master-csv.ts`), yet those it leaves out stay on
  the server, and those it names lose profile and history, which
  `docs/client-data-vision.md` calls a log that is only appended to;
- `docs/client-data-vision.md:98` ranks the number of a register extract above what is
  typed; the code protects what is typed from every document;
- the reload event discards what is typed and not saved;
- a crash between import and mark leaves the code pending, and the next claim imports another
  copy; a claim marks the code also when the documents of the pack could not be imported.

Of the workspace (`WorkspaceSync`, each behind `overlapped`):

- an edit made while a save is in flight is marked saved by its answer
  (`docugrid-store.ts:98`) and not saved until the next edit;
- a late answer for the slot that was left puts its workspace id into the store of the next
  slot, whose saves then replace that workspace;
- two saves without an id in flight make two workspaces, one of which nothing names;
- after an error nothing saves again until the next edit.

Of the editor (`PdfEditor`, each behind `disturbed`):

- two annotations in flight start from the same file, and the later answer drops the other
  edit (`usePdfEditor.ts:530`);
- the answer of a save puts the saved file over edits made meanwhile
  (`useMatrixActiveSlotMeta.ts:152`), and late answers set the file of another slot;
- one timer serves all slots (`useMatrixPdfOperations.ts:100`): an annotation on another
  document within eight seconds takes it over, and the first is not saved;
- a failed save after a page operation leaves the file without version, timer or undo entry;
- while a merge reads its thumbnails the editor is free again
  (`useMatrixPdfOperations.ts:444`, `usePdfEditor.ts:622`): an undo, a redo or an edit in
  between is covered by the merged file, whose entry then does not continue the stack, and a
  merge whose thumbnails are overtaken has no entry at all;
- a new version in the history clears the undo stack, though the comment at
  `usePdfEditor.ts:377` keeps it for the document.

Of the audit links (`AuditLinks`):

- a link added while the list is loading is overwritten by the answer, and a failed load
  empties the list; the next post stores what is left (`usePdfViewerSession.ts:1010`);
- a click hashes its file behind an await: when the version changes meanwhile, the list of
  the new version is posted to the old one (`:854`);
- a workflow step shows an entry with an id of its own, and links saved on it answer 404;
- two posts are applied in the order they arrive in, not the order they were made in;
- when the lists after a deletion cannot be read, the panel goes on offering the deleted
  version (`usePdfViewerSession.ts:674`), until the next list;
- of two deletions that overlap, the second takes over the busy mark, and the first to end
  shows the latest version of its own list by its index in the history of now
  (`usePdfViewerSession.ts:637`).

Of the board (`SlotBoard`):

- a restored document is not shown until the next hydration, and a deleted one is not in the
  trash of the board, though the notice says it can be viewed and restored there
  (`useSlotDocumentMutations.ts:173`);
- a PDF that could not be saved covers the saved document of its slot, and the next refresh
  gives it that document's id and label;
- a hydration never removes what is no longer there;
- a slot that is emptied while its pages are read becomes the open slot all the same, and
  shows nothing (`useSlotDocumentMutations.ts:91`, `:646`); one that is opened behind a change
  under way is left open and empty by its answer, which goes by the slot that was open when
  it was asked for (`:130`).

## 4. The proofs

### SlotStore

`SlotStore_proofs` proves, for any periods and slots, any kinds and bumps and any
bound on identifiers, that `IInv` is an invariant of `Spec` (`Consistent`), and from it
each invariant above as a theorem of its own.

Assumptions: `MaxId` is a natural number; `NULL` is no identifier and no slot id; a slot
id made from a row's id is not a slot of the matrix; inputs are among the known kinds and bumps.
They are named in `SlotStore` and TLC evaluates them in every run.

Why `IInv` and not each property alone: the properties need each other and three facts
nobody states.

- `CurrentIsLatest` needs that a set of versions *has* a latest one.  `NumbersBelowIds`
  bounds the numbers by the identifier, so that a greatest one exists
  (`GreatestBelow`, by well-foundedness of the naturals, then `LatestExists`).
- `VersionsOwned` needs `CurrentOwned`: the logical document a move deletes has no
  current version, hence none at all (`VacantOwnsNothing`).
- What a place shows is one row and one logical document (`OneRowPerPlace`,
  `OneLogicalPerPlace`).  Both rest on the guards that stand for UNIQUE and are no results of
  their own; the other parts need them, and `LogicalPlacesIssued`, which gives auto-link, which
  saves at the place of a document, a place that exists.
- `RowShowsOwnVersion` needs `VersionsIssued`: a new identifier is not already in a row
  that points at a deleted version.
- `TrashedRowWithdrawn` needs `RowPlacesIssued`: a row inserted under a new id is not at
  the trash place of that id, since places are made from identifiers issued before, and
  what a restore gives back is not the trash.

The proof follows the handlers: what a save does to each table once for the six
handlers that save (`SavedVersion`, `SavedLogicals`, `SavedRows`), then one lemma per
handler, with `IInv` split by table (`RowsInv`, `LogicalsInv`, `FilesInv`) for those that
save nothing.

### OcrJobs

`OcrJobs_proofs` proves, for any versions and any bounds, that the `IInv` of `OcrJobs` is
an invariant of its `Spec`, and from it `TypeOK`, `ReadyHasText`, `IndexAgreesWithJob` and
`EntryInHand`.  Assumptions: the bounds are natural numbers, and `NULL` is no job, entry,
version or payload.

What the invariant adds to the properties:

- `ReadyHasText` speaks of an index that says ready, written by a run some time ago.
  `ReadyShown` keeps that run in sight (a run past its index exists, or one a crash ended),
  `WrittenStays` says what such a run has left in the metadata as long as no run failed:
  later runs can only write the same kind of payload, and a version uploaded anew had no
  runs, since jobs are made for versions that were uploaded (`JobsKnown`).
- `IndexAgreesWithJob` speaks of the end of the runs.  `OutcomesAgree` says at each
  position what the only run of a job has written to job and index so far; another run
  with another job takes the index away from it by naming its own, never half.  That
  a job indexed as processing is nobody's run yet is in `LoopRefs`.
- `EntryInHand` needs `RunRefs`: the entries a run has listed are of its version.

The proof splits the steps by what they do.  Steps that move runs and write nothing
(most positions, faults, the crash) are one lemma, `MovesKeep`, with a condition on the
pair of positions (`Allowed`).  Steps that write the job, the index or the metadata of a
run are one lemma each (`JobKeeps`, `IndexKeeps`, `MetaKeeps`), the two that write the queue
share `QueueKeeps`, and the handlers, which only add jobs, entries and runs, are
`ServesKeeps`.

### DocumentMatrix

`SlotStore_proofs` proves `Spec => ImplementsMatrix`: with `IInv` in hand, each of the
seventeen handlers maps to `Enter`, `Go`, `Remove` or a stutter on `at`.  What makes it true
is the guards of the handlers that move a row, `RowFor` for those that save
(the row at a coordinate is reused, a new one is made only where there is none), and
`RowPlacesIssued` for new identifiers.  `DocumentMatrix_proofs` then proves for whoever
implements it that a coordinate shows one document (`OneDocumentPerCoordinate`) and that an
identifier is never reused (`ErasedStaysErased`).

### The browser

The four modules hold some properties always and others only until two requests meet
(`overlapped`, `disturbed`).  Each has two invariants: one that always holds, and one under
that condition, which is not inductive without the first.

`WorkspaceSync_proofs`:

- always: `TypeOK`, `SavingHasRequest`, `LinksResolve`.  The invariant adds that what a save
  was answered with (`stored`) was written (`Written`): an id travels from the answer into the
  store, from there into the next save, and the server never removes a workspace;
- while nothing overlaps: `HonestWhenAlone`.  It speaks of a saved store; what it was saved
  with has been a request before.  `OnePending` says that at most one request is under way,
  `Agreed` that it carries the pages of the store (or of one that was emptied behind it),
  `Numbered` that the id a new workspace gets is fresh, and `Owned` that a workspace has one
  owner for good, since whoever names it is its owner.

`PdfEditor_proofs`:

- always: `TypeOK` and `StacksBounded`.  Only `PushEdit` applies the limit; `Redo` moves an
  entry from one stack to the other, so the sum is what is invariant;
- until a failed or late answer finds another file than the one it was computed from:
  `UndoChains`, `OwnFile` and `NothingForgotten`, proved together as `Calm`.  `Mounting` says
  when the stacks are empty, that one page operation at a time has no version yet
  (`Arranging`), and that an editor has one merge at a time to its end (`Merging`); `Owned`
  follows each file from working file to timer, snapshot, call and version; `Numbered` says
  that no file holds an edit nobody asked for, so that the file an edit makes differs from
  every earlier one; `Entries` says that an entry of a stack only adds edits.  `Chains` has
  to speak of the time *between* request and answer, when the screen shows an edit that no
  stack holds: the stacks then fit the file the call started from (`Linked`), unless a merge
  was edited over while it read its thumbnails (`Gone`): its entry is then never pushed
  without disturbing the rest.  `Kept` says the same of
  the edits: an entry of the redo stack that can be taken is on its way too.

`AuditLinks_proofs`:

- always: `TypeOK`, `SavingHasPost` and `ShownIsHeld`.  The last needs what holds before the
  lists have arrived (`Panel`): a list that replaces another moves the index off an event and
  to a version whenever it has one (`Settles`); and when no step is under way and nothing was
  missed, then either a list is being read, and what was read of it is the server's, or the
  panel's is (`Fresh`, `FromServer`).  That no step or deletion ends without asking for the
  list once more is what keeps it; what was read before a deletion ends is dropped by that;
- `Counted` says that no list names a version not yet made, and the server's names none
  twice: a deleted version does not come back in it;
- until a list is posted behind another request: `StoredWithItsVersion`, `ScreenIsStored` and
  `LinksKept`.  `Faithful` is what they rest on.  A list is posted whole, so nothing may be
  missing from the screen when it is posted: `Posted` says that the one post under way holds
  all that is stored, `Loaded` that the links of a load that was answered are still those of
  the server, and `Screen` that the screen shows the stored links or those being posted, and
  after a refused post at least the stored ones.  They speak of versions the server holds:
  an entry that a review event left may have the id of its version, which is deleted, and
  the list is then not loaded anew.

`SlotBoard_proofs`:

- always: the shapes of the state, that requests are formed as their handler sends them, and
  that a slot of the server has one document and what is at a place was made (`Occupied`).
  Every handler of the server is one kind of step for this (`Puts`: one document goes to one
  place that is free, a file may come with it), so that the rest of the proof has one case
  for the server instead of six.  None of it is a result of its own: the server is here the
  environment of the board, with the guards of `SlotStore`;
- until two requests meet: `ShownIsThere`, `NothingMissing` and `ActiveIsShown`, proved
  together as `Calm`.  The server changes when it serves a request, the board when the answer
  comes, and lists are read at any time between: `Placed` says where the document of a request
  is before and after it is served, `Carried` what the request took along when it was sent
  (the entry, the slot, whether it was open) is still so, `Apart` that no two requests touch.
  `Shows` and `Covered` then allow each difference between board and server that a served
  request explains, and no other.  `Hydrating` says that the server stands still while the
  lists of a hydration are read; `Refreshing` that a refresh names, at each saved slot, the
  document that is shown.  A detach starts no refresh, so an old list may still name the
  document that left; it names it at an empty slot, and whoever fills that slot starts a
  refresh.  That is why `Refreshing` speaks of the server's documents as well as of the
  board's: a hydration fills slots without starting one.
  The answers are cut the same way: `AnsweredKeeps` states once what an answer has to do for
  its request to be forgotten, and each handler is shown to do it.

TLC checked the second invariant of each module on the module's instance before it was proved.

Assumptions are the named ones of each module: bounds are natural numbers, and the mark for
"nothing" (`null` in the code) is no slot, version or number and none of the records that
stand where it may stand (`NothingIsNoRecord`, `NothingIsNoRequest`).  The places of `SlotBoard`
that are no slot (unassigned, trash, elsewhere) are no slots (`PlacesDiffer`).

### ClientMaster

`ClientMaster_proofs` proves all four properties and `TypeOK` for any firms, clients, screens,
threads, codes and bounds.  None of them is inductive:

- `ClientsKept` speaks of the file; what is written to it was copied some steps before.
  `FileKept` says that every copy that is still fresh keeps all clients, that the file is
  there when such a copy exists, and that as long as nothing was spoilt one writer at a time
  has the file cut.  The merge keeps clients because ids of other firms are refused
  (`Accepted`, `MergedKeeps`, `MergedOthers`).
- `HistoryExplains` speaks of the file; but a history leaves it, waits in a page, is compared
  with what is typed and comes back.  `HistoryKept` therefore says that all that is loaded,
  sent or about to be written explains itself, and that what is typed into still carries the
  loaded history or none (`Loyal`), which is what the comparison in `Recorded` needs.  A
  document is written into the client as it is by then, so `stale` is where the proof needs
  that the field is still the one that was checked (`LearnedFits`).
- `ClaimsAccounted` counts.  `CodeHeld` says that the claim under way has a pending code to
  itself and a new id; while it runs, the event loop runs nothing that ends a code.

The proof has one lemma for the twelve actions that change only a page (`PageKeeps`, each
action shown to be such a change by a lemma of its own), one for the steps that begin to read
or to write (`StartKeeps`), one for the end of a write (`WriteKeeps`) and one for codes that
change while the loop is free (`TransferKeeps`).  Assumptions: the built-in, made and drawn
ids are distinct from each other and from those of the file, there are finitely many copies,
documents never yield the empty value, the bounds are natural numbers, and the mark for
"nothing" is no code, copy or transfer.

### Only model-checked

That no deadlock occurs in the matrix; all liveness properties (`JobSettles`,
`RetryHappens`, `LeftoverTakenUp`, `DirtyIsSaved`, `EditsReachServer`, `AddedIsStored`), which
are out of the prover's reach; the two findings.  Every invariant and every safety action
property of a passing run is a theorem.

## 5. Not modelled

`components` in `PROJECT.json` lists every part with its reason.  In short:

- *crashes between the commits of a matrix handler*: the handlers are atomic in `SlotStore`,
  a crash within one leaves files without records or records without rows, which nothing in
  the code repairs;
- *an Auto-Vouch thread against a version delete*: both read pointers before they write;
  `OcrJobs` has the threads without the matrix, `SlotStore` the matrix without the threads;
- *of the client master*: what `ClientMaster` leaves out above, the pages that only show it,
  and the metrics derived from it;
- *Moneytree, Stripe, AI wallet, rate limiter, payroll*: small services of
  their own around one table each, with hazards listed and no model yet;
- *tax calculators, legal master, flowcharts, templates, screen design, family trees*: pure
  functions and forms without a state that several actors change;
- *pages of the frontend* that show what others keep;
- *authentication and tenancy*: the models take any caller that some role allows.
