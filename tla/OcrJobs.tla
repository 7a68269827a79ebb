------------------------------- MODULE OcrJobs -------------------------------
(***************************************************************************)
(* OCR of scanned PDFs in background threads, and the queue of vouchings   *)
(* that wait for it: the jobs and the index state of a version             *)
(* (ocr_jobs.db), the OCR payload in the metadata of the version           *)
(* (document_versions.db), the queue (auto_vouch_queue.db).                *)
(*                                                                         *)
(* The handlers run one at a time on the event loop, the runs of the jobs  *)
(* in threads next to it.  A step here is what one connection commits, or  *)
(* one look at what another thread may change.  A crash ends the handler   *)
(* and every run; the databases and files stay, and nothing is resumed.    *)
(***************************************************************************)
EXTENDS Naturals, Sequences

CONSTANTS
    Version,    \* scanned PDF versions: no text layer, text only from OCR
    NULL,
    MaxJobs,    \* bound: jobs created
    MaxRuns,    \* bound: runs of jobs started
    MaxEntries, \* bound: vouchings queued
    MaxFaults,  \* bound: database calls that raise (locked for too long)
    MaxCrashes, \* bound: restarts of the server process
    Deletes     \* BOOLEAN: versions may be deleted

VARIABLES
    record,     \* document_versions: version -> "new", "live" or "deleted"
    files,      \* versions whose file is on disk
    meta,       \* metadata_json: version -> the payload stored with it
    jobs,       \* ocr_jobs: the jobs in the order they were created
    index,      \* document_index_state: version -> status and last job
    queue,      \* auto_vouch_queue: the entries in the order they were created
    runs,       \* the calls of run_ocr_job, as background tasks start them
    loop,       \* the handler on the event loop
    faults, crashes

data == <<record, files, meta, jobs, index, queue>>
vars == <<record, files, meta, jobs, index, queue, runs, loop, faults, crashes>>

ASSUME BoundsAssumption == /\ {MaxJobs, MaxRuns, MaxEntries, MaxFaults, MaxCrashes} \subseteq Nat
                           /\ Deletes \in BOOLEAN

JobId == 1 .. MaxJobs
EntryId == 1 .. MaxEntries

Job == [ver : Version, status : {"processing", "done", "failed"}]
Index == [status : {"none", "processing", "ready", "failed"}, job : JobId \cup {NULL}]
Entry == [ver : Version, status : {"pending_ocr", "processing", "done", "failed"},
          job : JobId \cup {NULL}]  \* ocr_job_id

\* Who made the payload, and whether it holds the text of the pages (ocr_page_texts).
Payload == [by : {"upload", "ocr", "failure"}, pages : BOOLEAN]

\* enrich_classify_metadata keeps the keys it knows; the text of the pages is none.
Enrich(payload) == [payload EXCEPT !.pages = FALSE]

ASSUME NullAssumption == NULL \notin JobId \cup EntryId \cup Version \cup Payload

\* Where run_ocr_job is: before its try block, in it, in the handler of its exceptions,
\* in process_auto_vouch_queue_for_version, or over: returned, returned from the handler
\* of the exceptions, or with the queue cut short, ended by an exception, lost in a crash.
Outside == {"queued", "found", "exists", "failing"}
Trying == {"work", "written", "done"}
Excepting == {"raised", "job_failed", "meta_failed"}
Vouching == {"indexed", "vouching", "retry", "scan", "stamped", "refused"}
Over == {"end", "failed", "cut", "dead", "lost"}
Active == Outside \cup Trying \cup Excepting \cup Vouching

Run == [job : JobId, at : Active \cup Over,
        todo : SUBSET EntryId, entry : EntryId \cup {NULL}]

\* The handler: what it does next, on which version, the job it made or reuses, and
\* whether it is an auto-link that goes on to search the page.
Loop == [at : {"idle", "insert", "index", "search", "enqueue", "unlink"},
         ver : Version \cup {NULL}, job : JobId \cup {NULL}, link : BOOLEAN]

Idle == [at |-> "idle", ver |-> NULL, job |-> NULL, link |-> FALSE]

Init ==
    /\ record = [v \in Version |-> "new"]
    /\ files = {}
    /\ meta = [v \in Version |-> NULL]
    /\ jobs = <<>>
    /\ index = [v \in Version |-> [status |-> "none", job |-> NULL]]
    /\ queue = <<>>
    /\ runs = <<>>
    /\ loop = Idle
    /\ faults = 0 /\ crashes = 0

-----------------------------------------------------------------------------
(***************************************************************************)
(* Handlers on the event loop.                                             *)
(***************************************************************************)
Begin(at, v, j, link) ==
    /\ loop.at = "idle"
    /\ loop' = [at |-> at, ver |-> v, job |-> j, link |-> link]

\* The response is sent and the background task of the handler is started.
Respond(j) ==
    /\ loop' = Idle
    /\ IF j = NULL THEN UNCHANGED runs
       ELSE runs' = Append(runs, [job |-> j, at |-> "queued", todo |-> {}, entry |-> NULL])

\* The bounds, asked before a handler begins so that none is held up half way.
RoomForJob == Len(jobs) < MaxJobs /\ Len(runs) < MaxRuns
RoomForEntry == Len(queue) < MaxEntries /\ Len(runs) < MaxRuns

\* create_ocr_job: the version was read before, a fit result is reused unless forced.
Reusable(v) == index[v].status = "ready"

\* POST /api/slots of a PDF, classified by the client before or not, with its OCR
\* deferred to a job or not.
Upload(v, classified, async) ==
    /\ record[v] = "new"
    /\ record' = [record EXCEPT ![v] = "live"]
    /\ files' = files \cup {v}
    /\ meta' = IF classified THEN [meta EXCEPT ![v] = Enrich([by |-> "upload", pages |-> FALSE])]
                             ELSE meta
    /\ \/ async /\ RoomForJob /\ Begin("insert", v, NULL, FALSE)
       \/ ~async /\ loop = Idle /\ UNCHANGED loop
    /\ UNCHANGED <<jobs, index, queue, runs, faults, crashes>>

\* POST /api/ocr/jobs.  A reused job is returned and not run.
PostJob(v, force) ==
    /\ record[v] = "live" /\ (force \/ ~Reusable(v)) /\ RoomForJob
    /\ Begin("insert", v, NULL, FALSE)
    /\ UNCHANGED <<data, runs, faults, crashes>>

\* POST /api/audit/auto-link, with trigger_ocr or queue_on_ocr.  A reused job is run.
AutoLink(v, trigger) ==
    /\ record[v] = "live" /\ RoomForEntry
    /\ \/ trigger /\ ~Reusable(v) /\ RoomForJob /\ Begin("insert", v, NULL, TRUE)
       \/ trigger /\ Reusable(v) /\ Begin("search", v, index[v].job, TRUE)
       \/ ~trigger /\ Begin("search", v, NULL, TRUE)
    /\ UNCHANGED <<data, runs, faults, crashes>>

InsertJob ==
    /\ loop.at = "insert"
    /\ jobs' = Append(jobs, [ver |-> loop.ver, status |-> "processing"])
    /\ loop' = [loop EXCEPT !.at = "index", !.job = Len(jobs) + 1]
    /\ UNCHANGED <<record, files, meta, index, queue, runs, faults, crashes>>

SetIndex(v, status, j) == index' = [index EXCEPT ![v] = [status |-> status, job |-> j]]

IndexJob ==
    /\ loop.at = "index"
    /\ SetIndex(loop.ver, "processing", loop.job)
    /\ IF loop.link THEN loop' = [loop EXCEPT !.at = "search"] /\ UNCHANGED runs
                    ELSE Respond(loop.job)
    /\ UNCHANGED <<record, files, meta, jobs, queue, faults, crashes>>

\* find_value_in_ocr_metadata: a scan is searched in the text of its pages.
Finds(v) == IF meta[v] # NULL /\ meta[v].pages THEN BOOLEAN ELSE {FALSE}

\* run_auto_vouch: what is found is stamped at once (SlotStore's LinkStamp), what is not
\* is queued.
Search ==
    /\ loop.at = "search"
    /\ \E found \in Finds(loop.ver) :
        IF found THEN Respond(loop.job)
                 ELSE loop' = [loop EXCEPT !.at = "enqueue"] /\ UNCHANGED runs
    /\ UNCHANGED <<data, faults, crashes>>

Enqueue ==
    /\ loop.at = "enqueue"
    /\ queue' = Append(queue, [ver |-> loop.ver, status |-> "pending_ocr",
                               job |-> loop.job])
    /\ Respond(loop.job)
    /\ UNCHANGED <<record, files, meta, jobs, index, faults, crashes>>

\* DELETE /api/document-versions/{id}: the record, then the file.
Delete(v) ==
    /\ Deletes /\ record[v] = "live"
    /\ record' = [record EXCEPT ![v] = "deleted"]
    /\ meta' = [meta EXCEPT ![v] = NULL]
    /\ Begin("unlink", v, NULL, FALSE)
    /\ UNCHANGED <<files, jobs, index, queue, runs, faults, crashes>>

Unlink ==
    /\ loop.at = "unlink"
    /\ files' = files \ {loop.ver}
    /\ loop' = Idle
    /\ UNCHANGED <<record, meta, jobs, index, queue, runs, faults, crashes>>

\* A database call of the handler raises: an error response, and no task is started.
HandlerRaises ==
    /\ faults < MaxFaults /\ loop.at \in {"insert", "index", "search", "enqueue"}
    /\ faults' = faults + 1
    /\ loop' = Idle
    /\ UNCHANGED <<data, runs, crashes>>

-----------------------------------------------------------------------------
(***************************************************************************)
(* run_ocr_job in its thread.                                              *)
(***************************************************************************)
Goes(r, from, to) == runs[r].at = from /\ runs' = [runs EXCEPT ![r].at = to]
Ver(r) == jobs[runs[r].job].ver
SetJob(r, status) == jobs' = [jobs EXCEPT ![runs[r].job].status = status]

\* UPDATE document_versions: no effect when the record is gone.
SetMeta(v, payload) ==
    meta' = IF record[v] = "live" THEN [meta EXCEPT ![v] = payload] ELSE meta

FindVersion(r) ==
    /\ \/ record[Ver(r)] = "live" /\ Goes(r, "queued", "found") /\ UNCHANGED jobs
       \/ record[Ver(r)] # "live" /\ Goes(r, "queued", "failing") /\ SetJob(r, "failed")
    /\ UNCHANGED <<record, files, meta, index, queue, loop, faults, crashes>>

FindFile(r) ==
    /\ \/ Ver(r) \in files /\ Goes(r, "found", "exists") /\ UNCHANGED jobs
       \/ Ver(r) \notin files /\ Goes(r, "found", "failing") /\ SetJob(r, "failed")
    /\ UNCHANGED <<record, files, meta, index, queue, loop, faults, crashes>>

FailIndex(r) ==
    /\ Goes(r, "failing", "failed")
    /\ SetIndex(Ver(r), "failed", runs[r].job)
    /\ UNCHANGED <<record, files, meta, jobs, queue, loop, faults, crashes>>

\* path.read_bytes() stands outside the try block.
ReadFile(r) ==
    /\ Goes(r, "exists", IF Ver(r) \in files THEN "work" ELSE "dead")
    /\ UNCHANGED <<data, loop, faults, crashes>>

\* Mutant: the index turns ready before the payload is written.
ReadyFirst(r) ==
    /\ Goes(r, "work", "written")
    /\ SetIndex(Ver(r), "ready", runs[r].job)
    /\ UNCHANGED <<record, files, meta, jobs, queue, loop, faults, crashes>>

\* Classify and extract; the payload replaces the metadata of the version.
WriteMeta(r) ==
    /\ Goes(r, "work", "written")
    /\ SetMeta(Ver(r), Enrich([by |-> "ocr", pages |-> TRUE]))
    /\ UNCHANGED <<record, files, jobs, index, queue, loop, faults, crashes>>

\* Mutant: reading the scan stands outside the try block.
OcrUncaught(r) == Goes(r, "work", "dead") /\ UNCHANGED <<data, loop, faults, crashes>>

OcrFails(r) == Goes(r, "work", "raised") /\ UNCHANGED <<data, loop, faults, crashes>>

FinishJob(r) ==
    /\ Goes(r, "written", "done")
    /\ SetJob(r, "done")
    /\ UNCHANGED <<record, files, meta, index, queue, loop, faults, crashes>>

ReadyIndex(r) ==
    /\ Goes(r, "done", "indexed")
    /\ SetIndex(Ver(r), "ready", runs[r].job)
    /\ UNCHANGED <<record, files, meta, jobs, queue, loop, faults, crashes>>

\* The handler of the exceptions.
FailJob(r) ==
    /\ Goes(r, "raised", "job_failed")
    /\ SetJob(r, "failed")
    /\ UNCHANGED <<record, files, meta, index, queue, loop, faults, crashes>>

FailMeta(r) ==
    /\ Goes(r, "job_failed", "meta_failed")
    /\ SetMeta(Ver(r), Enrich([by |-> "failure", pages |-> FALSE]))
    /\ UNCHANGED <<record, files, jobs, index, queue, loop, faults, crashes>>

\* Mutant: the failure is not written to the index.
FailedUnindexed(r) == Goes(r, "meta_failed", "failed") /\ UNCHANGED <<data, loop, faults, crashes>>

FailedIndex(r) ==
    /\ Goes(r, "meta_failed", "failed")
    /\ SetIndex(Ver(r), "failed", runs[r].job)
    /\ UNCHANGED <<record, files, meta, jobs, queue, loop, faults, crashes>>

-----------------------------------------------------------------------------
(***************************************************************************)
(* process_auto_vouch_queue_for_version, at the end of a run that is done. *)
(***************************************************************************)
\* Mutants: only entries that a run left half way, only entries no run has taken.
WaitingLeft(v) == {e \in DOMAIN queue : queue[e].ver = v /\ queue[e].status = "processing"}
WaitingNew(v) == {e \in DOMAIN queue : queue[e].ver = v /\ queue[e].status = "pending_ocr"}

Waiting(v) ==
    {e \in DOMAIN queue : queue[e].ver = v /\ queue[e].status \in {"pending_ocr", "processing"}}

ListQueue(r) ==
    /\ runs[r].at = "indexed"
    /\ runs' = [runs EXCEPT ![r].at = "vouching", ![r].todo = Waiting(Ver(r))]
    /\ UNCHANGED <<data, loop, faults, crashes>>

SetEntry(e, status) == queue' = [queue EXCEPT ![e].status = status]

\* The next entry of the list, oldest first, whatever became of it since.
TakeEntry(r) ==
    /\ runs[r].at = "vouching"
    /\ \E e \in runs[r].todo :
        /\ \A other \in runs[r].todo : e <= other
        /\ SetEntry(e, "processing")
        /\ runs' = [runs EXCEPT ![r].at = "retry", ![r].entry = e, ![r].todo = @ \ {e}]
    /\ UNCHANGED <<record, files, meta, jobs, index, loop, faults, crashes>>

\* resolve_pdf_input, then the PDF is opened; a file that vanished in between raises.
FindScan(r) ==
    /\ Goes(r, "retry", IF record[Ver(r)] = "live" /\ Ver(r) \in files THEN "scan" ELSE "refused")
    /\ UNCHANGED <<data, loop, faults, crashes>>

\* What is found is stamped (SlotStore's QueuedStamp).
SearchAgain(r) ==
    /\ \E found \in Finds(Ver(r)) :
        Goes(r, "scan", IF Ver(r) \notin files THEN "cut"
                        ELSE IF found THEN "stamped" ELSE "refused")
    /\ UNCHANGED <<data, loop, faults, crashes>>

\* Mutant: an entry whose value is not found is left as it is.
SettleFound(r) ==
    /\ runs[r].at \in {"stamped", "refused"} /\ Goes(r, runs[r].at, "vouching")
    /\ IF runs[r].at = "stamped" THEN SetEntry(runs[r].entry, "done") ELSE UNCHANGED queue
    /\ UNCHANGED <<record, files, meta, jobs, index, loop, faults, crashes>>

SettleEntry(r) ==
    /\ runs[r].at \in {"stamped", "refused"} /\ Goes(r, runs[r].at, "vouching")
    /\ SetEntry(runs[r].entry, IF runs[r].at = "stamped" THEN "done" ELSE "failed")
    /\ UNCHANGED <<record, files, meta, jobs, index, loop, faults, crashes>>

EndRun(r) ==
    /\ runs[r].todo = {}
    /\ Goes(r, "vouching", "end")
    /\ UNCHANGED <<data, loop, faults, crashes>>

\* A database call of the run raises: caught by the try block, by the one around the
\* queue, or by nobody.
RunRaises(r) ==
    /\ faults < MaxFaults
    /\ faults' = faults + 1
    /\ \/ \E at \in Outside \cup Excepting : Goes(r, at, "dead")
       \/ \E at \in Trying : Goes(r, at, "raised")
       \/ \E at \in Vouching : Goes(r, at, "cut")
    /\ UNCHANGED <<data, loop, crashes>>

RunSteps(r) ==
    \/ FindVersion(r) \/ FindFile(r) \/ FailIndex(r) \/ ReadFile(r)
    \/ WriteMeta(r) \/ OcrFails(r) \/ FinishJob(r) \/ ReadyIndex(r)
    \/ FailJob(r) \/ FailMeta(r) \/ FailedIndex(r)
    \/ ListQueue(r) \/ TakeEntry(r) \/ FindScan(r) \/ SearchAgain(r)
    \/ SettleEntry(r) \/ EndRun(r)

-----------------------------------------------------------------------------
\* A crash and restart of the process.
Crash ==
    /\ crashes < MaxCrashes
    /\ crashes' = crashes + 1
    /\ loop' = Idle
    /\ runs' = [r \in DOMAIN runs |->
                    IF runs[r].at \in Over THEN runs[r] ELSE [runs[r] EXCEPT !.at = "lost"]]
    /\ UNCHANGED <<data, faults>>

Requests ==
    \/ \E v \in Version, classified, async \in BOOLEAN : Upload(v, classified, async)
    \/ \E v \in Version, force \in BOOLEAN : PostJob(v, force)
    \/ \E v \in Version, trigger \in BOOLEAN : AutoLink(v, trigger)
    \/ \E v \in Version : Delete(v)

HandlerSteps == InsertJob \/ IndexJob \/ Search \/ Enqueue \/ Unlink

Next ==
    \/ Requests
    \/ HandlerSteps
    \/ HandlerRaises
    \/ \E r \in DOMAIN runs : RunSteps(r) \/ RunRaises(r)
    \/ Crash

\* The event loop and every thread go on; the requests, the faults and the crashes need
\* not come.
Fairness ==
    /\ WF_vars(HandlerSteps)
    /\ \A r \in 1 .. MaxRuns : WF_vars(r \in DOMAIN runs /\ RunSteps(r))

Spec == Init /\ [][Next]_vars
FairSpec == Spec /\ Fairness

-----------------------------------------------------------------------------
(***************************************************************************)
(* Properties.                                                             *)
(***************************************************************************)
RunsOf(v) == {r \in DOMAIN runs : Ver(r) = v}

\* The tables, the runs and the handler have their shapes, and name jobs and entries
\* that exist.
TypeOK ==
    /\ record \in [Version -> {"new", "live", "deleted"}]
    /\ files \subseteq Version
    /\ meta \in [Version -> Payload \cup {NULL}]
    /\ jobs \in Seq(Job) /\ Len(jobs) <= MaxJobs
    /\ index \in [Version -> Index]
    /\ queue \in Seq(Entry) /\ Len(queue) <= MaxEntries
    /\ runs \in Seq(Run) /\ Len(runs) <= MaxRuns
    /\ loop \in Loop
    /\ faults \in 0 .. MaxFaults /\ crashes \in 0 .. MaxCrashes
    /\ \A r \in DOMAIN runs : runs[r].job \in DOMAIN jobs /\ runs[r].todo \subseteq DOMAIN queue
    /\ \A v \in Version : index[v].job \in DOMAIN jobs \cup {NULL}

\* A version whose index says ready has the payload of its OCR, however the runs of its
\* jobs are interleaved, as long as none of them failed or was ended.
Failing == Excepting \cup {"failed", "dead", "lost"}

ReadyHasText ==
    \A v \in Version :
        /\ index[v].status = "ready" /\ record[v] = "live"
        /\ \A r \in RunsOf(v) : runs[r].at \notin Failing
        => meta[v] \in Payload /\ meta[v].by = "ocr"

\* When every run of a version has returned, its index agrees with the job it names, if
\* that job was run once: the late failure of a job that was done is indexed too.
IndexAgreesWithJob ==
    \A v \in Version :
        /\ loop = Idle /\ index[v].job # NULL
        /\ \A r \in RunsOf(v) : runs[r].at \in {"end", "failed", "cut"}
        /\ \E r \in RunsOf(v) : \A s \in RunsOf(v) : runs[s].job = index[v].job <=> s = r
        => \/ index[v].status = "ready" /\ jobs[index[v].job].status = "done"
           \/ index[v].status = "failed" /\ jobs[index[v].job].status = "failed"

\* An entry is in processing only in the hands of a run, or left there by a run that a
\* crash, a fault or the delete of its file stopped: two runs that take the same entry, or
\* one that refuses it, do not leave it there.
Holding == {"retry", "scan", "stamped", "refused", "cut", "lost"}

EntryInHand ==
    \A e \in DOMAIN queue :
        queue[e].status = "processing" =>
            \E r \in RunsOf(queue[e].ver) : runs[r].entry = e /\ runs[r].at \in Holding

-----------------------------------------------------------------------------
(***************************************************************************)
(* The inductive invariant.                                                *)
(***************************************************************************)
\* What a run has behind it: the payload is written, the index was set to ready.
Succeeded == Vouching \cup {"end", "cut"}
Wrote == {"written", "done"} \cup Succeeded
Showed == Succeeded \cup {"lost"}
FailedJob == {"failing", "job_failed", "meta_failed", "failed"}

\* The handler works on a version that was uploaded and a job nobody runs yet, and there
\* is room for what it is going to write.
LoopRefs ==
    /\ loop.at # "idle" => loop.ver \in Version /\ record[loop.ver] # "new"
    /\ loop.job # NULL => loop.job \in DOMAIN jobs
    /\ loop.at = "index" => loop.job # NULL /\ \A r \in DOMAIN runs : runs[r].job # loop.job
    /\ loop.at \in {"insert", "index", "search", "enqueue"} => Len(runs) < MaxRuns
    /\ loop.at = "insert" => Len(jobs) < MaxJobs
    /\ loop.at \in {"search", "enqueue"} => loop.link
    /\ loop.link => Len(queue) < MaxEntries

\* A run works on entries of its version, a job on a version that was uploaded.
RunRefs ==
    \A r \in DOMAIN runs :
        /\ \A e \in runs[r].todo : queue[e].ver = Ver(r)
        /\ runs[r].at \in Holding \ {"cut", "lost"} => runs[r].entry \in DOMAIN queue

JobsKnown == \A j \in DOMAIN jobs : record[jobs[j].ver] # "new"

\* A run that wrote the payload, and none that failed: the payload is there.
WrittenStays ==
    \A v \in Version :
        /\ record[v] = "live"
        /\ \E r \in RunsOf(v) : runs[r].at \in Wrote
        /\ \A r \in RunsOf(v) : runs[r].at \notin Failing
        => meta[v] \in Payload /\ meta[v].by = "ocr"

\* Only a run that is past its index makes a version ready.
ReadyShown ==
    \A v \in Version :
        index[v].status = "ready" => \E r \in RunsOf(v) : runs[r].at \in Showed

\* The only run of a job leaves job and index with its outcome.
OnlyRun(r) == \A s \in DOMAIN runs : runs[s].job = runs[r].job => s = r

Agrees(r) ==
    /\ runs[r].at \in Succeeded \cup {"done"} => jobs[runs[r].job].status = "done"
    /\ runs[r].at \in FailedJob => jobs[runs[r].job].status = "failed"
    /\ index[Ver(r)].job = runs[r].job =>
        /\ runs[r].at \in Succeeded => index[Ver(r)].status = "ready"
        /\ runs[r].at = "failed" => index[Ver(r)].status = "failed"

OutcomesAgree == \A r \in DOMAIN runs : OnlyRun(r) => Agrees(r)

\* The invariant of the proofs: it implies the invariants above and every step keeps it.
IInv ==
    /\ TypeOK /\ LoopRefs /\ RunRefs /\ JobsKnown
    /\ WrittenStays /\ ReadyShown /\ OutcomesAgree /\ EntryInHand

-----------------------------------------------------------------------------
(***************************************************************************)
(* What must happen.                                                       *)
(***************************************************************************)
\* A job that was created ends, done or failed, or its file is deleted, however its run is
\* overtaken by others, as long as the process stays up.
Unsettled(j) ==
    /\ j \in DOMAIN jobs /\ jobs[j].status = "processing" /\ jobs[j].ver \in files
    /\ crashes = 0

JobSettles == \A j \in JobId : Unsettled(j) ~> ~Unsettled(j)

\* A vouching that was queued with a job is retried, unless the job fails, the file is
\* deleted or the process ends: the task that runs the job starts only after the entry is
\* in the queue.
Unretried(e) ==
    /\ e \in DOMAIN queue /\ queue[e].status = "pending_ocr" /\ queue[e].ver \in files
    /\ queue[e].job # NULL /\ jobs[queue[e].job].status # "failed" /\ crashes = 0

RetryHappens == \A e \in EntryId : Unretried(e) ~> ~Unretried(e)

\* An entry left in processing is settled by the next run of its version that comes to
\* the queue after the last crash, unless the file is deleted.
Leftover(e) ==
    /\ e \in DOMAIN queue /\ queue[e].status = "processing" /\ crashes = MaxCrashes
    /\ \E r \in RunsOf(queue[e].ver) : runs[r].at = "indexed"

Settled(e) ==
    /\ e \in DOMAIN queue
    /\ queue[e].status \in {"done", "failed"} \/ queue[e].ver \notin files

LeftoverTakenUp == \A e \in EntryId : Leftover(e) ~> Settled(e)
=============================================================================
