--------------------------- MODULE OcrJobs_proofs ---------------------------
(***************************************************************************)
(* Proofs about OcrJobs for any versions and any bounds: IInv is an        *)
(* invariant, and with it every invariant that the runs check.             *)
(*                                                                         *)
(* Steps change few things: most move a run from one position to another   *)
(* and write one table.  First, what an update of a run, a job or an entry *)
(* leaves as it was.  Then, for each part of IInv, under which moves and   *)
(* writes it is kept (the Kept lemmas).  Then one lemma per action, which  *)
(* cites them and argues about the part that the action writes.            *)
(***************************************************************************)
EXTENDS OcrJobs, SequenceTheorems, TLAPS

-----------------------------------------------------------------------------
(***************************************************************************)
(* Types and updates.                                                      *)
(***************************************************************************)

\* The types of the tables, record by record.
LEMMA Types ==
    ASSUME TypeOK
    PROVE  /\ Len(jobs) \in Nat /\ DOMAIN jobs = 1 .. Len(jobs) /\ DOMAIN jobs \subseteq JobId
           /\ \A j \in DOMAIN jobs : jobs[j] \in Job /\ jobs[j].ver \in Version
           /\ Len(queue) \in Nat /\ DOMAIN queue = 1 .. Len(queue)
           /\ DOMAIN queue \subseteq EntryId
           /\ \A e \in DOMAIN queue : queue[e] \in Entry /\ queue[e].ver \in Version
           /\ Len(runs) \in Nat /\ DOMAIN runs = 1 .. Len(runs)
           /\ \A r \in DOMAIN runs :
                /\ runs[r] \in Run /\ runs[r].job \in DOMAIN jobs /\ Ver(r) \in Version
                /\ runs[r].todo \subseteq DOMAIN queue
                /\ runs[r].entry \in EntryId \cup {NULL}
           /\ MaxJobs \in Nat /\ MaxRuns \in Nat /\ MaxEntries \in Nat
<1>1. MaxJobs \in Nat /\ MaxRuns \in Nat /\ MaxEntries \in Nat
    BY BoundsAssumption
<1>2. /\ Len(jobs) \in Nat /\ DOMAIN jobs = 1 .. Len(jobs) /\ jobs \in [1 .. Len(jobs) -> Job]
      /\ Len(queue) \in Nat /\ DOMAIN queue = 1 .. Len(queue) /\ queue \in [1 .. Len(queue) -> Entry]
      /\ Len(runs) \in Nat /\ DOMAIN runs = 1 .. Len(runs) /\ runs \in [1 .. Len(runs) -> Run]
    BY LenProperties DEF TypeOK
<1>3. DOMAIN jobs \subseteq JobId /\ DOMAIN queue \subseteq EntryId
    BY <1>1, <1>2 DEF TypeOK, JobId, EntryId
<1>4. /\ \A j \in DOMAIN jobs : jobs[j] \in Job /\ jobs[j].ver \in Version
      /\ \A e \in DOMAIN queue : queue[e] \in Entry /\ queue[e].ver \in Version
    BY <1>2 DEF Job, Entry
<1>5. \A r \in DOMAIN runs :
        /\ runs[r] \in Run /\ runs[r].job \in DOMAIN jobs /\ runs[r].todo \subseteq DOMAIN queue
        /\ runs[r].entry \in EntryId \cup {NULL}
    BY <1>2 DEF TypeOK, Run
<1> QED
    BY <1>1, <1>2, <1>3, <1>4, <1>5 DEF Ver

\* The runs after one of them was changed but for its job.
LEMMA RunChanged ==
    ASSUME TypeOK, NEW r \in DOMAIN runs, NEW run \in Run,
           run.job = runs[r].job, runs' = [runs EXCEPT ![r] = run]
    PROVE  /\ runs' \in Seq(Run) /\ Len(runs') = Len(runs) /\ DOMAIN runs' = DOMAIN runs
           /\ runs'[r] = run
           /\ \A s \in DOMAIN runs : s # r => runs'[s] = runs[s]
           /\ \A s \in DOMAIN runs : runs'[s].job = runs[s].job
<1>1. runs \in Seq(Run) /\ r \in 1 .. Len(runs) /\ DOMAIN runs = 1 .. Len(runs)
    BY Types DEF TypeOK
<1>2. /\ runs' \in Seq(Run) /\ Len(runs') = Len(runs)
      /\ \A s \in 1 .. Len(runs) : runs'[s] = IF s = r THEN run ELSE runs[s]
    BY <1>1, ExceptSeq
<1>3. DOMAIN runs' = DOMAIN runs
    BY <1>1, <1>2
<1> QED
    BY <1>1, <1>2, <1>3

\* The runs after one of them went on.
LEMMA RunGone ==
    ASSUME TypeOK, NEW r \in DOMAIN runs, NEW from, NEW to \in Active \cup Over,
           Goes(r, from, to)
    PROVE  /\ runs' \in Seq(Run) /\ Len(runs') = Len(runs) /\ DOMAIN runs' = DOMAIN runs
           /\ runs[r].at = from /\ runs'[r].at = to
           /\ runs'[r].todo = runs[r].todo /\ runs'[r].entry = runs[r].entry
           /\ \A s \in DOMAIN runs : s # r => runs'[s] = runs[s]
           /\ \A s \in DOMAIN runs : runs'[s].job = runs[s].job
<1> DEFINE run == [runs[r] EXCEPT !.at = to]
<1>1. runs[r] \in Run
    BY Types
<1>2. /\ run \in Run /\ run.job = runs[r].job /\ run.at = to
      /\ run.todo = runs[r].todo /\ run.entry = runs[r].entry
    BY <1>1 DEF Run
<1>3. runs' = [runs EXCEPT ![r] = run] /\ runs[r].at = from
    BY DEF Goes
<1> HIDE DEF run
<1> QED
    BY <1>2, <1>3, RunChanged

\* The runs after a background task was started.
LEMMA RunStarted ==
    ASSUME TypeOK, LoopRefs, NEW j \in DOMAIN jobs,
           runs' = Append(runs, [job |-> j, at |-> "queued", todo |-> {}, entry |-> NULL])
    PROVE  /\ runs' \in Seq(Run) /\ Len(runs') = Len(runs) + 1
           /\ DOMAIN runs' = DOMAIN runs \cup {Len(runs) + 1} /\ Len(runs) + 1 \notin DOMAIN runs
           /\ \A s \in DOMAIN runs : runs'[s] = runs[s]
           /\ runs'[Len(runs) + 1] = [job |-> j, at |-> "queued", todo |-> {}, entry |-> NULL]
<1> DEFINE run == [job |-> j, at |-> "queued", todo |-> {}, entry |-> NULL]
<1>1. runs \in Seq(Run) /\ Len(runs) \in Nat /\ DOMAIN runs = 1 .. Len(runs) /\ j \in JobId
    BY Types DEF TypeOK
<1>2. run \in Run
    BY <1>1 DEF Run, Active, Outside
<1> HIDE DEF run
<1>3. /\ runs' \in Seq(Run) /\ Len(runs') = Len(runs) + 1
      /\ \A s \in 1 .. Len(runs) : runs'[s] = runs[s]
      /\ runs'[Len(runs) + 1] = run
    BY <1>1, <1>2 DEF run
<1>4. DOMAIN runs' = 1 .. Len(runs) + 1
    BY <1>1, <1>3
<1> QED
    BY <1>1, <1>3, <1>4 DEF run

\* The jobs after a run set the status of its own.
LEMMA JobSet ==
    ASSUME TypeOK, NEW r \in DOMAIN runs,
           NEW status \in {"processing", "done", "failed"}, SetJob(r, status)
    PROVE  /\ jobs' \in Seq(Job) /\ Len(jobs') = Len(jobs) /\ DOMAIN jobs' = DOMAIN jobs
           /\ \A j \in DOMAIN jobs : jobs'[j].ver = jobs[j].ver
           /\ jobs'[runs[r].job].status = status
           /\ \A j \in DOMAIN jobs : j # runs[r].job => jobs'[j] = jobs[j]
<1> DEFINE k == runs[r].job
           job == [jobs[k] EXCEPT !.status = status]
<1>1. jobs \in Seq(Job) /\ k \in 1 .. Len(jobs) /\ DOMAIN jobs = 1 .. Len(jobs) /\ jobs[k] \in Job
    BY Types DEF TypeOK
<1>2. job \in Job /\ job.ver = jobs[k].ver /\ job.status = status
    BY <1>1 DEF Job
<1>3. jobs' = [jobs EXCEPT ![k] = job]
    BY DEF SetJob
<1> HIDE DEF k, job
<1>4. /\ jobs' \in Seq(Job) /\ Len(jobs') = Len(jobs)
      /\ \A j \in 1 .. Len(jobs) : jobs'[j] = IF j = k THEN job ELSE jobs[j]
    BY <1>1, <1>2, <1>3, ExceptSeq
<1>5. DOMAIN jobs' = DOMAIN jobs
    BY <1>1, <1>4
<1> QED
    BY <1>1, <1>2, <1>4, <1>5 DEF k

\* The queue after the status of an entry was set.
LEMMA EntrySet ==
    ASSUME TypeOK, NEW e \in DOMAIN queue,
           NEW status \in {"pending_ocr", "processing", "done", "failed"}, SetEntry(e, status)
    PROVE  /\ queue' \in Seq(Entry) /\ Len(queue') = Len(queue) /\ DOMAIN queue' = DOMAIN queue
           /\ queue'[e].status = status
           /\ \A f \in DOMAIN queue : queue'[f].ver = queue[f].ver
           /\ \A f \in DOMAIN queue : f # e => queue'[f] = queue[f]
<1> DEFINE entry == [queue[e] EXCEPT !.status = status]
<1>1. queue \in Seq(Entry) /\ e \in 1 .. Len(queue) /\ DOMAIN queue = 1 .. Len(queue)
      /\ queue[e] \in Entry
    BY Types DEF TypeOK
<1>2. entry \in Entry /\ entry.ver = queue[e].ver /\ entry.status = status
    BY <1>1 DEF Entry
<1>3. queue' = [queue EXCEPT ![e] = entry]
    BY DEF SetEntry
<1> HIDE DEF entry
<1>4. /\ queue' \in Seq(Entry) /\ Len(queue') = Len(queue)
      /\ \A f \in 1 .. Len(queue) : queue'[f] = IF f = e THEN entry ELSE queue[f]
    BY <1>1, <1>2, <1>3, ExceptSeq
<1>5. DOMAIN queue' = DOMAIN queue
    BY <1>1, <1>4
<1> QED
    BY <1>1, <1>2, <1>4, <1>5

-----------------------------------------------------------------------------
(***************************************************************************)
(* Which moves and writes keep the parts of IInv.                          *)
(***************************************************************************)

\* What every step does: jobs and runs are only added, a new run has not begun, and no
\* run changes its job or job its version.
Frame ==
    /\ DOMAIN jobs \subseteq DOMAIN jobs' /\ \A j \in DOMAIN jobs : jobs'[j].ver = jobs[j].ver
    /\ DOMAIN runs \subseteq DOMAIN runs' /\ \A r \in DOMAIN runs : runs'[r].job = runs[r].job
    /\ \A r \in DOMAIN runs' \ DOMAIN runs : runs'[r].at = "queued"

Enters(s, S) == runs[s].at \notin S /\ runs'[s].at \in S
Leaves(s, S) == runs[s].at \in S /\ runs'[s].at \notin S

\* A run comes to no position that Agrees says something of.
NoOutcome(s) ==
    \A S \in {Succeeded \cup {"done"}, Succeeded, FailedJob, {"failed"}} : ~ Enters(s, S)

\* What a run with one job of its own leaves as it is.
Steady(s) ==
    /\ NoOutcome(s)
    /\ jobs'[runs[s].job].status = jobs[runs[s].job].status
    /\ index'[Ver(s)].job = runs[s].job => index'[Ver(s)] = index[Ver(s)]

LEMMA FrameFacts ==
    ASSUME TypeOK, Frame
    PROVE  /\ \A r \in DOMAIN runs : r \in DOMAIN runs' /\ Ver(r)' = Ver(r)
           /\ \A v : RunsOf(v) \subseteq RunsOf(v)'
           /\ \A v : \A r \in RunsOf(v)' : r \in RunsOf(v) \/ runs'[r].at = "queued"
<1>1. \A r \in DOMAIN runs : r \in DOMAIN runs' /\ Ver(r)' = Ver(r)
    BY Types DEF Frame, Ver
<1>2. \A v : RunsOf(v) \subseteq RunsOf(v)'
    BY <1>1 DEF RunsOf
<1>3. \A v : \A r \in RunsOf(v)' : r \in RunsOf(v) \/ runs'[r].at = "queued"
    BY <1>1 DEF RunsOf, Frame
<1> QED
    BY <1>1, <1>2, <1>3

LEMMA WrittenKept ==
    ASSUME TypeOK, WrittenStays, Frame, meta' = meta,
           \A v \in Version : record'[v] = "live" => record[v] = "live",
           \A s \in DOMAIN runs : ~ Enters(s, Wrote) /\ ~ Leaves(s, Failing)
    PROVE  WrittenStays'
<1> SUFFICES ASSUME NEW v \in Version, record'[v] = "live",
                    NEW r \in RunsOf(v)', runs'[r].at \in Wrote,
                    \A s \in RunsOf(v)' : runs'[s].at \notin Failing
             PROVE  meta'[v] \in Payload /\ meta'[v].by = "ocr"
    BY DEF WrittenStays
<1>1. r \in RunsOf(v)
    BY FrameFacts DEF Wrote, Succeeded, Vouching
<1>2. runs[r].at \in Wrote
    BY <1>1 DEF Enters, RunsOf
<1>3. \A s \in RunsOf(v) : runs[s].at \notin Failing
    BY FrameFacts DEF Leaves, RunsOf
<1> QED
    BY <1>1, <1>2, <1>3 DEF WrittenStays

LEMMA ShownKept ==
    ASSUME TypeOK, ReadyShown, Frame,
           \A v \in Version : index'[v].status = "ready" => index[v].status = "ready",
           \A s \in DOMAIN runs : ~ Leaves(s, Showed)
    PROVE  ReadyShown'
<1> SUFFICES ASSUME NEW v \in Version, index'[v].status = "ready"
             PROVE  \E r \in RunsOf(v)' : runs'[r].at \in Showed
    BY DEF ReadyShown
<1>1. PICK r \in RunsOf(v) : runs[r].at \in Showed
    BY DEF ReadyShown
<1>2. r \in RunsOf(v)' /\ runs'[r].at \in Showed
    BY <1>1, FrameFacts DEF Leaves, RunsOf
<1> QED
    BY <1>2

LEMMA HandKept ==
    ASSUME TypeOK, EntryInHand, Frame,
           \A e \in DOMAIN queue' : queue'[e].status = "processing" =>
                e \in DOMAIN queue /\ queue[e].status = "processing" /\ queue'[e].ver = queue[e].ver,
           \A s \in DOMAIN runs : ~ Leaves(s, Holding),
           \A s \in DOMAIN runs : runs[s].at \in Holding => runs'[s].entry = runs[s].entry
    PROVE  EntryInHand'
<1> SUFFICES ASSUME NEW e \in DOMAIN queue', queue'[e].status = "processing"
             PROVE  \E r \in DOMAIN runs' :
                        Ver(r)' = queue'[e].ver /\ runs'[r].entry = e /\ runs'[r].at \in Holding
    BY DEF EntryInHand, RunsOf
<1>1. e \in DOMAIN queue /\ queue[e].status = "processing" /\ queue'[e].ver = queue[e].ver
    OBVIOUS
<1>2. PICK r \in DOMAIN runs :
        Ver(r) = queue[e].ver /\ runs[r].entry = e /\ runs[r].at \in Holding
    BY <1>1 DEF EntryInHand, RunsOf
<1>3. r \in DOMAIN runs' /\ Ver(r)' = queue'[e].ver
    BY <1>1, <1>2, FrameFacts
<1>4. runs'[r].entry = e /\ runs'[r].at \in Holding
    BY <1>2 DEF Leaves
<1> QED
    BY <1>3, <1>4

LEMMA AgreesStays ==
    ASSUME TypeOK, OutcomesAgree, Frame, NEW s \in DOMAIN runs, OnlyRun(s)', Steady(s)
    PROVE  Agrees(s)'
<1>1. /\ Ver(s)' = Ver(s) /\ runs'[s].job = runs[s].job
      /\ \A r \in DOMAIN runs : r \in DOMAIN runs' /\ runs'[r].job = runs[r].job
    BY FrameFacts DEF Frame
<1>2. OnlyRun(s)
    BY <1>1 DEF OnlyRun
<1>3. Agrees(s)
    BY <1>2 DEF OutcomesAgree
<1>4. /\ runs'[s].at \in Succeeded \cup {"done"} => runs[s].at \in Succeeded \cup {"done"}
      /\ runs'[s].at \in Succeeded => runs[s].at \in Succeeded
      /\ runs'[s].at \in FailedJob => runs[s].at \in FailedJob
      /\ runs'[s].at = "failed" => runs[s].at = "failed"
    BY DEF Steady, NoOutcome, Enters
<1>5. /\ jobs'[runs[s].job].status = jobs[runs[s].job].status
      /\ index'[Ver(s)].job = runs[s].job => index'[Ver(s)] = index[Ver(s)]
    BY DEF Steady
<1> QED
    BY <1>1, <1>3, <1>4, <1>5 DEF Agrees

\* Every run stays as it is but one, which the caller argues for.
LEMMA AgreeBut ==
    ASSUME TypeOK, OutcomesAgree, Frame, NEW x,
           \A s \in DOMAIN runs : s # x /\ OnlyRun(s)' => Steady(s),
           x \in DOMAIN runs /\ OnlyRun(x)' => Agrees(x)'
    PROVE  OutcomesAgree'
<1> SUFFICES ASSUME NEW s \in DOMAIN runs', OnlyRun(s)'
             PROVE  Agrees(s)'
    BY DEF OutcomesAgree
<1>1. CASE s \in DOMAIN runs /\ s # x
    BY <1>1, AgreesStays
<1>2. CASE s \notin DOMAIN runs
    <2>1. runs'[s].at = "queued"
        BY <1>2 DEF Frame
    <2> QED
        BY <2>1 DEF Agrees, Succeeded, FailedJob, Vouching
<1>3. CASE s \in DOMAIN runs /\ s = x
    BY <1>3
<1> QED
    BY <1>1, <1>2, <1>3

LEMMA AgreeKept ==
    ASSUME TypeOK, OutcomesAgree, Frame, \A s \in DOMAIN runs : Steady(s)
    PROVE  OutcomesAgree'
<1>1. 0 \notin DOMAIN runs
    BY Types
<1> QED
    BY <1>1, AgreeBut

-----------------------------------------------------------------------------
(***************************************************************************)
(* Steps that move runs and write nothing.                                 *)
(***************************************************************************)
Grasp == Holding \ {"cut", "lost"}

\* A position a run may go to from another without writing anything.
Onward(s) ==
    /\ NoOutcome(s) /\ ~ Enters(s, Wrote) /\ ~ Enters(s, Grasp)
    /\ ~ Leaves(s, Showed) /\ ~ Leaves(s, Failing) /\ ~ Leaves(s, Holding)

\* Runs that only move: their jobs, entries and versions stay.
OnlyMoves ==
    /\ runs' \in Seq(Run) /\ Len(runs') = Len(runs) /\ DOMAIN runs' = DOMAIN runs
    /\ \A s \in DOMAIN runs :
        /\ runs'[s].job = runs[s].job /\ runs'[s].entry = runs[s].entry
        /\ \A e \in runs'[s].todo : e \in DOMAIN queue /\ queue[e].ver = Ver(s)

LEMMA IdleIsLoop == Idle \in Loop
BY DEF Idle, Loop

LEMMA MovesKeep ==
    ASSUME IInv, OnlyMoves, UNCHANGED data, loop' \in {loop, Idle},
           faults' \in 0 .. MaxFaults, crashes' \in 0 .. MaxCrashes,
           \A s \in DOMAIN runs : Onward(s)
    PROVE  IInv'
<1> USE DEF IInv
<1>a. /\ record' = record /\ files' = files /\ meta' = meta
      /\ jobs' = jobs /\ index' = index /\ queue' = queue
    BY DEF data
<1>1. TypeOK'
    <2>1. /\ runs' \in Seq(Run) /\ Len(runs') <= MaxRuns
          /\ \A r \in DOMAIN runs' : runs'[r].job \in DOMAIN jobs /\ runs'[r].todo \subseteq DOMAIN queue
        BY Types DEF OnlyMoves, TypeOK
    <2>2. loop' \in Loop
        BY IdleIsLoop DEF TypeOK
    <2> QED
        BY <1>a, <2>1, <2>2 DEF TypeOK
<1>2. Frame
    BY <1>a DEF Frame, OnlyMoves
<1>3. LoopRefs'
    <2>1. CASE loop' = Idle
        BY <2>1 DEF LoopRefs, Idle
    <2>2. CASE loop' = loop
        <3>1. /\ DOMAIN runs' = DOMAIN runs /\ Len(runs') = Len(runs)
              /\ \A s \in DOMAIN runs : runs'[s].job = runs[s].job
            BY DEF OnlyMoves
        <3>2. LoopRefs
            OBVIOUS
        <3> QED
            BY <1>a, <2>2, <3>1, <3>2 DEF LoopRefs
    <2> QED
        BY <2>1, <2>2
<1>4. RunRefs'
    <2> SUFFICES ASSUME NEW r \in DOMAIN runs
                 PROVE  /\ \A e \in runs'[r].todo : queue[e].ver = Ver(r)
                        /\ runs'[r].at \in Grasp => runs'[r].entry \in DOMAIN queue
        BY <1>a, <1>2, FrameFacts DEF RunRefs, OnlyMoves, Grasp
    <2>1. runs'[r].at \in Grasp => runs[r].at \in Grasp
        BY DEF Onward, Enters
    <2>2. runs'[r].entry = runs[r].entry /\ \A e \in runs'[r].todo : queue[e].ver = Ver(r)
        BY DEF OnlyMoves
    <2>3. runs[r].at \in Grasp => runs[r].entry \in DOMAIN queue
        BY DEF RunRefs, Grasp
    <2> QED
        BY <2>1, <2>2, <2>3
<1>5. JobsKnown'
    BY <1>a DEF JobsKnown
<1>6. WrittenStays'
    BY <1>a, <1>2, WrittenKept DEF Onward
<1>7. ReadyShown'
    BY <1>a, <1>2, ShownKept DEF Onward
<1>8. OutcomesAgree'
    <2>1. \A s \in DOMAIN runs : Steady(s)
        BY <1>a DEF Onward, Steady
    <2> QED
        BY <1>2, <2>1, AgreeKept
<1>9. EntryInHand'
    BY <1>a, <1>2, HandKept DEF Onward, OnlyMoves
<1> QED
    BY <1>1, <1>3, <1>4, <1>5, <1>6, <1>7, <1>8, <1>9

\* The same for one run that goes on, when the pair of positions allows it.
Allowed(from, to) ==
    /\ \A S \in {Succeeded \cup {"done"}, Succeeded, FailedJob, {"failed"}, Wrote, Grasp} :
        to \in S => from \in S
    /\ \A S \in {Showed, Failing, Holding} : from \in S => to \in S

LEMMA GoesKeeps ==
    ASSUME IInv, NEW r \in DOMAIN runs, NEW from, NEW to \in Active \cup Over,
           Goes(r, from, to), Allowed(from, to), UNCHANGED data, UNCHANGED loop,
           faults' \in 0 .. MaxFaults, UNCHANGED crashes
    PROVE  IInv'
<1>1. TypeOK /\ RunRefs
    BY DEF IInv
<1>2. /\ runs' \in Seq(Run) /\ Len(runs') = Len(runs) /\ DOMAIN runs' = DOMAIN runs
      /\ runs[r].at = from /\ runs'[r].at = to
      /\ runs'[r].todo = runs[r].todo /\ runs'[r].entry = runs[r].entry
      /\ \A s \in DOMAIN runs : s # r => runs'[s] = runs[s]
      /\ \A s \in DOMAIN runs : runs'[s].job = runs[s].job
    BY <1>1, RunGone
<1>3. OnlyMoves
    BY <1>1, <1>2, Types DEF OnlyMoves, RunRefs
<1>4. ASSUME NEW s \in DOMAIN runs PROVE Onward(s)
    <2>1. CASE s = r
        BY <1>2, <2>1 DEF Allowed, Onward, NoOutcome, Enters, Leaves
    <2>2. CASE s # r
        BY <1>2, <2>2 DEF Onward, NoOutcome, Enters, Leaves
    <2> QED
        BY <2>1, <2>2
<1>5. crashes' \in 0 .. MaxCrashes
    BY <1>1 DEF TypeOK
<1> QED
    BY <1>3, <1>4, <1>5, MovesKeep

LEMMA ReadFileKeeps ==
    ASSUME IInv, NEW r \in DOMAIN runs, ReadFile(r)
    PROVE  IInv'
<1> DEFINE to == IF Ver(r) \in files THEN "work" ELSE "dead"
<1>1. Goes(r, "exists", to) /\ UNCHANGED <<data, loop, faults, crashes>>
    BY DEF ReadFile
<1>2. to \in {"work", "dead"}
    OBVIOUS
<1> HIDE DEF to
<1>3. to \in Active \cup Over /\ Allowed("exists", to)
    BY <1>2 DEF Allowed, Active, Over, Outside, Trying, Excepting, Vouching, Succeeded,
                FailedJob, Wrote, Grasp, Showed, Failing, Holding
<1>4. faults' \in 0 .. MaxFaults
    BY <1>1 DEF IInv, TypeOK
<1> QED
    BY <1>1, <1>3, <1>4, GoesKeeps

LEMMA OcrFailsKeeps ==
    ASSUME IInv, NEW r \in DOMAIN runs, OcrFails(r)
    PROVE  IInv'
<1>1. Goes(r, "work", "raised") /\ UNCHANGED <<data, loop, faults, crashes>>
    BY DEF OcrFails
<1>2. "raised" \in Active \cup Over /\ Allowed("work", "raised")
    BY DEF Allowed, Active, Over, Outside, Trying, Excepting, Vouching, Succeeded,
                FailedJob, Wrote, Grasp, Showed, Failing, Holding
<1>3. faults' \in 0 .. MaxFaults
    BY <1>1 DEF IInv, TypeOK
<1> QED
    BY <1>1, <1>2, <1>3, GoesKeeps

LEMMA FindScanKeeps ==
    ASSUME IInv, NEW r \in DOMAIN runs, FindScan(r)
    PROVE  IInv'
<1>1. PICK to \in {"scan", "refused"} :
        Goes(r, "retry", to) /\ UNCHANGED <<data, loop, faults, crashes>>
    BY DEF FindScan
<1>2. to \in Active \cup Over /\ Allowed("retry", to)
    BY DEF Allowed, Active, Over, Outside, Trying, Excepting, Vouching, Succeeded,
                FailedJob, Wrote, Grasp, Showed, Failing, Holding
<1>3. faults' \in 0 .. MaxFaults
    BY <1>1 DEF IInv, TypeOK
<1> QED
    BY <1>1, <1>2, <1>3, GoesKeeps

LEMMA SearchAgainKeeps ==
    ASSUME IInv, NEW r \in DOMAIN runs, SearchAgain(r)
    PROVE  IInv'
<1>1. PICK to \in {"cut", "stamped", "refused"} :
        Goes(r, "scan", to) /\ UNCHANGED <<data, loop, faults, crashes>>
    BY DEF SearchAgain
<1>2. to \in Active \cup Over /\ Allowed("scan", to)
    BY DEF Allowed, Active, Over, Outside, Trying, Excepting, Vouching, Succeeded,
                FailedJob, Wrote, Grasp, Showed, Failing, Holding
<1>3. faults' \in 0 .. MaxFaults
    BY <1>1 DEF IInv, TypeOK
<1> QED
    BY <1>1, <1>2, <1>3, GoesKeeps

LEMMA EndRunKeeps ==
    ASSUME IInv, NEW r \in DOMAIN runs, EndRun(r)
    PROVE  IInv'
<1>1. Goes(r, "vouching", "end") /\ UNCHANGED <<data, loop, faults, crashes>>
    BY DEF EndRun
<1>2. "end" \in Active \cup Over /\ Allowed("vouching", "end")
    BY DEF Allowed, Active, Over, Outside, Trying, Excepting, Vouching, Succeeded,
                FailedJob, Wrote, Grasp, Showed, Failing, Holding
<1>3. faults' \in 0 .. MaxFaults
    BY <1>1 DEF IInv, TypeOK
<1> QED
    BY <1>1, <1>2, <1>3, GoesKeeps

LEMMA RunRaisesKeeps ==
    ASSUME IInv, NEW r \in DOMAIN runs, RunRaises(r)
    PROVE  IInv'
<1>1. PICK from \in Active, to \in {"dead", "raised", "cut"} :
        /\ Goes(r, from, to)
        /\ \/ from \in Outside \cup Excepting /\ to = "dead"
           \/ from \in Trying /\ to = "raised"
           \/ from \in Vouching /\ to = "cut"
    BY DEF RunRaises, Active
<1>2. to \in Active \cup Over /\ Allowed(from, to)
    BY <1>1 DEF Allowed, Active, Over, Outside, Trying, Excepting, Vouching, Succeeded,
                FailedJob, Wrote, Grasp, Showed, Failing, Holding
<1>3. faults' \in 0 .. MaxFaults
    BY BoundsAssumption DEF IInv, TypeOK, RunRaises
<1>4. UNCHANGED <<data, loop, crashes>>
    BY DEF RunRaises
<1> QED
    BY <1>1, <1>2, <1>3, <1>4, GoesKeeps

LEMMA ListQueueKeeps ==
    ASSUME IInv, NEW r \in DOMAIN runs, ListQueue(r)
    PROVE  IInv'
<1> DEFINE run == [runs[r] EXCEPT !.at = "vouching", !.todo = Waiting(Ver(r))]
<1>1. TypeOK /\ RunRefs
    BY DEF IInv
<1>2. runs[r] \in Run /\ runs[r].at = "indexed" /\ DOMAIN queue \subseteq EntryId
    BY <1>1, Types DEF ListQueue
<1>3. /\ Waiting(Ver(r)) \subseteq DOMAIN queue
      /\ \A e \in Waiting(Ver(r)) : queue[e].ver = Ver(r)
    BY DEF Waiting
<1>4. /\ run \in Run /\ run.job = runs[r].job /\ run.entry = runs[r].entry
      /\ run.at = "vouching" /\ run.todo = Waiting(Ver(r))
    BY <1>2, <1>3 DEF Run, Active, Vouching
<1>5. runs' = [runs EXCEPT ![r] = run]
    BY DEF ListQueue
<1> HIDE DEF run
<1>6. /\ runs' \in Seq(Run) /\ Len(runs') = Len(runs) /\ DOMAIN runs' = DOMAIN runs
      /\ runs'[r] = run
      /\ \A s \in DOMAIN runs : s # r => runs'[s] = runs[s]
      /\ \A s \in DOMAIN runs : runs'[s].job = runs[s].job
    BY <1>1, <1>4, <1>5, RunChanged
<1>7. OnlyMoves
    BY <1>1, <1>3, <1>4, <1>6, Types DEF OnlyMoves, RunRefs
<1>8. ASSUME NEW s \in DOMAIN runs PROVE Onward(s)
    <2>1. CASE s = r
        BY <1>2, <1>4, <1>6, <2>1 DEF Onward, NoOutcome, Enters, Leaves, Succeeded, Vouching, Trying,
            FailedJob, Wrote, Grasp, Showed, Failing, Excepting, Holding
    <2>2. CASE s # r
        BY <1>6, <2>2 DEF Onward, NoOutcome, Enters, Leaves
    <2> QED
        BY <2>1, <2>2
<1>9. /\ UNCHANGED data /\ loop' \in {loop, Idle}
      /\ faults' \in 0 .. MaxFaults /\ crashes' \in 0 .. MaxCrashes
    BY <1>1 DEF ListQueue, TypeOK
<1> QED
    BY <1>7, <1>8, <1>9, MovesKeep

LEMMA CrashKeeps ==
    ASSUME IInv, Crash
    PROVE  IInv'
<1>1. TypeOK /\ RunRefs
    BY DEF IInv
<1>2. runs \in [1 .. Len(runs) -> Run] /\ Len(runs) \in Nat /\ DOMAIN runs = 1 .. Len(runs)
    BY <1>1, LenProperties DEF TypeOK
<1>3. \A s \in DOMAIN runs :
        /\ runs'[s] = IF runs[s].at \in Over THEN runs[s] ELSE [runs[s] EXCEPT !.at = "lost"]
        /\ runs'[s] \in Run /\ runs'[s].job = runs[s].job
        /\ runs'[s].entry = runs[s].entry /\ runs'[s].todo = runs[s].todo
        /\ runs'[s].at = IF runs[s].at \in Over THEN runs[s].at ELSE "lost"
    BY <1>2 DEF Crash, Run, Over
<1>4. runs' \in [1 .. Len(runs) -> Run]
    BY <1>2, <1>3 DEF Crash
<1>5. runs' \in Seq(Run) /\ Len(runs') = Len(runs) /\ DOMAIN runs' = DOMAIN runs
    BY <1>2, <1>4, SeqDef
<1>6. OnlyMoves
    BY <1>1, <1>3, <1>5, Types DEF OnlyMoves, RunRefs
<1>7. ASSUME NEW s \in DOMAIN runs PROVE Onward(s)
    <2>1. runs'[s].at = IF runs[s].at \in Over THEN runs[s].at ELSE "lost"
        BY <1>3
    <2>2. CASE runs[s].at \in Over
        BY <2>1, <2>2 DEF Onward, NoOutcome, Enters, Leaves
    <2>3. CASE runs[s].at \notin Over
        BY <2>1, <2>3 DEF Onward, NoOutcome, Enters, Leaves, Over, Succeeded, Vouching,
            Trying, FailedJob, Wrote, Grasp, Showed, Failing, Excepting, Holding
    <2> QED
        BY <2>2, <2>3
<1>8. /\ UNCHANGED data /\ loop' \in {loop, Idle}
      /\ faults' \in 0 .. MaxFaults /\ crashes' \in 0 .. MaxCrashes
    BY <1>1, BoundsAssumption DEF Crash, TypeOK
<1> QED
    BY <1>6, <1>7, <1>8, MovesKeep

-----------------------------------------------------------------------------
(***************************************************************************)
(* Steps of a run that write a table.                                      *)
(***************************************************************************)

\* A step of the runs that keeps their references, those of the handler and the types.
Tidy ==
    /\ runs' \in Seq(Run) /\ Len(runs') = Len(runs) /\ DOMAIN runs' = DOMAIN runs
    /\ \A s \in DOMAIN runs :
        /\ runs'[s].job = runs[s].job /\ runs'[s].todo \subseteq runs[s].todo
        /\ runs'[s].at \in Grasp => runs'[s].entry \in DOMAIN queue
    /\ meta' \in [Version -> Payload \cup {NULL}]
    /\ jobs' \in Seq(Job) /\ Len(jobs') = Len(jobs) /\ DOMAIN jobs' = DOMAIN jobs
    /\ \A j \in DOMAIN jobs : jobs'[j].ver = jobs[j].ver
    /\ index' \in [Version -> Index]
    /\ \A v \in Version : index'[v].job \in DOMAIN jobs \cup {NULL}
    /\ queue' \in Seq(Entry) /\ Len(queue') = Len(queue) /\ DOMAIN queue' = DOMAIN queue
    /\ \A e \in DOMAIN queue : queue'[e].ver = queue[e].ver

LEMMA TidyKeeps ==
    ASSUME IInv, Tidy, UNCHANGED <<record, files, loop, faults, crashes>>
    PROVE  TypeOK' /\ LoopRefs' /\ RunRefs' /\ JobsKnown' /\ Frame
<1>a. /\ record' = record /\ files' = files /\ loop' = loop
      /\ faults' = faults /\ crashes' = crashes
    OBVIOUS
<1>b. TypeOK /\ LoopRefs /\ RunRefs /\ JobsKnown
    BY DEF IInv
<1>1. TypeOK'
    <2>1. \A r \in DOMAIN runs' :
            runs'[r].job \in DOMAIN jobs' /\ runs'[r].todo \subseteq DOMAIN queue'
        BY <1>b, Types DEF Tidy
    <2>2. Len(jobs') <= MaxJobs /\ Len(queue') <= MaxEntries /\ Len(runs') <= MaxRuns
        BY <1>b DEF Tidy, TypeOK
    <2> QED
        BY <1>a, <1>b, <2>1, <2>2 DEF Tidy, TypeOK
<1>2. Frame
    BY DEF Frame, Tidy
<1>3. LoopRefs'
    BY <1>a, <1>b DEF LoopRefs, Tidy
<1>4. RunRefs'
    <2> SUFFICES ASSUME NEW r \in DOMAIN runs
                 PROVE  /\ \A e \in runs'[r].todo : queue'[e].ver = Ver(r)
                        /\ runs'[r].at \in Grasp => runs'[r].entry \in DOMAIN queue
        BY <1>b, <1>2, FrameFacts DEF RunRefs, Tidy, Grasp
    <2>1. \A e \in runs'[r].todo : queue'[e].ver = Ver(r)
        BY <1>b, Types DEF Tidy, RunRefs
    <2> QED
        BY <2>1 DEF Tidy
<1>5. JobsKnown'
    BY <1>a, <1>b DEF JobsKnown, Tidy
<1> QED
    BY <1>1, <1>2, <1>3, <1>4, <1>5

\* The tables that a step does not write are tidy.
LEMMA RunTidy ==
    ASSUME IInv, NEW r \in DOMAIN runs, NEW from, NEW to \in Active \cup Over,
           Goes(r, from, to), to \notin Grasp
    PROVE  /\ runs' \in Seq(Run) /\ Len(runs') = Len(runs) /\ DOMAIN runs' = DOMAIN runs
           /\ \A s \in DOMAIN runs :
                /\ runs'[s].job = runs[s].job /\ runs'[s].todo \subseteq runs[s].todo
                /\ runs'[s].at \in Grasp => runs'[s].entry \in DOMAIN queue
<1>1. TypeOK /\ RunRefs
    BY DEF IInv
<1>2. \A s \in DOMAIN runs : runs[s].at \in Grasp => runs[s].entry \in DOMAIN queue
    BY <1>1 DEF RunRefs, Grasp
<1> QED
    BY <1>1, <1>2, RunGone

LEMMA TablesTidy ==
    ASSUME IInv
    PROVE  /\ meta \in [Version -> Payload \cup {NULL}] /\ jobs \in Seq(Job)
           /\ index \in [Version -> Index]
           /\ \A v \in Version : index[v].job \in DOMAIN jobs \cup {NULL}
           /\ queue \in Seq(Entry)
BY DEF IInv, TypeOK

\* A run whose job is written: the outcome of the job is that of the run, and no run with
\* another job is concerned.
LEMMA JobKeeps ==
    ASSUME IInv, NEW r \in DOMAIN runs, NEW from \in Active, NEW to \in Active \cup Over,
           NEW status \in {"done", "failed"},
           Goes(r, from, to), SetJob(r, status),
           UNCHANGED <<record, files, meta, index, queue, loop, faults, crashes>>,
           \/ from \in {"queued", "found"} /\ to = "failing" /\ status = "failed"
           \/ from = "raised" /\ to = "job_failed" /\ status = "failed"
           \/ from = "written" /\ to = "done" /\ status = "done"
    PROVE  IInv'
<1>a. /\ record' = record /\ files' = files /\ meta' = meta
      /\ index' = index /\ queue' = queue /\ loop' = loop
    OBVIOUS
<1>b. /\ TypeOK /\ WrittenStays /\ ReadyShown /\ OutcomesAgree /\ EntryInHand
    BY DEF IInv
<1>1. /\ runs[r].at = from /\ runs'[r].at = to /\ runs'[r].entry = runs[r].entry
      /\ \A s \in DOMAIN runs : s # r => runs'[s] = runs[s]
      /\ \A s \in DOMAIN runs : runs'[s].job = runs[s].job
    BY <1>b, RunGone
<1>2. /\ jobs' \in Seq(Job) /\ Len(jobs') = Len(jobs) /\ DOMAIN jobs' = DOMAIN jobs
      /\ \A j \in DOMAIN jobs : jobs'[j].ver = jobs[j].ver
      /\ jobs'[runs[r].job].status = status
      /\ \A j \in DOMAIN jobs : j # runs[r].job => jobs'[j] = jobs[j]
    BY <1>b, JobSet
<1>3. to \notin Grasp
    BY DEF Grasp, Holding
<1>4. Tidy
    BY <1>a, <1>2, <1>3, RunTidy, TablesTidy DEF Tidy
<1>5. TypeOK' /\ LoopRefs' /\ RunRefs' /\ JobsKnown' /\ Frame
    BY <1>4, TidyKeeps
<1>6. /\ ~ Enters(r, Wrote) /\ ~ Leaves(r, Failing) /\ ~ Leaves(r, Showed)
      /\ ~ Leaves(r, Holding) /\ runs[r].at \notin Holding
    BY <1>1 DEF Enters, Leaves, Wrote, Failing, Excepting, Showed, Succeeded, Vouching, Holding
<1>7. \A s \in DOMAIN runs : /\ ~ Enters(s, Wrote) /\ ~ Leaves(s, Failing)
                             /\ ~ Leaves(s, Showed) /\ ~ Leaves(s, Holding)
                             /\ runs[s].at \in Holding => runs'[s].entry = runs[s].entry
    BY <1>1, <1>6 DEF Enters, Leaves
<1>8. WrittenStays'
    BY <1>a, <1>b, <1>5, <1>7, WrittenKept
<1>9. ReadyShown'
    BY <1>a, <1>b, <1>5, <1>7, ShownKept
<1>10. EntryInHand'
    BY <1>a, <1>b, <1>5, <1>7, HandKept
<1>11. OutcomesAgree'
    <2>1. ASSUME NEW s \in DOMAIN runs, s # r, OnlyRun(s)' PROVE Steady(s)
        <3>1. runs[s].job # runs[r].job /\ runs[s].job \in DOMAIN jobs
            BY <1>1, <1>5, <1>b, <2>1, Types DEF OnlyRun, Frame
        <3>2. NoOutcome(s)
            BY <1>1, <2>1 DEF NoOutcome, Enters
        <3> QED
            BY <1>a, <1>2, <3>1, <3>2 DEF Steady
    <2>2. Agrees(r)'
        <3>1. /\ to \in Succeeded \cup {"done"} => status = "done"
              /\ to \in FailedJob => status = "failed"
              /\ to \notin Succeeded /\ to # "failed"
            BY DEF Succeeded, Vouching, FailedJob
        <3> QED
            BY <1>1, <1>2, <3>1 DEF Agrees
    <2> QED
        BY <1>b, <1>5, <2>1, <2>2, AgreeBut
<1> QED
    BY <1>5, <1>8, <1>9, <1>10, <1>11 DEF IInv

LEMMA FindVersionKeeps ==
    ASSUME IInv, NEW r \in DOMAIN runs, FindVersion(r)
    PROVE  IInv'
<1>1. CASE Goes(r, "queued", "found") /\ UNCHANGED jobs
    <2>1. UNCHANGED <<data, loop, faults, crashes>>
        BY <1>1 DEF FindVersion, data
    <2>2. "found" \in Active \cup Over /\ Allowed("queued", "found")
        BY DEF Allowed, Active, Over, Outside, Trying, Excepting, Vouching, Succeeded,
                    FailedJob, Wrote, Grasp, Showed, Failing, Holding
    <2>3. faults' \in 0 .. MaxFaults
        BY <2>1 DEF IInv, TypeOK
    <2> QED
        BY <1>1, <2>1, <2>2, <2>3, GoesKeeps
<1>2. CASE Goes(r, "queued", "failing") /\ SetJob(r, "failed")
    <2>1. UNCHANGED <<record, files, meta, index, queue, loop, faults, crashes>>
        BY DEF FindVersion
    <2>2. "queued" \in Active /\ "failing" \in Active \cup Over
        BY DEF Active, Outside
    <2> QED
        BY <1>2, <2>1, <2>2, JobKeeps
<1> QED
    BY <1>1, <1>2 DEF FindVersion

LEMMA FindFileKeeps ==
    ASSUME IInv, NEW r \in DOMAIN runs, FindFile(r)
    PROVE  IInv'
<1>1. CASE Goes(r, "found", "exists") /\ UNCHANGED jobs
    <2>1. UNCHANGED <<data, loop, faults, crashes>>
        BY <1>1 DEF FindFile, data
    <2>2. "exists" \in Active \cup Over /\ Allowed("found", "exists")
        BY DEF Allowed, Active, Over, Outside, Trying, Excepting, Vouching, Succeeded,
                    FailedJob, Wrote, Grasp, Showed, Failing, Holding
    <2>3. faults' \in 0 .. MaxFaults
        BY <2>1 DEF IInv, TypeOK
    <2> QED
        BY <1>1, <2>1, <2>2, <2>3, GoesKeeps
<1>2. CASE Goes(r, "found", "failing") /\ SetJob(r, "failed")
    <2>1. UNCHANGED <<record, files, meta, index, queue, loop, faults, crashes>>
        BY DEF FindFile
    <2>2. "found" \in Active /\ "failing" \in Active \cup Over
        BY DEF Active, Outside
    <2> QED
        BY <1>2, <2>1, <2>2, JobKeeps
<1> QED
    BY <1>1, <1>2 DEF FindFile

LEMMA FinishJobKeeps ==
    ASSUME IInv, NEW r \in DOMAIN runs, FinishJob(r)
    PROVE  IInv'
<1>1. "written" \in Active /\ "done" \in Active \cup Over
    BY DEF Active, Trying
<1> QED
    BY <1>1, JobKeeps DEF FinishJob

LEMMA FailJobKeeps ==
    ASSUME IInv, NEW r \in DOMAIN runs, FailJob(r)
    PROVE  IInv'
<1>1. "raised" \in Active /\ "job_failed" \in Active \cup Over
    BY DEF Active, Excepting
<1> QED
    BY <1>1, JobKeeps DEF FailJob

\* A run whose version is written to the index: the index names its job and agrees with
\* it, and every other run with one job of its own is no longer named.
LEMMA IndexKeeps ==
    ASSUME IInv, NEW r \in DOMAIN runs, NEW from \in Active, NEW to \in Active \cup Over,
           NEW status \in {"ready", "failed"},
           Goes(r, from, to), SetIndex(Ver(r), status, runs[r].job),
           UNCHANGED <<record, files, meta, jobs, queue, loop, faults, crashes>>,
           \/ from \in {"failing", "meta_failed"} /\ to = "failed" /\ status = "failed"
           \/ from = "done" /\ to = "indexed" /\ status = "ready"
    PROVE  IInv'
<1>a. /\ record' = record /\ files' = files /\ meta' = meta
      /\ jobs' = jobs /\ queue' = queue /\ loop' = loop
    OBVIOUS
<1>b. /\ TypeOK /\ WrittenStays /\ ReadyShown /\ OutcomesAgree /\ EntryInHand
    BY DEF IInv
<1>1. /\ runs[r].at = from /\ runs'[r].at = to /\ runs'[r].entry = runs[r].entry
      /\ \A s \in DOMAIN runs : s # r => runs'[s] = runs[s]
      /\ \A s \in DOMAIN runs : runs'[s].job = runs[s].job
    BY <1>b, RunGone
<1>c. /\ Ver(r) \in Version /\ runs[r].job \in DOMAIN jobs /\ runs[r].job \in JobId
      /\ \A s \in DOMAIN runs : Ver(s) \in Version
    BY <1>b, Types
<1>2. /\ index' \in [Version -> Index]
      /\ index'[Ver(r)].status = status /\ index'[Ver(r)].job = runs[r].job
      /\ \A v \in Version : v # Ver(r) => index'[v] = index[v]
    <2>1. [status |-> status, job |-> runs[r].job] \in Index
        BY <1>c DEF Index
    <2> QED
        BY <1>b, <1>c, <2>1 DEF SetIndex, TypeOK
<1>3. to \notin Grasp
    BY DEF Grasp, Holding
<1>4. Tidy
    <2>1. \A v \in Version : index'[v].job \in DOMAIN jobs \cup {NULL}
        BY <1>2, <1>c, TablesTidy
    <2> QED
        BY <1>a, <1>2, <1>3, <2>1, RunTidy, TablesTidy DEF Tidy
<1>5. TypeOK' /\ LoopRefs' /\ RunRefs' /\ JobsKnown' /\ Frame
    BY <1>4, TidyKeeps
<1>6. /\ ~ Enters(r, Wrote) /\ ~ Leaves(r, Failing) /\ ~ Leaves(r, Showed)
      /\ ~ Leaves(r, Holding) /\ runs[r].at \notin Holding
    BY <1>1 DEF Enters, Leaves, Wrote, Failing, Excepting, Showed, Succeeded, Vouching, Holding
<1>7. \A s \in DOMAIN runs : /\ ~ Enters(s, Wrote) /\ ~ Leaves(s, Failing)
                             /\ ~ Leaves(s, Showed) /\ ~ Leaves(s, Holding)
                             /\ runs[s].at \in Holding => runs'[s].entry = runs[s].entry
    BY <1>1, <1>6 DEF Enters, Leaves
<1>8. WrittenStays'
    BY <1>a, <1>b, <1>5, <1>7, WrittenKept
<1>9. ReadyShown'
    <2>1. CASE status = "failed"
        BY <1>2, <1>b, <1>5, <1>7, <2>1, ShownKept
    <2>2. CASE status = "ready"
        <3> SUFFICES ASSUME NEW v \in Version, index'[v].status = "ready"
                     PROVE  \E s \in RunsOf(v)' : runs'[s].at \in Showed
            BY DEF ReadyShown
        <3>1. CASE v = Ver(r)
            <4>1. r \in RunsOf(v)'
                BY <1>b, <1>5, <3>1, FrameFacts DEF RunsOf
            <4>2. to \in Showed
                BY <2>2 DEF Showed, Succeeded, Vouching
            <4> QED
                BY <1>1, <4>1, <4>2
        <3>2. CASE v # Ver(r)
            <4>1. PICK s \in RunsOf(v) : runs[s].at \in Showed
                BY <1>2, <1>b, <3>2 DEF ReadyShown
            <4>2. s \in RunsOf(v)' /\ runs'[s].at \in Showed
                BY <1>7, <1>b, <1>5, <4>1, FrameFacts DEF Leaves, RunsOf
            <4> QED
                BY <4>2
        <3> QED
            BY <3>1, <3>2
    <2> QED
        BY <2>1, <2>2
<1>10. EntryInHand'
    BY <1>a, <1>b, <1>5, <1>7, HandKept
<1>11. OutcomesAgree'
    <2>1. ASSUME NEW s \in DOMAIN runs, s # r, OnlyRun(s)' PROVE Steady(s)
        <3>1. runs[s].job # runs[r].job
            BY <1>1, <1>5, <2>1 DEF OnlyRun, Frame
        <3>2. NoOutcome(s)
            BY <1>1, <2>1 DEF NoOutcome, Enters
        <3>3. index'[Ver(s)].job = runs[s].job => index'[Ver(s)] = index[Ver(s)]
            BY <1>2, <1>c, <3>1
        <3> QED
            BY <1>a, <3>2, <3>3 DEF Steady
    <2>2. ASSUME OnlyRun(r)' PROVE Agrees(r)'
        <3>1. OnlyRun(r)
            BY <1>1, <1>5, <2>2 DEF OnlyRun, Frame
        <3>2. Agrees(r)
            BY <1>b, <3>1 DEF OutcomesAgree
        <3>3. /\ to \in Succeeded \cup {"done"} => from \in Succeeded \cup {"done"}
              /\ to \in FailedJob => from \in FailedJob
              /\ to \in Succeeded => status = "ready"
              /\ to = "failed" => status = "failed"
            BY DEF Succeeded, Vouching, FailedJob
        <3>4. Ver(r)' = Ver(r)
            BY <1>b, <1>5, FrameFacts
        <3> QED
            BY <1>a, <1>1, <1>2, <3>2, <3>3, <3>4 DEF Agrees
    <2> QED
        BY <1>b, <1>5, <2>1, <2>2, AgreeBut
<1> QED
    BY <1>5, <1>8, <1>9, <1>10, <1>11 DEF IInv

LEMMA FailIndexKeeps ==
    ASSUME IInv, NEW r \in DOMAIN runs, FailIndex(r)
    PROVE  IInv'
<1>1. "failing" \in Active /\ "failed" \in Active \cup Over
    BY DEF Active, Outside, Over
<1> QED
    BY <1>1, IndexKeeps DEF FailIndex

LEMMA ReadyIndexKeeps ==
    ASSUME IInv, NEW r \in DOMAIN runs, ReadyIndex(r)
    PROVE  IInv'
<1>1. "done" \in Active /\ "indexed" \in Active \cup Over
    BY DEF Active, Trying, Vouching
<1> QED
    BY <1>1, IndexKeeps DEF ReadyIndex

LEMMA FailedIndexKeeps ==
    ASSUME IInv, NEW r \in DOMAIN runs, FailedIndex(r)
    PROVE  IInv'
<1>1. "meta_failed" \in Active /\ "failed" \in Active \cup Over
    BY DEF Active, Excepting, Over
<1> QED
    BY <1>1, IndexKeeps DEF FailedIndex

\* A run that writes the metadata of its version: its payload, or that of the failure
\* once it has failed.
LEMMA MetaKeeps ==
    ASSUME IInv, NEW r \in DOMAIN runs, NEW from \in Active, NEW to \in Active \cup Over,
           NEW payload \in Payload, Goes(r, from, to), SetMeta(Ver(r), payload),
           UNCHANGED <<record, files, jobs, index, queue, loop, faults, crashes>>,
           \/ from = "work" /\ to = "written" /\ payload.by = "ocr"
           \/ from = "job_failed" /\ to = "meta_failed"
    PROVE  IInv'
<1>a. /\ record' = record /\ files' = files /\ jobs' = jobs
      /\ index' = index /\ queue' = queue /\ loop' = loop
    OBVIOUS
<1>b. /\ TypeOK /\ WrittenStays /\ ReadyShown /\ OutcomesAgree /\ EntryInHand
    BY DEF IInv
<1>1. /\ runs[r].at = from /\ runs'[r].at = to /\ runs'[r].entry = runs[r].entry
      /\ \A s \in DOMAIN runs : s # r => runs'[s] = runs[s]
      /\ \A s \in DOMAIN runs : runs'[s].job = runs[s].job
    BY <1>b, RunGone
<1>2. /\ meta' \in [Version -> Payload \cup {NULL}] /\ Ver(r) \in Version
      /\ record[Ver(r)] = "live" => meta'[Ver(r)] = payload
      /\ \A v \in Version : v # Ver(r) => meta'[v] = meta[v]
    BY <1>b, Types, TablesTidy DEF SetMeta, TypeOK
<1>3. to \notin Grasp
    BY DEF Grasp, Holding
<1>4. Tidy
    BY <1>a, <1>2, <1>3, RunTidy, TablesTidy DEF Tidy
<1>5. TypeOK' /\ LoopRefs' /\ RunRefs' /\ JobsKnown' /\ Frame
    BY <1>4, TidyKeeps
<1>6. /\ ~ Leaves(r, Failing) /\ ~ Leaves(r, Showed)
      /\ ~ Leaves(r, Holding) /\ runs[r].at \notin Holding /\ NoOutcome(r)
    BY <1>1 DEF Enters, Leaves, NoOutcome, Failing, Excepting, Showed, Succeeded, Vouching,
                Holding, FailedJob
<1>7. \A s \in DOMAIN runs : /\ ~ Leaves(s, Failing) /\ ~ Leaves(s, Showed)
                             /\ ~ Leaves(s, Holding) /\ NoOutcome(s)
                             /\ runs[s].at \in Holding => runs'[s].entry = runs[s].entry
    BY <1>1, <1>6 DEF Enters, Leaves, NoOutcome
<1>8. WrittenStays'
    <2> SUFFICES ASSUME NEW v \in Version, record[v] = "live",
                        NEW s \in RunsOf(v)', runs'[s].at \in Wrote,
                        \A q \in RunsOf(v)' : runs'[q].at \notin Failing
                 PROVE  meta'[v] \in Payload /\ meta'[v].by = "ocr"
        BY <1>a DEF WrittenStays
    <2>1. CASE v = Ver(r)
        <3>1. r \in RunsOf(v)'
            BY <1>b, <1>5, <2>1, FrameFacts DEF RunsOf
        <3>2. to # "meta_failed"
            BY <1>1, <3>1 DEF Failing, Excepting
        <3> QED
            BY <1>2, <2>1, <3>2
    <2>2. CASE v # Ver(r)
        <3>1. s \in RunsOf(v)
            BY <1>b, <1>5, FrameFacts DEF Wrote, Succeeded, Vouching
        <3>2. s # r /\ runs[s].at \in Wrote
            BY <1>1, <2>2, <3>1 DEF RunsOf
        <3>3. \A q \in RunsOf(v) : runs[q].at \notin Failing
            BY <1>7, <1>b, <1>5, FrameFacts DEF Leaves, RunsOf
        <3> QED
            BY <1>2, <1>b, <2>2, <3>1, <3>2, <3>3 DEF WrittenStays
    <2> QED
        BY <2>1, <2>2
<1>9. ReadyShown'
    BY <1>a, <1>b, <1>5, <1>7, ShownKept
<1>10. EntryInHand'
    BY <1>a, <1>b, <1>5, <1>7, HandKept
<1>11. OutcomesAgree'
    <2>1. \A s \in DOMAIN runs : Steady(s)
        BY <1>a, <1>7 DEF Steady
    <2> QED
        BY <1>b, <1>5, <2>1, AgreeKept
<1> QED
    BY <1>5, <1>8, <1>9, <1>10, <1>11 DEF IInv

LEMMA EnrichPayload ==
    ASSUME NEW by \in {"upload", "ocr", "failure"}, NEW pages \in BOOLEAN
    PROVE  LET p == Enrich([by |-> by, pages |-> pages]) IN p \in Payload /\ p.by = by
BY DEF Enrich, Payload

LEMMA WriteMetaKeeps ==
    ASSUME IInv, NEW r \in DOMAIN runs, WriteMeta(r)
    PROVE  IInv'
<1> DEFINE p == Enrich([by |-> "ocr", pages |-> TRUE])
<1>1. "work" \in Active /\ "written" \in Active \cup Over
    BY DEF Active, Trying
<1>2. p \in Payload /\ p.by = "ocr"
    BY EnrichPayload
<1>3. /\ Goes(r, "work", "written") /\ SetMeta(Ver(r), p)
      /\ UNCHANGED <<record, files, jobs, index, queue, loop, faults, crashes>>
    BY DEF WriteMeta
<1> HIDE DEF p
<1> QED
    BY <1>1, <1>2, <1>3, MetaKeeps

LEMMA FailMetaKeeps ==
    ASSUME IInv, NEW r \in DOMAIN runs, FailMeta(r)
    PROVE  IInv'
<1> DEFINE p == Enrich([by |-> "failure", pages |-> FALSE])
<1>1. "job_failed" \in Active /\ "meta_failed" \in Active \cup Over
    BY DEF Active, Excepting
<1>2. p \in Payload
    BY EnrichPayload
<1>3. /\ Goes(r, "job_failed", "meta_failed") /\ SetMeta(Ver(r), p)
      /\ UNCHANGED <<record, files, jobs, index, queue, loop, faults, crashes>>
    BY DEF FailMeta
<1> HIDE DEF p
<1> QED
    BY <1>1, <1>2, <1>3, MetaKeeps

-----------------------------------------------------------------------------
(***************************************************************************)
(* Steps of a run that write the queue.                                    *)
(***************************************************************************)

\* What both have in common: the run stays in the queue of its version.
LEMMA QueueKeeps ==
    ASSUME IInv, Tidy, NEW r \in DOMAIN runs,
           runs[r].at \in Vouching, runs'[r].at \in Vouching,
           \A s \in DOMAIN runs : s # r => runs'[s] = runs[s],
           UNCHANGED <<record, files, meta, jobs, index, loop, faults, crashes>>
    PROVE  /\ TypeOK' /\ LoopRefs' /\ RunRefs' /\ JobsKnown'
           /\ WrittenStays' /\ ReadyShown' /\ OutcomesAgree' /\ Frame
<1>a. /\ record' = record /\ meta' = meta /\ jobs' = jobs /\ index' = index
    OBVIOUS
<1>b. /\ TypeOK /\ WrittenStays /\ ReadyShown /\ OutcomesAgree
    BY DEF IInv
<1>1. TypeOK' /\ LoopRefs' /\ RunRefs' /\ JobsKnown' /\ Frame
    BY TidyKeeps
<1>2. ASSUME NEW s \in DOMAIN runs
      PROVE  ~ Enters(s, Wrote) /\ ~ Leaves(s, Failing) /\ ~ Leaves(s, Showed) /\ NoOutcome(s)
    <2>1. CASE s = r
        BY <2>1 DEF Enters, Leaves, NoOutcome, Wrote, Failing, Excepting, Showed, Succeeded,
                    Vouching, FailedJob
    <2>2. CASE s # r
        BY <2>2 DEF Enters, Leaves, NoOutcome
    <2> QED
        BY <2>1, <2>2
<1>3. WrittenStays'
    BY <1>a, <1>b, <1>1, <1>2, WrittenKept
<1>4. ReadyShown'
    BY <1>a, <1>b, <1>1, <1>2, ShownKept
<1>5. OutcomesAgree'
    <2>1. \A s \in DOMAIN runs : Steady(s)
        BY <1>a, <1>2 DEF Steady
    <2> QED
        BY <1>b, <1>1, <2>1, AgreeKept
<1> QED
    BY <1>1, <1>3, <1>4, <1>5

\* The run that takes an entry has it in hand.
LEMMA TakeEntryKeeps ==
    ASSUME IInv, NEW r \in DOMAIN runs, TakeEntry(r)
    PROVE  IInv'
<1>a. TypeOK /\ RunRefs /\ EntryInHand
    BY DEF IInv
<1>b. UNCHANGED <<record, files, meta, jobs, index, loop, faults, crashes>>
    BY DEF TakeEntry
<1>1. PICK e \in runs[r].todo :
        /\ SetEntry(e, "processing")
        /\ runs' = [runs EXCEPT ![r].at = "retry", ![r].entry = e, ![r].todo = @ \ {e}]
    BY DEF TakeEntry
<1> DEFINE run == [runs[r] EXCEPT !.at = "retry", !.entry = e, !.todo = @ \ {e}]
<1>2. /\ runs[r] \in Run /\ runs[r].at = "vouching" /\ e \in DOMAIN queue /\ e \in EntryId
      /\ queue[e].ver = Ver(r)
    BY <1>a, Types DEF TakeEntry, RunRefs
<1>3. /\ run \in Run /\ run.job = runs[r].job /\ run.entry = e
      /\ run.at = "retry" /\ run.todo = runs[r].todo \ {e}
    BY <1>2 DEF Run, Active, Vouching
<1>4. runs' = [runs EXCEPT ![r] = run]
    BY <1>1
<1> HIDE DEF run
<1>5. /\ runs' \in Seq(Run) /\ Len(runs') = Len(runs) /\ DOMAIN runs' = DOMAIN runs
      /\ runs'[r] = run
      /\ \A s \in DOMAIN runs : s # r => runs'[s] = runs[s]
      /\ \A s \in DOMAIN runs : runs'[s].job = runs[s].job
    BY <1>a, <1>3, <1>4, RunChanged
<1>6. /\ queue' \in Seq(Entry) /\ Len(queue') = Len(queue) /\ DOMAIN queue' = DOMAIN queue
      /\ \A f \in DOMAIN queue : queue'[f].ver = queue[f].ver
      /\ \A f \in DOMAIN queue : f # e => queue'[f] = queue[f]
    BY <1>a, <1>1, <1>2, EntrySet
<1>7. Tidy
    <2>1. ASSUME NEW s \in DOMAIN runs
          PROVE  /\ runs'[s].job = runs[s].job /\ runs'[s].todo \subseteq runs[s].todo
                 /\ runs'[s].at \in Grasp => runs'[s].entry \in DOMAIN queue
        <3>1. CASE s = r
            BY <1>2, <1>3, <1>5, <3>1
        <3>2. CASE s # r
            BY <1>a, <1>5, <3>2 DEF RunRefs, Grasp
        <3> QED
            BY <3>1, <3>2
    <2>2. meta' = meta /\ jobs' = jobs /\ index' = index
        BY <1>b
    <2> QED
        BY <1>5, <1>6, <2>1, <2>2, TablesTidy DEF Tidy
<1>8. runs[r].at \in Vouching /\ runs'[r].at \in Vouching
    BY <1>2, <1>3, <1>5 DEF Vouching
<1>9. /\ TypeOK' /\ LoopRefs' /\ RunRefs' /\ JobsKnown'
      /\ WrittenStays' /\ ReadyShown' /\ OutcomesAgree' /\ Frame
    BY <1>b, <1>5, <1>7, <1>8, QueueKeeps
<1>10. EntryInHand'
    <2> SUFFICES ASSUME NEW f \in DOMAIN queue, queue'[f].status = "processing"
                 PROVE  \E s \in DOMAIN runs' : /\ Ver(s)' = queue'[f].ver
                                                /\ runs'[s].entry = f /\ runs'[s].at \in Holding
        BY <1>6 DEF EntryInHand, RunsOf
    <2>1. CASE f = e
        <3>1. Ver(r)' = queue'[f].ver /\ r \in DOMAIN runs'
            BY <1>a, <1>2, <1>6, <1>9, <2>1, FrameFacts
        <3>2. runs'[r].entry = f /\ runs'[r].at \in Holding
            BY <1>3, <1>5, <2>1 DEF Holding
        <3> QED
            BY <3>1, <3>2
    <2>2. CASE f # e
        <3>1. PICK s \in DOMAIN runs :
                Ver(s) = queue[f].ver /\ runs[s].entry = f /\ runs[s].at \in Holding
            BY <1>a, <1>6, <2>2 DEF EntryInHand, RunsOf
        <3>2. s # r
            BY <1>2, <3>1 DEF Holding
        <3>3. runs'[s].entry = f /\ runs'[s].at \in Holding
            BY <1>5, <3>1, <3>2
        <3>4. s \in DOMAIN runs' /\ Ver(s)' = queue'[f].ver
            BY <1>a, <1>6, <1>9, <3>1, FrameFacts
        <3> QED
            BY <3>3, <3>4
    <2> QED
        BY <2>1, <2>2
<1> QED
    BY <1>9, <1>10 DEF IInv

\* The run that lets an entry go has settled it; any other entry is in other hands.
LEMMA SettleEntryKeeps ==
    ASSUME IInv, NEW r \in DOMAIN runs, SettleEntry(r)
    PROVE  IInv'
<1>a. TypeOK /\ RunRefs /\ EntryInHand
    BY DEF IInv
<1>b. UNCHANGED <<record, files, meta, jobs, index, loop, faults, crashes>>
    BY DEF SettleEntry
<1> DEFINE e == runs[r].entry
           from == runs[r].at
           status == IF from = "stamped" THEN "done" ELSE "failed"
<1>1. /\ from \in {"stamped", "refused"} /\ Goes(r, from, "vouching")
      /\ SetEntry(e, status) /\ status \in {"done", "failed"}
    BY DEF SettleEntry
<1>2. e \in DOMAIN queue
    BY <1>a, <1>1 DEF RunRefs, Holding
<1> HIDE DEF status
<1>3. "vouching" \in Active \cup Over /\ "vouching" \notin Grasp
    BY DEF Active, Vouching, Grasp, Holding
<1>4. /\ runs'[r].at = "vouching"
      /\ \A s \in DOMAIN runs : s # r => runs'[s] = runs[s]
    BY <1>a, <1>1, <1>3, RunGone
<1>5. /\ queue' \in Seq(Entry) /\ Len(queue') = Len(queue) /\ DOMAIN queue' = DOMAIN queue
      /\ queue'[e].status = status
      /\ \A f \in DOMAIN queue : queue'[f].ver = queue[f].ver
      /\ \A f \in DOMAIN queue : f # e => queue'[f] = queue[f]
    BY <1>a, <1>1, <1>2, EntrySet
<1>6. Tidy
    <2>1. meta' = meta /\ jobs' = jobs /\ index' = index
        BY <1>b
    <2> QED
        BY <1>1, <1>3, <1>5, <2>1, RunTidy, TablesTidy DEF Tidy
<1>7. runs[r].at \in Vouching /\ runs'[r].at \in Vouching
    BY <1>1, <1>4 DEF Vouching
<1>8. /\ TypeOK' /\ LoopRefs' /\ RunRefs' /\ JobsKnown'
      /\ WrittenStays' /\ ReadyShown' /\ OutcomesAgree' /\ Frame
    BY <1>b, <1>4, <1>6, <1>7, QueueKeeps
<1>9. EntryInHand'
    <2> SUFFICES ASSUME NEW f \in DOMAIN queue, queue'[f].status = "processing"
                 PROVE  \E s \in DOMAIN runs' : /\ Ver(s)' = queue'[f].ver
                                                /\ runs'[s].entry = f /\ runs'[s].at \in Holding
        BY <1>5 DEF EntryInHand, RunsOf
    <2>1. f # e
        BY <1>1, <1>5
    <2>2. PICK s \in DOMAIN runs :
            Ver(s) = queue[f].ver /\ runs[s].entry = f /\ runs[s].at \in Holding
        BY <1>a, <1>5, <2>1 DEF EntryInHand, RunsOf
    <2>3. runs'[s].entry = f /\ runs'[s].at \in Holding
        BY <1>4, <2>1, <2>2
    <2>4. s \in DOMAIN runs' /\ Ver(s)' = queue'[f].ver
        BY <1>a, <1>5, <1>8, <2>2, FrameFacts
    <2> QED
        BY <2>3, <2>4
<1> QED
    BY <1>8, <1>9 DEF IInv

-----------------------------------------------------------------------------
(***************************************************************************)
(* Steps of the handlers.                                                  *)
(***************************************************************************)

\* A handler only adds runs, jobs and entries, and only has a job indexed nobody runs.
ServesRuns ==
    /\ runs' \in Seq(Run) /\ Len(runs') <= MaxRuns /\ DOMAIN runs \subseteq DOMAIN runs'
    /\ \A s \in DOMAIN runs : runs'[s] = runs[s]
    /\ \A s \in DOMAIN runs' \ DOMAIN runs :
        runs'[s].at = "queued" /\ runs'[s].todo = {} /\ runs'[s].job \in DOMAIN jobs

ServesJobs ==
    /\ jobs' \in Seq(Job) /\ Len(jobs') <= MaxJobs /\ DOMAIN jobs \subseteq DOMAIN jobs'
    /\ \A j \in DOMAIN jobs : jobs'[j] = jobs[j]
    /\ \A j \in DOMAIN jobs' \ DOMAIN jobs : record'[jobs'[j].ver] # "new"

ServesIndex ==
    /\ index' \in [Version -> Index]
    /\ \A v \in Version :
        \/ index'[v] = index[v]
        \/ /\ index'[v].status = "processing" /\ index'[v].job \in DOMAIN jobs
           /\ \A r \in DOMAIN runs : runs[r].job # index'[v].job

ServesQueue ==
    /\ queue' \in Seq(Entry) /\ Len(queue') <= MaxEntries /\ DOMAIN queue \subseteq DOMAIN queue'
    /\ \A e \in DOMAIN queue : queue'[e] = queue[e]
    /\ \A e \in DOMAIN queue' \ DOMAIN queue : queue'[e].status = "pending_ocr"

ServesVersions ==
    /\ record' \in [Version -> {"new", "live", "deleted"}]
    /\ \A v \in Version : record[v] # "new" => record'[v] # "new"
    /\ files' \subseteq Version /\ meta' \in [Version -> Payload \cup {NULL}]

ServesRest ==
    /\ loop' \in Loop /\ faults' \in 0 .. MaxFaults /\ crashes' \in 0 .. MaxCrashes

Serves == ServesRuns /\ ServesJobs /\ ServesIndex /\ ServesQueue /\ ServesVersions /\ ServesRest

\* What a handler leaves alone serves.
LEMMA Untouched ==
    ASSUME IInv
    PROVE  /\ runs' = runs => ServesRuns
           /\ jobs' = jobs => ServesJobs
           /\ index' = index => ServesIndex
           /\ queue' = queue => ServesQueue
           /\ record' = record /\ files' = files /\ meta' = meta => ServesVersions
BY DEF IInv, TypeOK, ServesRuns, ServesJobs, ServesIndex, ServesQueue, ServesVersions

LEMMA ServesKeeps ==
    ASSUME IInv, Serves
    PROVE  /\ TypeOK' /\ RunRefs' /\ JobsKnown' /\ Frame
           /\ ReadyShown' /\ OutcomesAgree' /\ EntryInHand'
<1>a. /\ TypeOK /\ RunRefs /\ JobsKnown /\ ReadyShown /\ OutcomesAgree /\ EntryInHand
    BY DEF IInv
<1>b. /\ ServesRuns /\ ServesJobs /\ ServesIndex /\ ServesQueue /\ ServesVersions /\ ServesRest
    BY DEF Serves
<1>1. Frame
    BY <1>b DEF Frame, ServesRuns, ServesJobs
<1>2. TypeOK'
    <2>1. \A r \in DOMAIN runs' : runs'[r].job \in DOMAIN jobs' /\ runs'[r].todo \subseteq DOMAIN queue'
        BY <1>a, <1>b, Types DEF ServesRuns, ServesJobs, ServesQueue
    <2>2. \A v \in Version : index'[v].job \in DOMAIN jobs' \cup {NULL}
        BY <1>a, <1>b DEF ServesIndex, ServesJobs, TypeOK
    <2> QED
        BY <1>b, <2>1, <2>2 DEF TypeOK, ServesRuns, ServesJobs, ServesIndex, ServesQueue,
                                ServesVersions, ServesRest
<1>3. RunRefs'
    <2> SUFFICES ASSUME NEW r \in DOMAIN runs'
                 PROVE  /\ \A e \in runs'[r].todo : queue'[e].ver = Ver(r)'
                        /\ runs'[r].at \in Grasp => runs'[r].entry \in DOMAIN queue'
        BY DEF RunRefs, Grasp
    <2>1. CASE r \in DOMAIN runs
        <3>1. runs'[r] = runs[r] /\ Ver(r)' = Ver(r)
            BY <1>1, <1>a, <1>b, <2>1, FrameFacts DEF ServesRuns
        <3>2. /\ \A e \in runs[r].todo : e \in DOMAIN queue /\ queue[e].ver = Ver(r)
              /\ runs[r].at \in Grasp => runs[r].entry \in DOMAIN queue
            BY <1>a, <2>1, Types DEF RunRefs, Grasp
        <3> QED
            BY <1>b, <3>1, <3>2 DEF ServesQueue
    <2>2. CASE r \notin DOMAIN runs
        BY <1>b, <2>2 DEF ServesRuns, Grasp, Holding
    <2> QED
        BY <2>1, <2>2
<1>4. JobsKnown'
    BY <1>a, <1>b, Types DEF JobsKnown, ServesJobs, ServesVersions
<1>5. ASSUME NEW s \in DOMAIN runs
      PROVE  /\ ~ Leaves(s, Showed) /\ ~ Leaves(s, Holding)
             /\ runs'[s].entry = runs[s].entry /\ Steady(s)
    <2>1. runs'[s] = runs[s] /\ runs[s].job \in DOMAIN jobs /\ Ver(s) \in Version
        BY <1>a, <1>b, Types DEF ServesRuns
    <2>2. jobs'[runs[s].job] = jobs[runs[s].job]
        BY <1>b, <2>1 DEF ServesJobs
    <2>3. index'[Ver(s)].job = runs[s].job => index'[Ver(s)] = index[Ver(s)]
        BY <1>b, <2>1 DEF ServesIndex
    <2> QED
        BY <2>1, <2>2, <2>3 DEF Steady, NoOutcome, Enters, Leaves
<1>6. ReadyShown'
    <2>1. \A v \in Version : index'[v].status = "ready" => index[v].status = "ready"
        BY <1>b DEF ServesIndex
    <2> QED
        BY <1>1, <1>a, <1>5, <2>1, ShownKept
<1>7. OutcomesAgree'
    BY <1>1, <1>a, <1>5, AgreeKept
<1>8. EntryInHand'
    <2>1. \A e \in DOMAIN queue' : queue'[e].status = "processing" =>
            e \in DOMAIN queue /\ queue[e].status = "processing" /\ queue'[e].ver = queue[e].ver
        BY <1>b DEF ServesQueue
    <2> QED
        BY <1>1, <1>a, <1>5, <2>1, HandKept
<1> QED
    BY <1>1, <1>2, <1>3, <1>4, <1>6, <1>7, <1>8

\* The payload of a version stays when the handler writes none and brings no record back.
LEMMA ServesWritten ==
    ASSUME IInv, Serves, meta' = meta,
           \A v \in Version : record'[v] = "live" => record[v] = "live"
    PROVE  WrittenStays'
<1>1. \A s \in DOMAIN runs : ~ Enters(s, Wrote) /\ ~ Leaves(s, Failing)
    BY DEF Serves, ServesRuns, Enters, Leaves
<1> QED
    BY <1>1, ServesKeeps, WrittenKept DEF IInv

\* The handler after it has begun, and after it has responded.
LEMMA BeginServes ==
    ASSUME IInv, NEW v \in Version, NEW j \in DOMAIN jobs \cup {NULL}, NEW link \in BOOLEAN,
           NEW at \in {"insert", "search", "unlink"}, Begin(at, v, j, link),
           record'[v] # "new", UNCHANGED <<jobs, queue, runs>>,
           at # "unlink" => Len(runs) < MaxRuns,
           at = "insert" => Len(jobs) < MaxJobs,
           at = "search" => link,
           link => Len(queue) < MaxEntries
    PROVE  loop' \in Loop /\ LoopRefs'
<1>1. DOMAIN jobs \subseteq JobId
    BY Types DEF IInv
<1>2. loop' = [at |-> at, ver |-> v, job |-> j, link |-> link]
    BY DEF Begin
<1>3. loop' \in Loop
    BY <1>1, <1>2 DEF Loop
<1>4. LoopRefs'
    BY <1>2 DEF LoopRefs
<1> QED
    BY <1>3, <1>4

LEMMA IdleServes ==
    ASSUME loop' = Idle
    PROVE  loop' \in Loop /\ LoopRefs'
BY IdleIsLoop DEF LoopRefs, Idle

LEMMA RespondServes ==
    ASSUME IInv, NEW j \in DOMAIN jobs \cup {NULL}, Respond(j), Len(runs) < MaxRuns
    PROVE  ServesRuns /\ loop' \in Loop /\ LoopRefs'
<1>1. loop' \in Loop /\ LoopRefs'
    BY IdleServes DEF Respond
<1>2. CASE j = NULL
    <2>1. runs' = runs
        BY <1>2 DEF Respond
    <2> QED
        BY <1>1, <2>1, Untouched
<1>3. CASE j # NULL
    <2>1. /\ j \in DOMAIN jobs /\ TypeOK /\ LoopRefs
          /\ runs' = Append(runs, [job |-> j, at |-> "queued", todo |-> {}, entry |-> NULL])
        BY <1>3 DEF Respond, IInv
    <2>2. /\ runs' \in Seq(Run) /\ Len(runs') = Len(runs) + 1
          /\ DOMAIN runs' = DOMAIN runs \cup {Len(runs) + 1}
          /\ \A s \in DOMAIN runs : runs'[s] = runs[s]
          /\ runs'[Len(runs) + 1] = [job |-> j, at |-> "queued", todo |-> {}, entry |-> NULL]
        BY <2>1, RunStarted
    <2>3. Len(runs) + 1 <= MaxRuns
        BY <2>1, Types
    <2> QED
        BY <1>1, <2>1, <2>2, <2>3 DEF ServesRuns
<1> QED
    BY <1>2, <1>3

LEMMA UploadKeeps ==
    ASSUME IInv, NEW v \in Version, NEW classified \in BOOLEAN, NEW async \in BOOLEAN,
           Upload(v, classified, async)
    PROVE  IInv'
<1>a. TypeOK /\ LoopRefs /\ JobsKnown /\ WrittenStays
    BY DEF IInv
<1>b. /\ jobs' = jobs /\ index' = index /\ queue' = queue /\ runs' = runs
      /\ faults' = faults /\ crashes' = crashes
    BY DEF Upload
<1>1. /\ record[v] = "new" /\ record' = [record EXCEPT ![v] = "live"]
      /\ files' \subseteq Version
    BY <1>a DEF Upload, TypeOK
<1>2. meta' \in [Version -> Payload \cup {NULL}] /\ \A w \in Version : w # v => meta'[w] = meta[w]
    BY <1>a, EnrichPayload DEF Upload, TypeOK
<1>3. ServesVersions
    BY <1>1, <1>2, <1>a DEF ServesVersions, TypeOK
<1>4. loop' \in Loop /\ LoopRefs'
    <2>1. CASE async /\ RoomForJob /\ Begin("insert", v, NULL, FALSE)
        <3>1. record'[v] # "new" /\ Len(runs) < MaxRuns /\ Len(jobs) < MaxJobs
            BY <1>1, <1>a, <2>1 DEF RoomForJob, TypeOK
        <3> QED
            BY <1>b, <2>1, <3>1, BeginServes
    <2>2. CASE loop = Idle /\ UNCHANGED loop
        BY <2>2, IdleServes
    <2> QED
        BY <2>1, <2>2 DEF Upload
<1>5. Serves
    BY <1>3, <1>4, <1>a, <1>b, Untouched DEF Serves, ServesRest, TypeOK
<1>6. WrittenStays'
    <2> SUFFICES ASSUME NEW w \in Version, record'[w] = "live",
                        NEW s \in RunsOf(w)', runs'[s].at \in Wrote,
                        \A q \in RunsOf(w)' : runs'[q].at \notin Failing
                 PROVE  meta'[w] \in Payload /\ meta'[w].by = "ocr"
        BY DEF WrittenStays
    <2>1. s \in DOMAIN runs /\ Ver(s) = w
        BY <1>b DEF RunsOf, Ver
    <2>2. w # v
        BY <1>1, <1>a, <2>1, Types DEF JobsKnown, Ver
    <2>3. record[w] = "live"
        BY <1>1, <1>a, <2>2 DEF TypeOK
    <2>4. s \in RunsOf(w) /\ runs[s].at \in Wrote /\ \A q \in RunsOf(w) : runs[q].at \notin Failing
        BY <1>b, <2>1 DEF RunsOf, Ver
    <2> QED
        BY <1>2, <1>a, <2>2, <2>3, <2>4 DEF WrittenStays
<1> QED
    BY <1>4, <1>5, <1>6, ServesKeeps DEF IInv

LEMMA PostJobKeeps ==
    ASSUME IInv, NEW v \in Version, NEW force \in BOOLEAN, PostJob(v, force)
    PROVE  IInv'
<1>1. /\ UNCHANGED data /\ runs' = runs /\ faults' = faults /\ crashes' = crashes
      /\ Begin("insert", v, NULL, FALSE) /\ record[v] = "live"
      /\ Len(jobs) < MaxJobs /\ Len(runs) < MaxRuns
    BY DEF PostJob, RoomForJob
<1>2. /\ record' = record /\ files' = files /\ meta' = meta
      /\ jobs' = jobs /\ index' = index /\ queue' = queue
    BY <1>1 DEF data
<1>3. loop' \in Loop /\ LoopRefs'
    BY <1>1, <1>2, BeginServes
<1>4. Serves
    BY <1>1, <1>2, <1>3, Untouched DEF Serves, ServesRest, IInv, TypeOK
<1>5. WrittenStays'
    BY <1>2, <1>4, ServesWritten
<1> QED
    BY <1>3, <1>4, <1>5, ServesKeeps DEF IInv

LEMMA AutoLinkKeeps ==
    ASSUME IInv, NEW v \in Version, NEW trigger \in BOOLEAN, AutoLink(v, trigger)
    PROVE  IInv'
<1>1. /\ UNCHANGED data /\ runs' = runs /\ faults' = faults /\ crashes' = crashes
      /\ record[v] = "live" /\ Len(queue) < MaxEntries /\ Len(runs) < MaxRuns
    BY DEF AutoLink, RoomForEntry
<1>2. /\ record' = record /\ files' = files /\ meta' = meta
      /\ jobs' = jobs /\ index' = index /\ queue' = queue
    BY <1>1 DEF data
<1>3. loop' \in Loop /\ LoopRefs'
    <2>1. CASE RoomForJob /\ Begin("insert", v, NULL, TRUE)
        BY <1>1, <1>2, <2>1, BeginServes DEF RoomForJob
    <2>2. CASE Begin("search", v, index[v].job, TRUE)
        <3>1. index[v].job \in DOMAIN jobs \cup {NULL}
            BY TablesTidy
        <3> QED
            BY <1>1, <1>2, <2>2, <3>1, BeginServes
    <2>3. CASE Begin("search", v, NULL, TRUE)
        BY <1>1, <1>2, <2>3, BeginServes
    <2> QED
        BY <2>1, <2>2, <2>3 DEF AutoLink
<1>4. Serves
    BY <1>1, <1>2, <1>3, Untouched DEF Serves, ServesRest, IInv, TypeOK
<1>5. WrittenStays'
    BY <1>2, <1>4, ServesWritten
<1> QED
    BY <1>3, <1>4, <1>5, ServesKeeps DEF IInv

LEMMA InsertJobKeeps ==
    ASSUME IInv, InsertJob
    PROVE  IInv'
<1>a. TypeOK /\ LoopRefs
    BY DEF IInv
<1>b. /\ record' = record /\ files' = files /\ meta' = meta /\ index' = index
      /\ queue' = queue /\ runs' = runs /\ faults' = faults /\ crashes' = crashes
    BY DEF InsertJob
<1> DEFINE job == [ver |-> loop.ver, status |-> "processing"]
           n == Len(jobs) + 1
<1>1. /\ loop.at = "insert" /\ loop \in Loop /\ loop.ver \in Version /\ record[loop.ver] # "new"
      /\ Len(jobs) < MaxJobs /\ Len(runs) < MaxRuns
      /\ loop.link => Len(queue) < MaxEntries
    BY <1>a DEF InsertJob, LoopRefs, TypeOK
<1>2. job \in Job /\ job.ver = loop.ver
    BY <1>1 DEF Job
<1>3. /\ jobs \in Seq(Job) /\ Len(jobs) \in Nat /\ DOMAIN jobs = 1 .. Len(jobs) /\ MaxJobs \in Nat
      /\ DOMAIN jobs \subseteq JobId
    BY <1>a, Types DEF TypeOK
<1>4. jobs' = Append(jobs, job) /\ loop' = [loop EXCEPT !.at = "index", !.job = n]
    BY DEF InsertJob
<1> HIDE DEF job
<1>5. /\ jobs' \in Seq(Job) /\ Len(jobs') = n /\ jobs'[n] = job
      /\ \A j \in 1 .. Len(jobs) : jobs'[j] = jobs[j]
    BY <1>2, <1>3, <1>4
<1>6. DOMAIN jobs' = 1 .. n
    BY <1>3, <1>5
<1>7. ServesJobs
    BY <1>1, <1>2, <1>3, <1>5, <1>6, <1>b DEF ServesJobs
<1>8. /\ loop' \in Loop /\ loop'.at = "index" /\ loop'.job = n
      /\ loop'.ver = loop.ver /\ loop'.link = loop.link
    <2>1. n \in JobId
        BY <1>1, <1>3 DEF JobId
    <2> HIDE DEF n
    <2> QED
        BY <1>1, <1>4, <2>1 DEF Loop
<1>9. \A r \in DOMAIN runs : runs[r].job # n
    BY <1>3, <1>a, Types
<1>10. n # NULL
    BY <1>1, <1>3, NullAssumption DEF JobId
<1>11. LoopRefs'
    <2>1. n \in DOMAIN jobs'
        BY <1>3, <1>6
    <2> HIDE DEF n
    <2> QED
        BY <1>1, <1>8, <1>9, <1>10, <1>b, <2>1 DEF LoopRefs
<1>12. Serves
    BY <1>7, <1>8, <1>a, <1>b, Untouched DEF Serves, ServesRest, TypeOK
<1>13. WrittenStays'
    BY <1>12, <1>b, ServesWritten
<1> QED
    BY <1>11, <1>12, <1>13, ServesKeeps DEF IInv

LEMMA IndexJobKeeps ==
    ASSUME IInv, IndexJob
    PROVE  IInv'
<1>a. TypeOK /\ LoopRefs
    BY DEF IInv
<1>b. /\ record' = record /\ files' = files /\ meta' = meta /\ jobs' = jobs
      /\ queue' = queue /\ faults' = faults /\ crashes' = crashes
    BY DEF IndexJob
<1>1. /\ loop.at = "index" /\ loop \in Loop /\ loop.ver \in Version /\ record[loop.ver] # "new"
      /\ loop.job \in DOMAIN jobs /\ \A r \in DOMAIN runs : runs[r].job # loop.job
      /\ Len(runs) < MaxRuns
      /\ loop.link => Len(queue) < MaxEntries
    BY <1>a DEF IndexJob, LoopRefs, TypeOK
<1>2. ServesIndex
    <2>1. [status |-> "processing", job |-> loop.job] \in Index
        BY <1>1, <1>a, Types DEF Index
    <2>2. /\ index' \in [Version -> Index]
          /\ index'[loop.ver] = [status |-> "processing", job |-> loop.job]
          /\ \A v \in Version : v # loop.ver => index'[v] = index[v]
        BY <1>1, <1>a, <2>1 DEF IndexJob, SetIndex, TypeOK
    <2> QED
        BY <1>1, <2>2 DEF ServesIndex
<1>3. ServesRuns /\ loop' \in Loop /\ LoopRefs'
    <2>1. CASE loop.link
        <3>1. runs' = runs /\ loop' = [loop EXCEPT !.at = "search"]
            BY <2>1 DEF IndexJob
        <3>2. /\ loop' \in Loop /\ loop'.at = "search" /\ loop'.job = loop.job
              /\ loop'.ver = loop.ver /\ loop'.link = loop.link
            BY <1>1, <3>1 DEF Loop
        <3>3. LoopRefs'
            BY <1>1, <1>b, <2>1, <3>1, <3>2 DEF LoopRefs
        <3> QED
            BY <3>1, <3>2, <3>3, Untouched
    <2>2. CASE ~ loop.link
        <3>1. Respond(loop.job)
            BY <2>2 DEF IndexJob
        <3> QED
            BY <1>1, <3>1, RespondServes
    <2> QED
        BY <2>1, <2>2
<1>4. Serves
    BY <1>2, <1>3, <1>a, <1>b, Untouched DEF Serves, ServesRest, TypeOK
<1>5. WrittenStays'
    BY <1>4, <1>b, ServesWritten
<1> QED
    BY <1>3, <1>4, <1>5, ServesKeeps DEF IInv

LEMMA SearchKeeps ==
    ASSUME IInv, Search
    PROVE  IInv'
<1>a. TypeOK /\ LoopRefs
    BY DEF IInv
<1>b. UNCHANGED <<data, faults, crashes>>
    BY DEF Search
<1>1. /\ record' = record /\ files' = files /\ meta' = meta /\ jobs' = jobs
      /\ index' = index /\ queue' = queue /\ faults' = faults /\ crashes' = crashes
    BY <1>b DEF data
<1>2. /\ loop.at = "search" /\ loop \in Loop /\ loop.ver \in Version /\ record[loop.ver] # "new"
      /\ loop.job \in DOMAIN jobs \cup {NULL}
      /\ Len(runs) < MaxRuns /\ loop.link /\ Len(queue) < MaxEntries
    BY <1>a DEF Search, LoopRefs, TypeOK
<1>3. ServesRuns /\ loop' \in Loop /\ LoopRefs'
    <2>1. CASE Respond(loop.job)
        BY <1>2, <2>1, RespondServes
    <2>2. CASE loop' = [loop EXCEPT !.at = "enqueue"] /\ runs' = runs
        <3>1. /\ loop' \in Loop /\ loop'.at = "enqueue" /\ loop'.job = loop.job
              /\ loop'.ver = loop.ver /\ loop'.link = loop.link
            BY <1>2, <2>2 DEF Loop
        <3>2. LoopRefs'
            BY <1>1, <1>2, <2>2, <3>1 DEF LoopRefs
        <3> QED
            BY <2>2, <3>1, <3>2, Untouched
    <2> QED
        BY <2>1, <2>2 DEF Search
<1>4. Serves
    BY <1>1, <1>3, <1>a, Untouched DEF Serves, ServesRest, TypeOK
<1>5. WrittenStays'
    BY <1>1, <1>4, ServesWritten
<1> QED
    BY <1>3, <1>4, <1>5, ServesKeeps DEF IInv

LEMMA EnqueueKeeps ==
    ASSUME IInv, Enqueue
    PROVE  IInv'
<1>a. TypeOK /\ LoopRefs
    BY DEF IInv
<1>b. /\ record' = record /\ files' = files /\ meta' = meta /\ jobs' = jobs
      /\ index' = index /\ faults' = faults /\ crashes' = crashes
    BY DEF Enqueue
<1> DEFINE entry == [ver |-> loop.ver, status |-> "pending_ocr", job |-> loop.job]
           n == Len(queue) + 1
<1>1. /\ loop.at = "enqueue" /\ loop \in Loop /\ loop.ver \in Version
      /\ loop.job \in DOMAIN jobs \cup {NULL}
      /\ Len(runs) < MaxRuns /\ Len(queue) < MaxEntries
    BY <1>a DEF Enqueue, LoopRefs, TypeOK
<1>2. entry \in Entry /\ entry.status = "pending_ocr"
    BY <1>1, <1>a, Types DEF Entry
<1>3. /\ queue \in Seq(Entry) /\ Len(queue) \in Nat /\ DOMAIN queue = 1 .. Len(queue)
      /\ MaxEntries \in Nat
    BY <1>a, Types DEF TypeOK
<1>4. queue' = Append(queue, entry) /\ Respond(loop.job)
    BY DEF Enqueue
<1> HIDE DEF entry
<1>5. /\ queue' \in Seq(Entry) /\ Len(queue') = n /\ queue'[n] = entry
      /\ \A e \in 1 .. Len(queue) : queue'[e] = queue[e]
    BY <1>2, <1>3, <1>4
<1>6. DOMAIN queue' = 1 .. n
    BY <1>3, <1>5
<1>7. ServesQueue
    BY <1>1, <1>2, <1>3, <1>5, <1>6 DEF ServesQueue
<1>8. ServesRuns /\ loop' \in Loop /\ LoopRefs'
    BY <1>1, <1>4, RespondServes
<1>9. Serves
    BY <1>7, <1>8, <1>a, <1>b, Untouched DEF Serves, ServesRest, TypeOK
<1>10. WrittenStays'
    BY <1>9, <1>b, ServesWritten
<1> QED
    BY <1>8, <1>9, <1>10, ServesKeeps DEF IInv

LEMMA DeleteKeeps ==
    ASSUME IInv, NEW v \in Version, Delete(v)
    PROVE  IInv'
<1>a. TypeOK /\ WrittenStays
    BY DEF IInv
<1>b. /\ files' = files /\ jobs' = jobs /\ index' = index /\ queue' = queue
      /\ runs' = runs /\ faults' = faults /\ crashes' = crashes
    BY DEF Delete
<1>1. /\ record' = [record EXCEPT ![v] = "deleted"] /\ meta' = [meta EXCEPT ![v] = NULL]
      /\ Begin("unlink", v, NULL, FALSE)
    BY DEF Delete
<1>2. /\ record' \in [Version -> {"new", "live", "deleted"}] /\ record'[v] = "deleted"
      /\ \A w \in Version : w # v => record'[w] = record[w] /\ meta'[w] = meta[w]
      /\ meta' \in [Version -> Payload \cup {NULL}]
    BY <1>1, <1>a DEF TypeOK
<1>3. ServesVersions
    BY <1>2, <1>a, <1>b DEF ServesVersions, TypeOK
<1>4. loop' \in Loop /\ LoopRefs'
    BY <1>1, <1>2, <1>b, BeginServes
<1>5. Serves
    BY <1>3, <1>4, <1>a, <1>b, Untouched DEF Serves, ServesRest, TypeOK
<1>6. WrittenStays'
    <2> SUFFICES ASSUME NEW w \in Version, record'[w] = "live",
                        NEW s \in RunsOf(w)', runs'[s].at \in Wrote,
                        \A q \in RunsOf(w)' : runs'[q].at \notin Failing
                 PROVE  meta'[w] \in Payload /\ meta'[w].by = "ocr"
        BY DEF WrittenStays
    <2>1. w # v /\ record[w] = "live"
        BY <1>2
    <2>2. s \in RunsOf(w) /\ runs[s].at \in Wrote /\ \A q \in RunsOf(w) : runs[q].at \notin Failing
        BY <1>b DEF RunsOf, Ver
    <2> QED
        BY <1>2, <1>a, <2>1, <2>2 DEF WrittenStays
<1> QED
    BY <1>4, <1>5, <1>6, ServesKeeps DEF IInv

LEMMA UnlinkKeeps ==
    ASSUME IInv, Unlink
    PROVE  IInv'
<1>a. TypeOK
    BY DEF IInv
<1>1. /\ record' = record /\ meta' = meta /\ jobs' = jobs /\ index' = index
      /\ queue' = queue /\ runs' = runs /\ faults' = faults /\ crashes' = crashes
      /\ files' = files \ {loop.ver} /\ loop' = Idle
    BY DEF Unlink
<1>2. ServesVersions
    BY <1>1, <1>a DEF ServesVersions, TypeOK
<1>3. loop' \in Loop /\ LoopRefs'
    BY <1>1, IdleServes
<1>4. Serves
    BY <1>1, <1>2, <1>3, <1>a, Untouched DEF Serves, ServesRest, TypeOK
<1>5. WrittenStays'
    BY <1>1, <1>4, ServesWritten
<1> QED
    BY <1>3, <1>4, <1>5, ServesKeeps DEF IInv

LEMMA HandlerRaisesKeeps ==
    ASSUME IInv, HandlerRaises
    PROVE  IInv'
<1>a. TypeOK
    BY DEF IInv
<1>1. UNCHANGED <<data, runs, crashes>> /\ loop' = Idle /\ faults' \in 0 .. MaxFaults
    BY <1>a, BoundsAssumption DEF HandlerRaises, TypeOK
<1>2. /\ record' = record /\ files' = files /\ meta' = meta /\ jobs' = jobs
      /\ index' = index /\ queue' = queue /\ runs' = runs /\ crashes' = crashes
    BY <1>1 DEF data
<1>3. loop' \in Loop /\ LoopRefs'
    BY <1>1, IdleServes
<1>4. Serves
    BY <1>1, <1>2, <1>3, <1>a, Untouched DEF Serves, ServesRest, TypeOK
<1>5. WrittenStays'
    BY <1>2, <1>4, ServesWritten
<1> QED
    BY <1>3, <1>4, <1>5, ServesKeeps DEF IInv

-----------------------------------------------------------------------------
(***************************************************************************)
(* The theorems.                                                           *)
(***************************************************************************)

LEMMA InitKeeps == Init => IInv
<1> SUFFICES ASSUME Init PROVE IInv
    OBVIOUS
<1>1. /\ record = [v \in Version |-> "new"] /\ files = {} /\ meta = [v \in Version |-> NULL]
      /\ jobs = <<>> /\ index = [v \in Version |-> [status |-> "none", job |-> NULL]]
      /\ queue = <<>> /\ runs = <<>> /\ loop = Idle /\ faults = 0 /\ crashes = 0
    BY DEF Init
<1>2. /\ jobs \in Seq(Job) /\ queue \in Seq(Entry) /\ runs \in Seq(Run)
      /\ Len(jobs) = 0 /\ Len(queue) = 0 /\ Len(runs) = 0
      /\ DOMAIN jobs = {} /\ DOMAIN queue = {} /\ DOMAIN runs = {}
    BY <1>1, EmptySeq
<1>3. TypeOK
    BY <1>1, <1>2, IdleIsLoop, BoundsAssumption DEF TypeOK, Index
<1>4. LoopRefs
    BY <1>1 DEF LoopRefs, Idle
<1>5. RunRefs /\ JobsKnown /\ OutcomesAgree /\ EntryInHand
    BY <1>2 DEF RunRefs, JobsKnown, OutcomesAgree, EntryInHand
<1>6. WrittenStays /\ ReadyShown
    BY <1>1, <1>2 DEF WrittenStays, ReadyShown, RunsOf
<1> QED
    BY <1>3, <1>4, <1>5, <1>6 DEF IInv

LEMMA StutterKeeps ==
    ASSUME IInv, UNCHANGED vars
    PROVE  IInv'
<1>1. /\ record' = record /\ files' = files /\ meta' = meta /\ jobs' = jobs /\ index' = index
      /\ queue' = queue /\ runs' = runs /\ loop' = loop /\ faults' = faults /\ crashes' = crashes
    BY DEF vars
<1> QED
    BY <1>1 DEF IInv, TypeOK, LoopRefs, RunRefs, JobsKnown, WrittenStays, ReadyShown,
                OutcomesAgree, OnlyRun, Agrees, EntryInHand, RunsOf, Ver

LEMMA RunStepKeeps ==
    ASSUME IInv, NEW r \in DOMAIN runs, RunSteps(r)
    PROVE  IInv'
BY FindVersionKeeps, FindFileKeeps, FailIndexKeeps, ReadFileKeeps, WriteMetaKeeps, OcrFailsKeeps,
   FinishJobKeeps, ReadyIndexKeeps, FailJobKeeps, FailMetaKeeps, FailedIndexKeeps, ListQueueKeeps,
   TakeEntryKeeps, FindScanKeeps, SearchAgainKeeps, SettleEntryKeeps, EndRunKeeps
DEF RunSteps

LEMMA StepKeeps == IInv /\ [Next]_vars => IInv'
<1> SUFFICES ASSUME IInv, [Next]_vars PROVE IInv'
    OBVIOUS
<1>1. CASE Requests
    BY <1>1, UploadKeeps, PostJobKeeps, AutoLinkKeeps, DeleteKeeps DEF Requests
<1>2. CASE HandlerSteps
    BY <1>2, InsertJobKeeps, IndexJobKeeps, SearchKeeps, EnqueueKeeps, UnlinkKeeps DEF HandlerSteps
<1>3. CASE HandlerRaises
    BY <1>3, HandlerRaisesKeeps
<1>4. CASE \E r \in DOMAIN runs : RunSteps(r) \/ RunRaises(r)
    BY <1>4, RunStepKeeps, RunRaisesKeeps
<1>5. CASE Crash
    BY <1>5, CrashKeeps
<1>6. CASE UNCHANGED vars
    BY <1>6, StutterKeeps
<1> QED
    BY <1>1, <1>2, <1>3, <1>4, <1>5, <1>6 DEF Next

\* Jobs, index, payloads, queue, runs and handler agree in every reachable state, whatever
\* order the event loop and the threads take and whatever fails in between.
THEOREM Consistent == Spec => []IInv
BY InitKeeps, StepKeeps, PTL DEF Spec

\* The tables, the runs and the handler keep their shapes, and no job, version or entry
\* that they name is missing.
THEOREM TypeCorrect == Spec => []TypeOK
<1>1. IInv => TypeOK
    BY DEF IInv
<1> QED
    BY <1>1, Consistent, PTL

\* A version is shown ready only with the payload of its OCR, unless a run of it failed or
\* was ended: set_document_index_state(ready) comes after update_version_metadata in every run.
THEOREM ReadyMeansText == Spec => []ReadyHasText
<1>1. IInv => ReadyHasText
    <2> SUFFICES ASSUME IInv, NEW v \in Version, index[v].status = "ready", record[v] = "live",
                        \A r \in RunsOf(v) : runs[r].at \notin Failing
                 PROVE  meta[v] \in Payload /\ meta[v].by = "ocr"
        BY DEF ReadyHasText
    <2>1. PICK r \in RunsOf(v) : runs[r].at \in Showed
        BY DEF IInv, ReadyShown
    <2>2. runs[r].at \in Wrote
        BY <2>1 DEF Showed, Wrote, Failing
    <2> QED
        BY <2>1, <2>2 DEF IInv, WrittenStays
<1> QED
    BY <1>1, Consistent, PTL

\* Once the runs of a version have returned, its index agrees with the job it names, when
\* that job was run once: each way out of run_ocr_job writes both.
THEOREM IndexAgrees == Spec => []IndexAgreesWithJob
<1>1. IInv => IndexAgreesWithJob
    <2> SUFFICES ASSUME IInv, NEW v \in Version, index[v].job # NULL,
                        \A r \in RunsOf(v) : runs[r].at \in {"end", "failed", "cut"},
                        NEW r \in RunsOf(v),
                        \A s \in RunsOf(v) : runs[s].job = index[v].job <=> s = r
                 PROVE  \/ index[v].status = "ready" /\ jobs[index[v].job].status = "done"
                        \/ index[v].status = "failed" /\ jobs[index[v].job].status = "failed"
        BY DEF IndexAgreesWithJob
    <2>1. r \in DOMAIN runs /\ Ver(r) = v /\ runs[r].job = index[v].job
        BY DEF RunsOf
    <2>2. \A s \in DOMAIN runs : runs[s].job = runs[r].job => s \in RunsOf(v)
        BY <2>1 DEF RunsOf, Ver
    <2>3. OnlyRun(r)
        BY <2>1, <2>2 DEF OnlyRun
    <2>4. Agrees(r)
        BY <2>1, <2>3 DEF IInv, OutcomesAgree
    <2>5. CASE runs[r].at \in {"end", "cut"}
        BY <2>1, <2>4, <2>5 DEF Agrees, Succeeded
    <2>6. CASE runs[r].at = "failed"
        BY <2>1, <2>4, <2>6 DEF Agrees, FailedJob
    <2> QED
        BY <2>5, <2>6
<1> QED
    BY <1>1, Consistent, PTL

\* An entry of the queue is in processing only in the hands of a run or left by one that
\* was stopped: process_auto_vouch_queue_for_version settles every entry it takes.
THEOREM EntriesInHand == Spec => []EntryInHand
<1>1. IInv => EntryInHand
    BY DEF IInv
<1> QED
    BY <1>1, Consistent, PTL
=============================================================================
