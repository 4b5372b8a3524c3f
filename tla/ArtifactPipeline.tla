-------------------------- MODULE ArtifactPipeline --------------------------
(***************************************************************************)
(* How an uploaded artifact is processed: the API's upload and retry       *)
(* requests, the BullMQ worker that runs artifact jobs, the reconciler     *)
(* that scans the table on an interval, and the intelligence worker.  All  *)
(* of them write the same source_artifacts row, each write is one SQL      *)
(* statement, and between two statements any other process may run.        *)
(*                                                                         *)
(* A row is its ingestion status, the part of metadata.processing that     *)
(* other code reads back, and whether updatedAt is younger than the five   *)
(* minutes after which a "processing" row counts as abandoned.             *)
(***************************************************************************)
EXTENDS Naturals, FiniteSets

CONSTANTS
    N,            \* artifacts are 1..N, in the order of their createdAt
    Jobs,         \* BullMQ job records that can be alive at one time
    Slots,        \* concurrency slots of the artifact-processing worker
    Passes,       \* reconciler passes that may overlap (setInterval has no guard)
    ISlots,       \* concurrency slots of the intelligence worker
    Requests,     \* HTTP requests of one behaviour, each used once
    Documents,    \* artifacts of a DOCUMENT_SOURCE_TYPES source type
    Unserved,     \* artifacts that need a reader, transcriber or storage that is not configured
    Unexplained,  \* artifacts that may parse to nothing, with no EMPTY_PARSE_REASONS entry
    ScanLimit,    \* rows a reconciler pass reads (10 in the code)
    MaxAttempts,  \* artifactJobOptions.attempts (3 in the code)
    MaxAuto,      \* Len(AUTOMATIC_RETRY_DELAYS_MS) (5 in the code)
    MaxFaults,    \* bound: transient failures in one behaviour
    MaxCrashes,   \* bound: crashes of the worker process in one behaviour
    SlowSteps     \* may a live processor take more than five minutes between writes?

Artifacts  == 1..N
Processors == Slots \cup Passes

AnyJob == CHOOSE j \in Jobs : TRUE

ASSUME PipelineAssumption ==
    /\ Jobs # {}
    /\ N \in Nat
    /\ ScanLimit \in Nat \ {0}
    /\ MaxAttempts \in Nat \ {0}
    /\ MaxAuto \in Nat
    /\ MaxFaults \in Nat
    /\ MaxCrashes \in Nat
    /\ SlowSteps \in BOOLEAN
    /\ Slots \cap Passes = {}

VARIABLES
    status,     \* source_artifacts.ingestion_status; "none": not inserted yet
    meta,       \* metadata.processing: reason, autoRetryCount, intelligence.status
    fresh,      \* updatedAt is at most RECOVERABLE_PROCESSING_AGE_MS old
    fragment,   \* a memory_fragments row exists (unique on source_artifact_id)
    job,        \* artifact-processing jobs
    ijob,       \* intelligence jobs, whose job id is the artifact id
    pc, art, jb, snap, plan, todo,     \* the processors
    ipc, iart, isnap, ires,            \* the intelligence slots
    rpc, rart,                         \* the requests
    faults, crashes,                   \* used budgets
    overtaken   \* history: the claim of a live processor was overridden

row     == <<status, meta, fresh>>
procs   == <<pc, art, jb, snap, plan, todo>>
iprocs  == <<ipc, iart, isnap, ires>>
reqs    == <<rpc, rart>>
budgets == <<faults, crashes>>
vars    == <<row, fragment, job, ijob, procs, iprocs, reqs, budgets, overtaken>>

Status == {"none", "queued", "pending", "processing", "completed", "failed"}
Intel  == {"none", "queued", "processing", "completed", "failed"}
Meta   == [retrying : BOOLEAN, auto : 0..MaxAuto, intel : Intel]
JobState  == {"absent", "waiting", "active"}
IJobState == {"absent", "waiting", "active", "completed", "failed"}

\* A processor owns its artifact from its claim to the write of the outcome.
HoldPcs == {"read", "store", "index", "indexing", "enqueue", "complete"}
\* Inside the try block: an unexpected error is a non-retryable failure.
TryPcs  == HoldPcs \cup {"claim", "audit_retry", "audit"}
\* Inside the catch block: an unexpected error fails the BullMQ attempt.
CatchPcs == {"retryable", "plan", "sched_read", "sched_write", "sched_enqueue",
             "dead_read", "dead_write", "dead_throw",
             "fatal_read", "fatal_write", "tail"}
Pcs  == {"idle", "scan"} \cup TryPcs \cup CatchPcs
IPcs == {"idle", "load", "mark", "extract", "final_read", "final_write", "report"}
RPcs == {"idle", "write", "enqueue_upload", "enqueue_retry", "done"}

\* withProcessingState replaces the whole processing object.
Replaced(retrying, intel) == [retrying |-> retrying, auto |-> 0, intel |-> intel]
Fresh == Replaced(FALSE, "none")

NoJob == [state |-> "absent", art |-> 0, attempts |-> 0, stalled |-> FALSE]
NewJob(a) == [state |-> "waiting", art |-> a, attempts |-> 0, stalled |-> FALSE]
NoIJob == [state |-> "absent", attempts |-> 0, stalled |-> FALSE]

Holders(a) == {w \in Processors : art[w] = a /\ pc[w] \in HoldPcs}

Init ==
    /\ status = [a \in Artifacts |-> "none"]
    /\ meta = [a \in Artifacts |-> Fresh]
    /\ fresh = [a \in Artifacts |-> TRUE]
    /\ fragment = [a \in Artifacts |-> FALSE]
    /\ job = [j \in Jobs |-> NoJob]
    /\ ijob = [a \in Artifacts |-> NoIJob]
    /\ pc = [w \in Processors |-> "idle"]
    /\ art = [w \in Processors |-> 0]
    /\ jb = [w \in Slots |-> AnyJob]
    /\ snap = [w \in Slots |-> Fresh]
    /\ plan = [w \in Slots |-> 0]
    /\ todo = [p \in Passes |-> {}]
    /\ ipc = [i \in ISlots |-> "idle"]
    /\ iart = [i \in ISlots |-> 0]
    /\ isnap = [i \in ISlots |-> Fresh]
    /\ ires = [i \in ISlots |-> "none"]
    /\ rpc = [r \in Requests |-> "idle"]
    /\ rart = [r \in Requests |-> 0]
    /\ faults = 0
    /\ crashes = 0
    /\ overtaken = [a \in Artifacts |-> FALSE]

-----------------------------------------------------------------------------
(* Writes to the row, and the ends of a processor's visit *)

\* repository markArtifact: an UPDATE by id, whatever the current status is
Mark(a, s, m) ==
    /\ status' = [status EXCEPT ![a] = s]
    /\ meta' = [meta EXCEPT ![a] = m]
    /\ fresh' = [fresh EXCEPT ![a] = TRUE]

Goto(w, label) == pc' = [pc EXCEPT ![w] = label]

\* The slot is free again; its local variables are gone.
Free(w) ==
    /\ pc' = [pc EXCEPT ![w] = "idle"]
    /\ art' = [art EXCEPT ![w] = 0]
    /\ jb' = [jb EXCEPT ![w] = AnyJob]
    /\ snap' = [snap EXCEPT ![w] = Fresh]
    /\ plan' = [plan EXCEPT ![w] = 0]

\* The handler returns: BullMQ completes the job, whose id is never used again.
JobReturns(w) ==
    /\ Free(w)
    /\ job' = [job EXCEPT ![jb[w]] = NoJob]
    /\ UNCHANGED todo

\* The handler throws: BullMQ makes another attempt or gives the job up.
JobThrows(w) ==
    LET j == job[jb[w]] IN
    /\ Free(w)
    /\ job' = [job EXCEPT ![jb[w]] =
                 IF j.attempts + 1 < MaxAttempts
                 THEN [j EXCEPT !.state = "waiting", !.attempts = @ + 1]
                 ELSE NoJob]
    /\ UNCHANGED todo

\* processArtifact or recoverArtifact returns an outcome.
VisitEnds(w) ==
    \/ /\ w \in Slots
       /\ JobReturns(w)
    \/ /\ w \in Passes
       /\ Goto(w, "scan")
       /\ art' = [art EXCEPT ![w] = 0]
       /\ UNCHANGED <<job, jb, snap, plan, todo>>

\* A non-retryable error leaves processClaimedArtifact: the job handler catches
\* it, a reconciler pass is abandoned with the rows it had still to visit.
VisitFails(w) ==
    \/ /\ w \in Slots
       /\ Goto(w, "fatal_read")
       /\ UNCHANGED <<job, art, jb, snap, plan, todo>>
    \/ /\ w \in Passes
       /\ Goto(w, "idle")
       /\ art' = [art EXCEPT ![w] = 0]
       /\ todo' = [todo EXCEPT ![w] = {}]
       /\ UNCHANGED <<job, jb, snap, plan>>

Locals == <<art, jb, snap, plan, todo>>
Others == <<ijob, iprocs, reqs, crashes>>   \* what a processor step leaves alone

-----------------------------------------------------------------------------
(* API requests: upload, and retry by the user *)

\* insertQueuedSourceArtifact
Upload(r, a) ==
    /\ rpc[r] = "idle"
    /\ status[a] = "none"
    /\ \A b \in Artifacts : b < a => status[b] # "none"
    /\ Mark(a, "queued", Fresh)
    /\ rpc' = [rpc EXCEPT ![r] = "enqueue_upload"]
    /\ rart' = [rart EXCEPT ![r] = a]
    /\ UNCHANGED <<fragment, job, ijob, procs, iprocs, budgets, overtaken>>

\* handleArtifactRetry reads the row and checks it.
RetryRead(r, a) ==
    /\ rpc[r] = "idle"
    /\ status[a] # "none"
    /\ status[a] = "failed" \/ meta[a].retrying
    /\ rpc' = [rpc EXCEPT ![r] = "write"]
    /\ rart' = [rart EXCEPT ![r] = a]
    /\ UNCHANGED <<row, fragment, job, ijob, procs, iprocs, budgets, overtaken>>

\* updateArtifactForRetry: the UPDATE does not repeat the check.
RetryWrite(r) ==
    /\ rpc[r] = "write"
    /\ Mark(rart[r], "queued", Fresh)
    /\ overtaken' = [overtaken EXCEPT ![rart[r]] = @ \/ Holders(rart[r]) # {}]
    /\ rpc' = [rpc EXCEPT ![r] = "enqueue_retry"]
    /\ UNCHANGED <<fragment, job, ijob, procs, iprocs, rart, budgets>>

\* The enqueue may fail: the request only reports a warning.
RequestEnqueue(r) ==
    /\ rpc[r] \in {"enqueue_upload", "enqueue_retry"}
    /\ \/ /\ \E j \in Jobs :
               /\ job[j].state = "absent"
               /\ job' = [job EXCEPT ![j] = NewJob(rart[r])]
          /\ UNCHANGED faults
       \/ /\ faults < MaxFaults
          /\ faults' = faults + 1
          /\ UNCHANGED job
    /\ rpc' = [rpc EXCEPT ![r] = "done"]
    /\ UNCHANGED <<row, fragment, ijob, procs, iprocs, rart, crashes, overtaken>>

-----------------------------------------------------------------------------
(* Taking work: the job handler and the reconciler pass *)

TakeJob(w, j) ==
    /\ pc[w] = "idle"
    /\ job[j].state = "waiting"
    /\ job' = [job EXCEPT ![j].state = "active"]
    /\ Goto(w, "claim")
    /\ art' = [art EXCEPT ![w] = job[j].art]
    /\ jb' = [jb EXCEPT ![w] = j]
    /\ UNCHANGED <<row, fragment, snap, plan, todo, faults, overtaken, Others>>

\* findQueuedArtifacts: the oldest ScanLimit unfinished rows
Unfinished == {a \in Artifacts : status[a] \in {"queued", "pending", "processing"}}
Oldest(S) == {a \in S : Cardinality({b \in S : b < a}) < ScanLimit}

Scan(p) ==
    /\ pc[p] = "idle"
    /\ Unfinished # {}
    /\ Goto(p, "scan")
    /\ todo' = [todo EXCEPT ![p] = Oldest(Unfinished)]
    /\ UNCHANGED <<row, fragment, job, art, jb, snap, plan, faults, overtaken, Others>>

Visit(p, a) ==
    /\ pc[p] = "scan"
    /\ a \in todo[p]
    /\ \A b \in todo[p] : a <= b
    /\ Goto(p, "claim")
    /\ art' = [art EXCEPT ![p] = a]
    /\ todo' = [todo EXCEPT ![p] = @ \ {a}]
    /\ UNCHANGED <<row, fragment, job, jb, snap, plan, faults, overtaken, Others>>

ScanEnds(p) ==
    /\ pc[p] = "scan"
    /\ todo[p] = {}
    /\ Goto(p, "idle")
    /\ UNCHANGED <<row, fragment, job, Locals, faults, overtaken, Others>>

\* Mutant: the claim does not look at the age of a "processing" row.
ClaimableAtAnyAge(w, a) == status[a] \in {"queued", "pending", "processing"}

\* Mutant: nobody takes over a "processing" row.
ClaimableOnce(w, a) == status[a] \in {"queued", "pending"}

\* claimArtifact; a reconciler pass also takes over a stale "processing" row.
Claimable(w, a) ==
    \/ status[a] \in {"queued", "pending"}
    \/ /\ w \in Passes
       /\ status[a] = "processing"
       /\ ~fresh[a]

Claim(w) ==
    /\ pc[w] = "claim"
    /\ Claimable(w, art[w])
    /\ status' = [status EXCEPT ![art[w]] = "processing"]
    /\ fresh' = [fresh EXCEPT ![art[w]] = TRUE]
    /\ overtaken' = [overtaken EXCEPT ![art[w]] =
                       @ \/ (/\ status[art[w]] = "processing"
                             /\ ~fresh[art[w]]
                             /\ Holders(art[w]) # {})]
    /\ Goto(w, "read")
    /\ UNCHANGED <<meta, fragment, job, Locals, faults, Others>>

SkipClaim(w) ==
    /\ pc[w] = "claim"
    /\ ~Claimable(w, art[w])
    /\ VisitEnds(w)
    /\ UNCHANGED <<row, fragment, faults, overtaken, Others>>

-----------------------------------------------------------------------------
(* processClaimedArtifact *)

\* Mutant: the row keeps its status while it waits.
HoldBackUnmarked(w) ==
    /\ pc[w] = "read"
    /\ art[w] \in Unserved
    /\ Goto(w, "audit")
    /\ UNCHANGED <<row, fragment, job, Locals, faults, overtaken, Others>>

\* A configured component is missing: the artifact waits for it.
HoldBack(w) ==
    /\ pc[w] = "read"
    /\ art[w] \in Unserved
    /\ Mark(art[w], "pending", Fresh)
    /\ Goto(w, "audit")
    /\ UNCHANGED <<fragment, job, Locals, faults, overtaken, Others>>

\* handleDecryptionRetry: a transient failure to read the private payload
ReadTransient(w) ==
    /\ pc[w] = "read"
    /\ faults < MaxFaults
    /\ faults' = faults + 1
    /\ Mark(art[w], "pending", Replaced(TRUE, "none"))
    /\ Goto(w, "audit_retry")
    /\ UNCHANGED <<fragment, job, Locals, overtaken, Others>>

\* The payload cannot be decrypted, transcribed or parsed.
Reject(w) ==
    /\ pc[w] = "read"
    /\ Mark(art[w], "failed", Fresh)
    /\ Goto(w, "audit")
    /\ UNCHANGED <<fragment, job, Locals, faults, overtaken, Others>>

\* processEncryptedParsedContent returns "failed" without writing the row.
RejectSilently(w) ==
    /\ pc[w] = "read"
    /\ art[w] \in Unexplained \ Unserved
    /\ Goto(w, "audit")
    /\ UNCHANGED <<row, fragment, job, Locals, faults, overtaken, Others>>

\* Mutant: the fragment is taken to be there.
FindFragmentAlways(w) ==
    /\ pc[w] = "read"
    /\ art[w] \notin Unserved
    /\ Goto(w, "index")
    /\ UNCHANGED <<row, fragment, job, Locals, faults, overtaken, Others>>

\* getOrCreateMemoryFragment looks for the fragment ...
FindFragment(w) ==
    /\ pc[w] = "read"
    /\ art[w] \notin Unserved
    /\ Goto(w, IF fragment[art[w]] THEN "index" ELSE "store")
    /\ UNCHANGED <<row, fragment, job, Locals, faults, overtaken, Others>>

\* ... stores the ciphertext and inserts the row.
InsertFragment(w) ==
    /\ pc[w] = "store"
    /\ ~fragment[art[w]]
    /\ fragment' = [fragment EXCEPT ![art[w]] = TRUE]
    /\ Goto(w, "index")
    /\ UNCHANGED <<row, job, Locals, faults, overtaken, Others>>

\* Another processor inserted it first: the unique index rejects the row.
InsertConflict(w) ==
    /\ pc[w] = "store"
    /\ fragment[art[w]]
    /\ VisitFails(w)
    /\ UNCHANGED <<row, fragment, faults, overtaken, Others>>

\* markDocumentIndexingProgress, before and after every embedded batch
IndexProgress(w) ==
    /\ pc[w] \in {"index", "indexing"}
    /\ art[w] \in Documents
    /\ Mark(art[w], "processing", Fresh)
    /\ Goto(w, "indexing")
    /\ UNCHANGED <<fragment, job, Locals, faults, overtaken, Others>>

IndexDone(w) ==
    /\ pc[w] = IF art[w] \in Documents THEN "indexing" ELSE "index"
    /\ Goto(w, "enqueue")
    /\ UNCHANGED <<row, fragment, job, Locals, faults, overtaken, Others>>

\* queueIntelligenceProcessing: BullMQ ignores a job whose id is already there.
EnqueueIntelligence(w) ==
    /\ pc[w] = "enqueue"
    /\ ijob' = [ijob EXCEPT ![art[w]] =
                  IF @.state = "absent" THEN [@ EXCEPT !.state = "waiting"] ELSE @]
    /\ Goto(w, "complete")
    /\ UNCHANGED <<row, fragment, job, Locals, iprocs, reqs, budgets, overtaken>>

\* markArtifactCompleted, with the intelligence state of the enqueue
Complete(w) ==
    /\ pc[w] = "complete"
    /\ Mark(art[w], "completed", Replaced(FALSE, "queued"))
    /\ Goto(w, "audit")
    /\ UNCHANGED <<fragment, job, Locals, faults, overtaken, Others>>

\* The audit event is written, the status published, and the visit ends.
Report(w) ==
    /\ pc[w] = "audit"
    /\ VisitEnds(w)
    /\ UNCHANGED <<row, fragment, faults, overtaken, Others>>

\* handleDecryptionRetry throws RetryableArtifactProcessingError; the
\* reconciler counts it as "pending" and goes on.
ThrowRetryable(w) ==
    /\ pc[w] = "audit_retry"
    /\ \/ /\ w \in Slots
          /\ Goto(w, "retryable")
          /\ UNCHANGED <<job, Locals>>
       \/ /\ w \in Passes
          /\ VisitEnds(w)
    /\ UNCHANGED <<row, fragment, faults, overtaken, Others>>

\* Any database, storage or Redis call of the try block may throw.
TryFault(w) ==
    /\ pc[w] \in TryPcs
    /\ faults < MaxFaults
    /\ faults' = faults + 1
    /\ VisitFails(w)
    /\ UNCHANGED <<row, fragment, overtaken, Others>>

-----------------------------------------------------------------------------
(* The catch block of runArtifactProcessingJob *)

\* markNonRetryableArtifactFailure reads the row ...
FatalRead(w) ==
    /\ pc[w] = "fatal_read"
    /\ snap' = [snap EXCEPT ![w] = meta[art[w]]]
    /\ Goto(w, "fatal_write")
    /\ UNCHANGED <<row, fragment, job, art, jb, plan, todo, faults, overtaken, Others>>

\* ... and writes it back as failed, keeping what it read.
FatalWrite(w) ==
    /\ pc[w] = "fatal_write"
    /\ Mark(art[w], "failed", [snap[w] EXCEPT !.retrying = FALSE])
    /\ Goto(w, "tail")
    /\ UNCHANGED <<fragment, job, Locals, faults, overtaken, Others>>

\* handleRetryableArtifactError: before the last attempt it publishes
\* "pending" and returns "will_retry", and the handler returns normally.
WillRetry(w) ==
    /\ pc[w] = "retryable"
    /\ job[jb[w]].attempts + 1 < MaxAttempts
    /\ Goto(w, "tail")
    /\ UNCHANGED <<row, fragment, job, Locals, faults, overtaken, Others>>

Exhausted(w) ==
    /\ pc[w] = "retryable"
    /\ job[jb[w]].attempts + 1 >= MaxAttempts
    /\ Goto(w, "plan")
    /\ UNCHANGED <<row, fragment, job, Locals, faults, overtaken, Others>>

\* Mutant: one automatic retry too many.
PlanRetryOnceMore(w) ==
    /\ pc[w] = "plan"
    /\ LET count == meta[art[w]].auto IN
       IF count <= MaxAuto
       THEN /\ plan' = [plan EXCEPT ![w] = count + 1]
            /\ Goto(w, "sched_read")
       ELSE /\ Goto(w, "dead_read")
            /\ UNCHANGED plan
    /\ UNCHANGED <<row, fragment, job, art, jb, snap, todo, faults, overtaken, Others>>

\* nextAutomaticRetry over the count found in the row
PlanRetry(w) ==
    /\ pc[w] = "plan"
    /\ LET count == meta[art[w]].auto IN
       IF count < MaxAuto
       THEN /\ plan' = [plan EXCEPT ![w] = count + 1]
            /\ Goto(w, "sched_read")
       ELSE /\ Goto(w, "dead_read")
            /\ UNCHANGED plan
    /\ UNCHANGED <<row, fragment, job, art, jb, snap, todo, faults, overtaken, Others>>

\* scheduleArtifactAutoRetry and markArtifactDeadLetter read the row again.
CatchRead(w) ==
    /\ pc[w] \in {"sched_read", "dead_read"}
    /\ snap' = [snap EXCEPT ![w] = meta[art[w]]]
    /\ Goto(w, IF pc[w] = "sched_read" THEN "sched_write" ELSE "dead_write")
    /\ UNCHANGED <<row, fragment, job, art, jb, plan, todo, faults, overtaken, Others>>

ScheduleWrite(w) ==
    /\ pc[w] = "sched_write"
    /\ Mark(art[w], "pending", [snap[w] EXCEPT !.retrying = TRUE, !.auto = plan[w]])
    /\ overtaken' = [overtaken EXCEPT ![art[w]] = @ \/ Holders(art[w]) # {}]
    /\ Goto(w, "sched_enqueue")
    /\ UNCHANGED <<fragment, job, Locals, faults, Others>>

\* The delayed retry is a new job, under a job id of its own.
ScheduleEnqueue(w) ==
    /\ pc[w] = "sched_enqueue"
    /\ \E j \in Jobs :
          /\ job[j].state = "absent"
          /\ job' = [job EXCEPT ![j] = NewJob(art[w])]
    /\ Goto(w, "tail")
    /\ UNCHANGED <<row, fragment, Locals, faults, overtaken, Others>>

DeadLetterWrite(w) ==
    /\ pc[w] = "dead_write"
    /\ Mark(art[w], "failed", [snap[w] EXCEPT !.retrying = FALSE])
    /\ Goto(w, "dead_throw")
    /\ UNCHANGED <<fragment, job, Locals, faults, overtaken, Others>>

\* The status is published and the handler returns.
CatchReturns(w) ==
    /\ pc[w] = "tail"
    /\ JobReturns(w)
    /\ UNCHANGED <<row, fragment, faults, overtaken, Others>>

\* Only the outcome "dead_letter" is thrown again.
DeadLetterThrow(w) ==
    /\ pc[w] = "dead_throw"
    /\ JobThrows(w)
    /\ UNCHANGED <<row, fragment, faults, overtaken, Others>>

\* A call of the catch block throws: the attempt fails.
CatchFault(w) ==
    /\ pc[w] \in CatchPcs
    /\ faults < MaxFaults
    /\ faults' = faults + 1
    /\ JobThrows(w)
    /\ UNCHANGED <<row, fragment, overtaken, Others>>

-----------------------------------------------------------------------------
(* processArtifactIntelligence *)

IGoto(i, label) == ipc' = [ipc EXCEPT ![i] = label]

IFree(i) ==
    /\ ipc' = [ipc EXCEPT ![i] = "idle"]
    /\ iart' = [iart EXCEPT ![i] = 0]
    /\ isnap' = [isnap EXCEPT ![i] = Fresh]
    /\ ires' = [ires EXCEPT ![i] = "none"]

IJobThrows(i) ==
    LET j == ijob[iart[i]] IN
    /\ IFree(i)
    /\ ijob' = [ijob EXCEPT ![iart[i]] =
                  [j EXCEPT !.state = IF j.attempts + 1 < MaxAttempts
                                      THEN "waiting" ELSE "failed",
                            !.attempts = @ + 1]]

NotI == <<job, procs, reqs, crashes, overtaken>>  \* what an intelligence step leaves alone

TakeIntelligence(i, a) ==
    /\ ipc[i] = "idle"
    /\ ijob[a].state = "waiting"
    /\ ijob' = [ijob EXCEPT ![a].state = "active"]
    /\ IGoto(i, "load")
    /\ iart' = [iart EXCEPT ![i] = a]
    /\ UNCHANGED <<row, fragment, isnap, ires, faults, NotI>>

\* loadArtifactIntelligenceContext
LoadContext(i) ==
    /\ ipc[i] = "load"
    /\ fragment[iart[i]]
    /\ isnap' = [isnap EXCEPT ![i] = meta[iart[i]]]
    /\ IGoto(i, "mark")
    /\ UNCHANGED <<row, fragment, ijob, iart, ires, faults, NotI>>

\* markArtifactIntelligenceProcessing writes the row as completed.
MarkIntelligence(i) ==
    /\ ipc[i] = "mark"
    /\ Mark(iart[i], "completed", [isnap[i] EXCEPT !.intel = "processing"])
    /\ IGoto(i, "extract")
    /\ UNCHANGED <<fragment, ijob, iart, isnap, ires, faults, NotI>>

\* The extractors report their failures as a result.
Extract(i) ==
    /\ ipc[i] = "extract"
    /\ \/ /\ ires' = [ires EXCEPT ![i] = "completed"]
          /\ UNCHANGED faults
       \/ /\ faults < MaxFaults
          /\ faults' = faults + 1
          /\ ires' = [ires EXCEPT ![i] = "failed"]
    /\ IGoto(i, "final_read")
    /\ UNCHANGED <<row, fragment, ijob, iart, isnap, NotI>>

\* finalizeArtifactIntelligence
FinalRead(i) ==
    /\ ipc[i] = "final_read"
    /\ isnap' = [isnap EXCEPT ![i] = meta[iart[i]]]
    /\ IGoto(i, "final_write")
    /\ UNCHANGED <<row, fragment, ijob, iart, ires, faults, NotI>>

FinalWrite(i) ==
    /\ ipc[i] = "final_write"
    /\ Mark(iart[i], "completed", [isnap[i] EXCEPT !.intel = ires[i]])
    /\ IGoto(i, "report")
    /\ UNCHANGED <<fragment, ijob, iart, isnap, ires, faults, NotI>>

\* throwIfArtifactIntelligenceFailed, or the status is published
IntelligenceReturns(i) ==
    /\ ipc[i] = "report"
    /\ \/ /\ ires[i] = "completed"
          /\ IFree(i)
          /\ ijob' = [ijob EXCEPT ![iart[i]].state = "completed"]
       \/ /\ ires[i] = "failed"
          /\ IJobThrows(i)
    /\ UNCHANGED <<row, fragment, faults, NotI>>

\* The reader, the database or Redis throws; loading an artifact that has no
\* fragment always does.
IntelligenceFault(i) ==
    LET missing == ipc[i] = "load" /\ ~fragment[iart[i]] IN
    /\ ipc[i] # "idle"
    /\ missing \/ faults < MaxFaults
    /\ faults' = IF missing THEN faults ELSE faults + 1
    /\ IJobThrows(i)
    /\ UNCHANGED <<row, fragment, NotI>>

-----------------------------------------------------------------------------
(* Time and crashes *)

Held(a) == Holders(a) # {} \/ \E i \in ISlots : iart[i] = a

\* Five minutes pass without a write to a "processing" row.
Age(a) ==
    /\ status[a] = "processing"
    /\ fresh[a]
    /\ SlowSteps \/ ~Held(a)
    /\ fresh' = [fresh EXCEPT ![a] = FALSE]
    /\ UNCHANGED <<status, meta, fragment, job, ijob, procs, iprocs, reqs, budgets, overtaken>>

\* BullMQ returns a stalled job to the queue once; a second stall fails it.
Recovered(j) ==
    IF j.state # "active" THEN j
    ELSE [j EXCEPT !.state = IF j.stalled THEN "failed" ELSE "waiting",
                   !.stalled = TRUE]

Crash ==
    /\ crashes < MaxCrashes
    /\ crashes' = crashes + 1
    /\ job' = [j \in Jobs |-> IF Recovered(job[j]).state = "failed"
                              THEN NoJob ELSE Recovered(job[j])]
    /\ ijob' = [a \in Artifacts |-> Recovered(ijob[a])]
    /\ pc' = [w \in Processors |-> "idle"]
    /\ art' = [w \in Processors |-> 0]
    /\ jb' = [w \in Slots |-> AnyJob]
    /\ snap' = [w \in Slots |-> Fresh]
    /\ plan' = [w \in Slots |-> 0]
    /\ todo' = [p \in Passes |-> {}]
    /\ ipc' = [i \in ISlots |-> "idle"]
    /\ iart' = [i \in ISlots |-> 0]
    /\ isnap' = [i \in ISlots |-> Fresh]
    /\ ires' = [i \in ISlots |-> "none"]
    /\ UNCHANGED <<row, fragment, reqs, faults, overtaken>>

-----------------------------------------------------------------------------
(* The specification *)

ProcessorStep(w) ==
    \/ Claim(w) \/ SkipClaim(w)
    \/ HoldBack(w) \/ ReadTransient(w) \/ Reject(w) \/ RejectSilently(w)
    \/ FindFragment(w) \/ InsertFragment(w) \/ InsertConflict(w)
    \/ IndexProgress(w) \/ IndexDone(w)
    \/ EnqueueIntelligence(w) \/ Complete(w) \/ Report(w)
    \/ ThrowRetryable(w) \/ TryFault(w)

CatchStep(w) ==
    \/ FatalRead(w) \/ FatalWrite(w)
    \/ WillRetry(w) \/ Exhausted(w) \/ PlanRetry(w)
    \/ CatchRead(w) \/ ScheduleWrite(w) \/ ScheduleEnqueue(w)
    \/ DeadLetterWrite(w) \/ DeadLetterThrow(w)
    \/ CatchReturns(w) \/ CatchFault(w)

PassStep(p) == Scan(p) \/ ScanEnds(p) \/ \E a \in Artifacts : Visit(p, a)

IntelligenceStep(i) ==
    \/ LoadContext(i) \/ MarkIntelligence(i) \/ Extract(i)
    \/ FinalRead(i) \/ FinalWrite(i) \/ IntelligenceReturns(i) \/ IntelligenceFault(i)

RequestStep(r) ==
    \/ \E a \in Artifacts : Upload(r, a) \/ RetryRead(r, a)
    \/ RetryWrite(r) \/ RequestEnqueue(r)

Next ==
    \/ \E r \in Requests : RequestStep(r)
    \/ \E w \in Slots, j \in Jobs : TakeJob(w, j)
    \/ \E p \in Passes : PassStep(p)
    \/ \E w \in Processors : ProcessorStep(w)
    \/ \E w \in Slots : CatchStep(w)
    \/ \E i \in ISlots, a \in Artifacts : TakeIntelligence(i, a)
    \/ \E i \in ISlots : IntelligenceStep(i)
    \/ \E a \in Artifacts : Age(a)
    \/ Crash

Spec == Init /\ [][Next]_vars

\* Worker loops and timers keep running: every step of a processor that is not
\* a failure is eventually taken, rows age, and a reconciler pass starts again.
\* Nothing makes users send requests, processes crash or calls fail.
Fairness ==
    /\ \A r \in Requests : WF_vars(RetryWrite(r) \/ RequestEnqueue(r))
    /\ \A w \in Slots, j \in Jobs : WF_vars(TakeJob(w, j))
    /\ \A p \in Passes : WF_vars(PassStep(p))
    /\ \A w \in Processors :
          /\ WF_vars(ProcessorStep(w))
          /\ WF_vars(IndexDone(w))
    /\ \A w \in Slots : WF_vars(CatchStep(w))
    /\ \A i \in ISlots, a \in Artifacts : WF_vars(TakeIntelligence(i, a))
    /\ \A i \in ISlots : WF_vars(IntelligenceStep(i))
    /\ \A a \in Artifacts : WF_vars(Age(a))

FairSpec == Spec /\ Fairness

-----------------------------------------------------------------------------
(* Properties *)

RowOK ==
    /\ status \in [Artifacts -> Status]
    /\ meta \in [Artifacts -> Meta]
    /\ fresh \in [Artifacts -> BOOLEAN]

JobOK ==
    job \in [Jobs -> [state : JobState, art : Artifacts \cup {0},
                      attempts : 0..MaxAttempts, stalled : BOOLEAN]]

ProcOK ==
    /\ pc \in [Processors -> Pcs]
    /\ art \in [Processors -> Artifacts \cup {0}]
    /\ jb \in [Slots -> Jobs]
    /\ snap \in [Slots -> Meta]
    /\ plan \in [Slots -> 0..MaxAuto]
    /\ todo \in [Passes -> SUBSET Artifacts]

IntelOK ==
    /\ ijob \in [Artifacts -> [state : IJobState, attempts : 0..MaxAttempts,
                               stalled : BOOLEAN]]
    /\ ipc \in [ISlots -> IPcs]
    /\ iart \in [ISlots -> Artifacts \cup {0}]
    /\ isnap \in [ISlots -> Meta]
    /\ ires \in [ISlots -> {"none", "completed", "failed"}]

RestOK ==
    /\ fragment \in [Artifacts -> BOOLEAN]
    /\ rpc \in [Requests -> RPcs]
    /\ rart \in [Requests -> Artifacts \cup {0}]
    /\ faults \in 0..MaxFaults
    /\ crashes \in 0..MaxCrashes
    /\ overtaken \in [Artifacts -> BOOLEAN]

\* The values the handlers and the queue hold: attempts stay within the job's
\* attempts, and the retry count within the table of delays.
TypeOK == RowOK /\ JobOK /\ ProcOK /\ IntelOK /\ RestOK

\* Two processors work on one artifact at a time only after its claim was
\* overridden: by the five-minute rule against a live processor, by a user
\* retry, or by an automatic retry scheduled late.  Job retries, overlapping
\* reconciler passes and crashes never lead to it.
SingleHolder ==
    \A a \in Artifacts : ~overtaken[a] =>
        \A v, w \in Holders(a) : v = w

\* "available" is only shown for an artifact that has its memory fragment,
\* whichever of the processors and intelligence jobs wrote the row last.
CompletedHasFragment ==
    \A a \in Artifacts : status[a] = "completed" => fragment[a]

\* An uploaded artifact is eventually settled, and settled for good: completed
\* or failed, or pending when a component it needs is not configured.
Settles ==
    \A a \in Artifacts :
        status[a] # "none" ~>
            [](status[a] \in {"completed", "failed"} \/ a \in Unserved)

\* An artifact that waits for a missing component is shown as pending, even
\* after the job or the pass that took it was lost.
UnservedWaits ==
    \A a \in Unserved :
        [](status[a] = "queued" => <>(status[a] \in {"pending", "failed"}))

\* A status of "queued" for the intelligence of a completed artifact means
\* that there is a job to carry it out.
QueuedIntelligenceHasJob ==
    \A a \in Artifacts :
        (status[a] = "completed" /\ meta[a].intel = "queued") =>
            ijob[a].state \in {"waiting", "active"}

\* An intelligence stage shown as processing ends in completed or failed.
IntelligenceEnds ==
    \A a \in Artifacts :
        (status[a] = "completed" /\ meta[a].intel = "processing") ~>
            (meta[a].intel # "processing")

\* A retry that is still going on never loses count of the automatic retries.
BackoffAdvances ==
    [][\A a \in Artifacts :
         (meta[a].auto > 0 /\ status'[a] = "pending" /\ meta'[a].retrying) =>
             meta'[a].auto >= meta[a].auto]_vars

\* A completed artifact is not shown as failed.
CompletedIsKept ==
    [][\A a \in Artifacts : status[a] = "completed" => status'[a] # "failed"]_vars

=============================================================================
