-------------------------- MODULE CandidateArchive --------------------------
(***************************************************************************)
(* How the memories extracted from one fragment are archived: an attempt   *)
(* of its intelligence job (the extraction) writes candidate rows and an   *)
(* archive row that holds their encrypted batch, and enqueues a job named  *)
(* after the row; the archive worker stores the batch and then points the  *)
(* candidates at it; a reconciler pass enqueues the rows that are due.     *)
(*                                                                         *)
(* Encryption is randomised, so every attempt makes an archive row of its  *)
(* own.  The archive columns of a candidate that no code reads back are    *)
(* left out; what is kept is the batch its row was last written from (its  *)
(* metadata.statementIndex counts in that batch) and the batch its         *)
(* statementStorageRef names.                                              *)
(***************************************************************************)
EXTENDS Naturals, FiniteSets

CONSTANTS
    B,            \* bound: extraction attempts (at most the job's attempts)
    Cands,        \* candidate memories of the fragment
    Slots,        \* concurrency slots of the archive worker (1 by default)
    Passes,       \* reconciler passes that may overlap
    MaxAttempts,  \* artifactJobOptions.attempts (3 in the code)
    MaxFaults,    \* bound: failed calls in one behaviour
    MaxBalance,   \* bound: stores refused because the wallet has no balance
    MaxCrashes,   \* bound: crashes of the worker process
    Evicts        \* may a completed job leave the 1000 that BullMQ keeps?

Batches == 1..B

ASSUME ArchiveAssumption ==
    /\ B \in Nat
    /\ MaxAttempts \in Nat \ {0}
    /\ MaxFaults \in Nat
    /\ MaxBalance \in Nat
    /\ MaxCrashes \in Nat
    /\ Evicts \in BOOLEAN

VARIABLES
    archive,    \* candidate_memory_archives: status, and whether it may be retried now
    found,      \* the candidate ids of a batch
    blob,       \* the batch is in durable storage
    cand,       \* candidate_memories: batch written from, batch referred to
    job,        \* archive jobs, whose job id is the archive's id
    artifact,   \* metadata.processing: intelligence.status, candidateMemoryArchive
    epc, eb, eleft, esnap, eres,    \* the extraction
    wpc, wb, wleft, wmeta, wsnap,   \* the worker's slots
    rpc, rb, rtodo,                 \* the reconciler passes
    faults, balance, crashes        \* used budgets

extraction == <<epc, eb, eleft, esnap, eres>>
worker     == <<wpc, wb, wleft, wmeta, wsnap>>
recon      == <<rpc, rb, rtodo>>
budgets    == <<faults, balance, crashes>>
vars == <<archive, found, blob, cand, job, artifact,
          extraction, worker, recon, budgets>>

ArchiveStatus == {"none", "pending", "queued", "archiving", "archived",
                  "failed_retryable", "failed_blocked"}
Artifact == [intel : {"queued", "processing", "completed", "failed"}, notice : BOOLEAN]
Waiting == [intel |-> "queued", notice |-> FALSE]

NoJob == [state |-> "absent", attempts |-> 0, stalled |-> FALSE]

InMemoryExtraction == {"persist", "create", "enqueue", "queued"}
EPcs == {"waiting", "mark", "extract", "final_read", "final_write", "report", "done"}
        \cup InMemoryExtraction
WPcs == {"idle", "mark", "store", "ok_read", "ok_cands", "ok_row", "audit",
         "failed_read", "failed_cands", "failed_row", "failed_audit",
         "blocked_read", "blocked_cands", "blocked_row", "art_read", "art_write"}
RPcs == {"idle", "scan", "enqueue", "queued"}

Init ==
    /\ archive = [b \in Batches |-> [status |-> "none", due |-> FALSE]]
    /\ found = [b \in Batches |-> {}]
    /\ blob = [b \in Batches |-> FALSE]
    /\ cand = [c \in Cands |-> [batch |-> 0, ref |-> 0]]
    /\ job = [b \in Batches |-> NoJob]
    /\ artifact = Waiting
    /\ epc = "waiting" /\ eb = 0 /\ eleft = {} /\ esnap = Waiting /\ eres = "completed"
    /\ wpc = [s \in Slots |-> "idle"]
    /\ wb = [s \in Slots |-> 0]
    /\ wleft = [s \in Slots |-> {}]
    /\ wmeta = [s \in Slots |-> [c \in Cands |-> 0]]
    /\ wsnap = [s \in Slots |-> Waiting]
    /\ rpc = [p \in Passes |-> "idle"]
    /\ rb = [p \in Passes |-> 0]
    /\ rtodo = [p \in Passes |-> {}]
    /\ faults = 0 /\ balance = 0 /\ crashes = 0

-----------------------------------------------------------------------------
(* Writes to the archive row, and the queue *)

\* A failure sets nextRetryAt a minute ahead; the other writes clear or keep it.
SetArchive(b, status) ==
    archive' = [archive EXCEPT ![b].status = status]

\* queue.add: nothing happens when a job of that id is there in any state.
Enqueue(b) ==
    job' = [job EXCEPT ![b].state = IF @ = "absent" THEN "waiting" ELSE @]

\* markCandidateMemoryArchiveQueued, whatever the row's status is
MarkQueued(b) == archive' = [archive EXCEPT ![b] = [status |-> "queued", due |-> TRUE]]

-----------------------------------------------------------------------------
(* The extraction: processArtifactIntelligence around processMemoryExtraction *)

EGoto(label) == epc' = label

\* what an extraction step leaves alone
NotE == <<blob, worker, recon, balance, crashes>>

LoadContext ==
    /\ epc = "waiting"
    /\ eb < B
    /\ eb' = eb + 1
    /\ esnap' = artifact
    /\ EGoto("mark")
    /\ UNCHANGED <<archive, found, cand, job, artifact, eleft, eres, faults, NotE>>

\* markArtifactIntelligenceProcessing
MarkIntelligence ==
    /\ epc = "mark"
    /\ artifact' = [esnap EXCEPT !.intel = "processing"]
    /\ EGoto("extract")
    /\ UNCHANGED <<archive, found, cand, job, eb, eleft, esnap, eres, faults, NotE>>

\* The entity extraction may fail; the memories it goes on to extract are
\* encrypted as one batch, unless there are none.
Extract(ids) ==
    /\ epc = "extract"
    /\ \/ /\ eres' = "completed"
          /\ UNCHANGED faults
       \/ /\ faults < MaxFaults
          /\ faults' = faults + 1
          /\ eres' = "failed"
    /\ found' = [found EXCEPT ![eb] = ids]
    /\ eleft' = ids
    /\ EGoto(IF ids = {} THEN "final_read" ELSE "persist")
    /\ UNCHANGED <<archive, cand, job, artifact, eb, esnap, NotE>>

\* createCandidateMemory inserts the row or rewrites the one that is there.
Persist(c) ==
    /\ epc = "persist"
    /\ c \in eleft
    /\ cand' = [cand EXCEPT ![c] = [batch |-> eb, ref |-> 0]]
    /\ eleft' = eleft \ {c}
    /\ EGoto(IF eleft = {c} THEN "create" ELSE "persist")
    /\ UNCHANGED <<archive, found, job, artifact, eb, esnap, eres, faults, NotE>>

\* createCandidateMemoryArchive
CreateArchive ==
    /\ epc = "create"
    /\ archive' = [archive EXCEPT ![eb] = [status |-> "pending", due |-> TRUE]]
    /\ EGoto("enqueue")
    /\ UNCHANGED <<found, cand, job, artifact, eb, eleft, esnap, eres, faults, NotE>>

EnqueueArchive ==
    /\ epc = "enqueue"
    /\ Enqueue(eb)
    /\ EGoto("queued")
    /\ UNCHANGED <<archive, found, cand, artifact, eb, eleft, esnap, eres, faults, NotE>>

MarkArchiveQueued ==
    /\ epc = "queued"
    /\ MarkQueued(eb)
    /\ EGoto("final_read")
    /\ UNCHANGED <<found, cand, job, artifact, eb, eleft, esnap, eres, faults, NotE>>

\* finalizeArtifactIntelligence reads the artifact and writes it back.
FinalRead ==
    /\ epc = "final_read"
    /\ esnap' = artifact
    /\ EGoto("final_write")
    /\ UNCHANGED <<archive, found, cand, job, artifact, eb, eleft, eres, faults, NotE>>

FinalWrite ==
    /\ epc = "final_write"
    /\ artifact' = [esnap EXCEPT !.intel = eres]
    /\ EGoto("report")
    /\ UNCHANGED <<archive, found, cand, job, eb, eleft, esnap, eres, faults, NotE>>

\* throwIfArtifactIntelligenceFailed: a failed attempt is made again.
ExtractionEnds ==
    /\ epc = "report"
    /\ EGoto(IF eres = "completed" THEN "done" ELSE "waiting")
    /\ eleft' = {}
    /\ UNCHANGED <<archive, found, cand, job, artifact, eb, esnap, eres, faults, NotE>>

\* Inside processMemoryExtraction an error becomes the result "failed";
\* outside it fails the attempt.
ExtractionFault ==
    /\ epc \notin {"waiting", "report", "done"}
    /\ faults < MaxFaults
    /\ faults' = faults + 1
    /\ IF epc \in InMemoryExtraction \cup {"extract"}
       THEN eres' = "failed" /\ EGoto("final_read")
       ELSE EGoto("waiting") /\ UNCHANGED eres
    /\ eleft' = {}
    /\ UNCHANGED <<archive, found, cand, job, artifact, eb, esnap, NotE>>

-----------------------------------------------------------------------------
(* The archive worker: processCandidateMemoryArchive *)

WGoto(s, label) == wpc' = [wpc EXCEPT ![s] = label]

\* what a worker step leaves alone
NotW == <<found, extraction, recon, crashes>>

WFree(s) ==
    /\ WGoto(s, "idle")
    /\ wb' = [wb EXCEPT ![s] = 0]
    /\ wleft' = [wleft EXCEPT ![s] = {}]
    /\ wmeta' = [wmeta EXCEPT ![s] = [c \in Cands |-> 0]]
    /\ wsnap' = [wsnap EXCEPT ![s] = Waiting]

\* The handler throws: BullMQ makes another attempt or gives the job up.
WJobThrows(s) ==
    LET j == job[wb[s]] IN
    /\ WFree(s)
    /\ job' = [job EXCEPT ![wb[s]] =
                 [j EXCEPT !.state = IF j.attempts + 1 < MaxAttempts
                                     THEN "waiting" ELSE "failed",
                           !.attempts = @ + 1]]

Take(s, b) ==
    /\ wpc[s] = "idle"
    /\ job[b].state = "waiting"
    /\ job' = [job EXCEPT ![b].state = "active"]
    /\ wb' = [wb EXCEPT ![s] = b]
    /\ WGoto(s, "mark")
    /\ UNCHANGED <<archive, blob, cand, artifact, wleft, wmeta, wsnap, faults, balance, NotW>>

\* Mutant: the candidates are pointed at the batch before it is stored.
MarkArchivingSwapped(s) ==
    /\ wpc[s] = "mark"
    /\ SetArchive(wb[s], "archiving")
    /\ WGoto(s, "ok_read")
    /\ UNCHANGED <<blob, cand, job, artifact, wb, wleft, wmeta, wsnap, faults, balance, NotW>>

\* markCandidateMemoryArchiveArchiving
MarkArchiving(s) ==
    /\ wpc[s] = "mark"
    /\ SetArchive(wb[s], "archiving")
    /\ WGoto(s, "store")
    /\ UNCHANGED <<blob, cand, job, artifact, wb, wleft, wmeta, wsnap, faults, balance, NotW>>

\* Mutant: the archive row is completed before the candidates.
StoreBatchRowFirst(s) ==
    /\ wpc[s] = "store"
    /\ blob' = [blob EXCEPT ![wb[s]] = TRUE]
    /\ SetArchive(wb[s], "archived")
    /\ WGoto(s, "ok_read")
    /\ UNCHANGED <<cand, job, artifact, wb, wleft, wmeta, wsnap, faults, balance, NotW>>

\* storeEncryptedPrivateFragment succeeds.
StoreBatch(s) ==
    /\ wpc[s] = "store"
    /\ blob' = [blob EXCEPT ![wb[s]] = TRUE]
    /\ WGoto(s, "ok_read")
    /\ UNCHANGED <<archive, cand, job, artifact, wb, wleft, wmeta, wsnap, faults, balance, NotW>>

\* It fails, perhaps after the bytes were stored: the read-back check is part of it.
StoreFails(s) ==
    /\ wpc[s] = "store"
    /\ faults < MaxFaults
    /\ faults' = faults + 1
    /\ \/ blob' = [blob EXCEPT ![wb[s]] = TRUE]
       \/ UNCHANGED blob
    /\ WGoto(s, "failed_read")
    /\ UNCHANGED <<archive, cand, job, artifact, wb, wleft, wmeta, wsnap, balance, NotW>>

\* walrus_insufficient_balance
StoreRefused(s) ==
    /\ wpc[s] = "store"
    /\ balance < MaxBalance
    /\ balance' = balance + 1
    /\ WGoto(s, "blocked_read")
    /\ UNCHANGED <<archive, blob, cand, job, artifact, wb, wleft, wmeta, wsnap, faults, NotW>>

\* markCandidateMemoriesArchived and markCandidateMemoriesArchiveFailed read
\* the metadata of the job's candidates ...
ReadCandidates(s) ==
    /\ wpc[s] \in {"ok_read", "failed_read", "blocked_read"}
    /\ wmeta' = [wmeta EXCEPT ![s] = [c \in Cands |-> cand[c].batch]]
    /\ wleft' = [wleft EXCEPT ![s] = found[wb[s]]]
    /\ WGoto(s, CASE wpc[s] = "ok_read" -> "ok_cands"
                  [] wpc[s] = "failed_read" -> "failed_cands"
                  [] OTHER -> "blocked_cands")
    /\ UNCHANGED <<archive, blob, cand, job, artifact, wb, wsnap, faults, balance, NotW>>

\* ... and write them back one by one, on success with the stored reference ...
PointCandidate(s, c) ==
    /\ wpc[s] = "ok_cands"
    /\ c \in wleft[s]
    /\ cand' = [cand EXCEPT ![c] = [batch |-> wmeta[s][c], ref |-> wb[s]]]
    /\ wleft' = [wleft EXCEPT ![s] = @ \ {c}]
    /\ WGoto(s, IF wleft[s] = {c} THEN "ok_row" ELSE "ok_cands")
    /\ UNCHANGED <<archive, blob, job, artifact, wb, wmeta, wsnap, faults, balance, NotW>>

NoteCandidate(s, c) ==
    /\ wpc[s] \in {"failed_cands", "blocked_cands"}
    /\ c \in wleft[s]
    /\ cand' = [cand EXCEPT ![c].batch = wmeta[s][c]]
    /\ wleft' = [wleft EXCEPT ![s] = @ \ {c}]
    /\ WGoto(s, IF wleft[s] # {c} THEN wpc[s]
                ELSE IF wpc[s] = "failed_cands" THEN "failed_row" ELSE "blocked_row")
    /\ UNCHANGED <<archive, blob, job, artifact, wb, wmeta, wsnap, faults, balance, NotW>>

\* ... and then the archive row.
MarkArchived(s) ==
    /\ wpc[s] = "ok_row"
    /\ archive' = [archive EXCEPT ![wb[s]] = [status |-> "archived", due |-> TRUE]]
    /\ WGoto(s, "audit")
    /\ UNCHANGED <<blob, cand, job, artifact, wb, wleft, wmeta, wsnap, faults, balance, NotW>>

\* The audit event is written and the handler returns; a refused store is
\* reported to the browser and counts as a finished job.
WorkerReturns(s) ==
    /\ wpc[s] = "audit"
    /\ WFree(s)
    /\ job' = [job EXCEPT ![wb[s]].state = "completed"]
    /\ UNCHANGED <<archive, blob, cand, artifact, faults, balance, NotW>>

\* Mutant: the status of the job is written to the row.
MarkFailedAsJob(s) ==
    /\ wpc[s] = "failed_row"
    /\ archive' = [archive EXCEPT ![wb[s]] = [status |-> "failed", due |-> FALSE]]
    /\ WGoto(s, "failed_audit")
    /\ UNCHANGED <<blob, cand, job, artifact, wb, wleft, wmeta, wsnap, faults, balance, NotW>>

\* recordRetryableCandidateArchiveFailure
MarkFailedRetryable(s) ==
    /\ wpc[s] = "failed_row"
    /\ archive' = [archive EXCEPT ![wb[s]] = [status |-> "failed_retryable", due |-> FALSE]]
    /\ WGoto(s, "failed_audit")
    /\ UNCHANGED <<blob, cand, job, artifact, wb, wleft, wmeta, wsnap, faults, balance, NotW>>

WorkerThrows(s) ==
    /\ wpc[s] = "failed_audit"
    /\ WJobThrows(s)
    /\ UNCHANGED <<archive, blob, cand, artifact, faults, balance, NotW>>

\* markCandidateMemoriesArchiveFailed for a refused store
MarkFailedBlocked(s) ==
    /\ wpc[s] = "blocked_row"
    /\ archive' = [archive EXCEPT ![wb[s]] = [status |-> "failed_blocked", due |-> FALSE]]
    /\ WGoto(s, "art_read")
    /\ UNCHANGED <<blob, cand, job, artifact, wb, wleft, wmeta, wsnap, faults, balance, NotW>>

\* The artifact is read and written back with candidateMemoryArchive set.
NoticeRead(s) ==
    /\ wpc[s] = "art_read"
    /\ wsnap' = [wsnap EXCEPT ![s] = artifact]
    /\ WGoto(s, "art_write")
    /\ UNCHANGED <<archive, blob, cand, job, artifact, wb, wleft, wmeta, faults, balance, NotW>>

NoticeWrite(s) ==
    /\ wpc[s] = "art_write"
    /\ artifact' = [wsnap[s] EXCEPT !.notice = TRUE]
    /\ WGoto(s, "audit")
    /\ UNCHANGED <<archive, blob, cand, job, wb, wleft, wmeta, wsnap, faults, balance, NotW>>

\* Any other call of the handler throws: the attempt fails.
WorkerFault(s) ==
    /\ wpc[s] \notin {"idle", "store"}
    /\ faults < MaxFaults
    /\ faults' = faults + 1
    /\ WJobThrows(s)
    /\ UNCHANGED <<archive, blob, cand, artifact, balance, NotW>>

-----------------------------------------------------------------------------
(* The reconciler: enqueueDueCandidateMemoryArchives *)

RGoto(p, label) == rpc' = [rpc EXCEPT ![p] = label]

\* what a reconciler step leaves alone
NotR == <<found, blob, cand, artifact, extraction, worker, balance, crashes>>

\* Mutant: only failed archives are looked for.
DueFailedOnly(b) ==
    /\ archive[b].status \in {"failed_retryable", "failed_blocked"}
    /\ archive[b].due

\* findDueCandidateMemoryArchives
Due(b) ==
    /\ archive[b].status \in {"pending", "failed_retryable", "failed_blocked"}
    /\ archive[b].due

Scan(p) ==
    /\ rpc[p] = "idle"
    /\ \E b \in Batches : Due(b)
    /\ rtodo' = [rtodo EXCEPT ![p] = {b \in Batches : Due(b)}]
    /\ RGoto(p, "scan")
    /\ UNCHANGED <<archive, job, rb, faults, NotR>>

Visit(p, b) ==
    /\ rpc[p] = "scan"
    /\ b \in rtodo[p]
    /\ \A d \in rtodo[p] : b <= d
    /\ rb' = [rb EXCEPT ![p] = b]
    /\ rtodo' = [rtodo EXCEPT ![p] = @ \ {b}]
    /\ RGoto(p, "enqueue")
    /\ UNCHANGED <<archive, job, faults, NotR>>

Requeue(p) ==
    /\ rpc[p] = "enqueue"
    /\ Enqueue(rb[p])
    /\ RGoto(p, "queued")
    /\ UNCHANGED <<archive, rb, rtodo, faults, NotR>>

MarkRequeued(p) ==
    /\ rpc[p] = "queued"
    /\ MarkQueued(rb[p])
    /\ RGoto(p, "scan")
    /\ UNCHANGED <<job, rb, rtodo, faults, NotR>>

\* A failure is counted and the pass goes on with the next row.
RequeueFault(p) ==
    /\ rpc[p] \in {"enqueue", "queued"}
    /\ faults < MaxFaults
    /\ faults' = faults + 1
    /\ RGoto(p, "scan")
    /\ UNCHANGED <<archive, job, rb, rtodo, NotR>>

ScanEnds(p) ==
    /\ rpc[p] = "scan"
    /\ rtodo[p] = {}
    /\ rb' = [rb EXCEPT ![p] = 0]
    /\ RGoto(p, "idle")
    /\ UNCHANGED <<archive, job, rtodo, faults, NotR>>

-----------------------------------------------------------------------------
(* Time, the queue's retention and crashes *)

\* nextRetryAt passes.
BecomesDue(b) ==
    /\ archive[b].status \in {"failed_retryable", "failed_blocked"}
    /\ ~archive[b].due
    /\ archive' = [archive EXCEPT ![b].due = TRUE]
    /\ UNCHANGED <<found, blob, cand, job, artifact, extraction, worker, recon, budgets>>

\* removeOnComplete: a thousand later jobs push a completed one out.
Evict(b) ==
    /\ Evicts
    /\ job[b].state = "completed"
    /\ job' = [job EXCEPT ![b] = NoJob]
    /\ UNCHANGED <<archive, found, blob, cand, artifact, extraction, worker, recon, budgets>>

\* BullMQ returns a stalled job to the queue once; a second stall fails it.
Recovered(j) ==
    IF j.state # "active" THEN j
    ELSE [j EXCEPT !.state = IF j.stalled THEN "failed" ELSE "waiting",
                   !.stalled = TRUE]

Crash ==
    /\ crashes < MaxCrashes
    /\ crashes' = crashes + 1
    /\ job' = [b \in Batches |-> Recovered(job[b])]
    /\ epc' = IF epc = "done" THEN epc ELSE "waiting"
    /\ eleft' = {}
    /\ wpc' = [s \in Slots |-> "idle"]
    /\ wb' = [s \in Slots |-> 0]
    /\ wleft' = [s \in Slots |-> {}]
    /\ wmeta' = [s \in Slots |-> [c \in Cands |-> 0]]
    /\ wsnap' = [s \in Slots |-> Waiting]
    /\ rpc' = [p \in Passes |-> "idle"]
    /\ rb' = [p \in Passes |-> 0]
    /\ rtodo' = [p \in Passes |-> {}]
    /\ UNCHANGED <<archive, found, blob, cand, artifact, eb, esnap, eres, faults, balance>>

-----------------------------------------------------------------------------
(* The specification *)

ExtractionStep ==
    \/ LoadContext \/ MarkIntelligence
    \/ \E ids \in SUBSET Cands : Extract(ids)
    \/ \E c \in Cands : Persist(c)
    \/ CreateArchive \/ EnqueueArchive \/ MarkArchiveQueued
    \/ FinalRead \/ FinalWrite \/ ExtractionEnds \/ ExtractionFault

WorkerStep(s) ==
    \/ MarkArchiving(s)
    \/ StoreBatch(s) \/ StoreFails(s) \/ StoreRefused(s)
    \/ ReadCandidates(s)
    \/ \E c \in Cands : PointCandidate(s, c) \/ NoteCandidate(s, c)
    \/ MarkArchived(s) \/ WorkerReturns(s)
    \/ MarkFailedRetryable(s) \/ WorkerThrows(s)
    \/ MarkFailedBlocked(s) \/ NoticeRead(s) \/ NoticeWrite(s)
    \/ WorkerFault(s)

PassStep(p) ==
    \/ Scan(p) \/ \E b \in Batches : Visit(p, b)
    \/ Requeue(p) \/ MarkRequeued(p) \/ RequeueFault(p) \/ ScanEnds(p)

Next ==
    \/ ExtractionStep
    \/ \E s \in Slots, b \in Batches : Take(s, b)
    \/ \E s \in Slots : WorkerStep(s)
    \/ \E p \in Passes : PassStep(p)
    \/ \E b \in Batches : BecomesDue(b) \/ Evict(b)
    \/ Crash

Spec == Init /\ [][Next]_vars

\* The worker takes the jobs that wait, a handler that runs goes on, the
\* reconciler's timer keeps firing, and nextRetryAt passes.
Fairness ==
    /\ WF_vars(ExtractionStep)
    /\ \A s \in Slots, b \in Batches : SF_vars(Take(s, b))
    /\ \A s \in Slots : WF_vars(WorkerStep(s))
    /\ \A p \in Passes : WF_vars(PassStep(p))
    /\ \A b \in Batches : WF_vars(BecomesDue(b))

FairSpec == Spec /\ Fairness

-----------------------------------------------------------------------------
(* Properties *)

ExtractionOK ==
    /\ epc \in EPcs
    /\ eb \in 0..B
    /\ eleft \in SUBSET Cands
    /\ esnap \in Artifact
    /\ eres \in {"completed", "failed"}

WorkerOK ==
    /\ wpc \in [Slots -> WPcs]
    /\ wb \in [Slots -> 0..B]
    /\ wleft \in [Slots -> SUBSET Cands]
    /\ wmeta \in [Slots -> [Cands -> 0..B]]
    /\ wsnap \in [Slots -> Artifact]

ReconOK ==
    /\ rpc \in [Passes -> RPcs]
    /\ rb \in [Passes -> 0..B]
    /\ rtodo \in [Passes -> SUBSET Batches]

TablesOK ==
    /\ archive \in [Batches -> [status : ArchiveStatus, due : BOOLEAN]]
    /\ found \in [Batches -> SUBSET Cands]
    /\ blob \in [Batches -> BOOLEAN]
    /\ cand \in [Cands -> [batch : 0..B, ref : 0..B]]
    /\ job \in [Batches -> [state : {"absent", "waiting", "active", "completed", "failed"},
                            attempts : 0..MaxAttempts, stalled : BOOLEAN]]
    /\ artifact \in Artifact

\* The rows and the job hold statuses their readers know, the attempts stay
\* within artifactJobOptions.attempts.
TypeOK ==
    /\ TablesOK /\ ExtractionOK /\ WorkerOK /\ ReconOK
    /\ faults \in 0..MaxFaults /\ balance \in 0..MaxBalance /\ crashes \in 0..MaxCrashes

FoundAgain(b, c) == \E d \in Batches : d > b /\ c \in found[d]

\* An archive row says "archived" only when every memory of its batch can be
\* read, unless a later extraction has found the memory again.
ArchivedIsReadable ==
    \A b \in Batches : archive[b].status = "archived" =>
        \A c \in found[b] : cand[c].ref # 0 \/ FoundAgain(b, c)

Held(b) == archive[b].status # "none"

Delivery == INSTANCE ArchiveDelivery WITH
    contents <- [b \in Batches |-> IF Held(b) THEN found[b] ELSE {}],
    stored <- {b \in Batches : blob[b]},
    point <- [c \in Cands |-> cand[c].ref]

\* A memory only refers to a stored batch that contains it.
DeliverySafe == Delivery!Safe

\* Every batch written to the database reaches durable storage.
DeliveryLive == Delivery!Delivers

\* An archive that is shown as queued does not stay queued.
QueuedMoves ==
    \A b \in Batches :
        archive[b].status = "queued" ~> archive[b].status # "queued"

\* An archive shown as archived stays so.
ArchivedStays ==
    [][\A b \in Batches :
         archive[b].status = "archived" => archive'[b].status = "archived"]_vars

\* Intelligence that is shown as completed is not shown as processing again.
IntelligenceKept == [][artifact.intel = "completed" => artifact'.intel = "completed"]_vars

\* A memory's statement is read from the batch that its row counts in.
StatementIsOwn ==
    \A c \in Cands :
        cand[c].ref # 0 ~> (cand[c].ref = 0 \/ cand[c].ref = cand[c].batch)

=============================================================================
