----------------------- MODULE CandidateArchive_proofs ----------------------
(***************************************************************************)
(* What a run of CandidateArchive never does, for every number of attempts *)
(* of the extraction, candidates, slots, reconciler passes, faults and     *)
(* crashes: TypeOK and ArchivedIsReadable are invariants, and every step   *)
(* is a step of ArchiveDelivery or changes nothing it sees (DeliverySafe). *)
(*                                                                         *)
(* The refinement needs to know that a row is only made for memories that  *)
(* were found (Numbered), that jobs, slots and passes only name batches    *)
(* that have a row (JobOwned, PassOwned), and that a slot past the store   *)
(* points candidates at a stored batch of theirs (StoredFirst).            *)
(* ArchivedIsReadable also needs what a slot in the middle of its          *)
(* candidates has already done (PointedFirst).                             *)
(***************************************************************************)
EXTENDS CandidateArchive, TLAPS

\* A batch has a row only once its memories are found; an attempt that has not
\* got so far has neither.
Numbered ==
    /\ \A b \in Batches : Held(b) => found[b] # {} /\ b <= eb
    /\ \A b \in Batches : b > eb => found[b] = {}
    /\ epc \in {"mark", "extract"} => eb # 0 /\ found[eb] = {}
    /\ epc \in {"persist", "create"} => eb # 0 /\ ~Held(eb) /\ found[eb] # {}
    /\ epc = "persist" => eleft \subseteq found[eb]
    /\ epc \in {"enqueue", "queued"} => eb # 0 /\ Held(eb)

\* A busy slot holds an active job of its own, of a batch that has a row; a job
\* that may still run has an attempt left.
JobOwned ==
    /\ \A b \in Batches : job[b].state # "absent" => Held(b)
    /\ \A b \in Batches : job[b].state = "absent" => job[b].attempts = 0
    /\ \A b \in Batches : job[b].state \in {"waiting", "active"} =>
                             job[b].attempts < MaxAttempts
    /\ \A s \in Slots : wpc[s] # "idle" =>
                             wb[s] \in Batches /\ job[wb[s]].state = "active"
    /\ \A s, t \in Slots : wpc[s] # "idle" /\ wpc[t] # "idle" /\ wb[s] = wb[t] => s = t

\* A reconciler pass works on batches that have a row.
PassOwned ==
    /\ \A p \in Passes : \A b \in rtodo[p] : Held(b)
    /\ \A p \in Passes : rpc[p] \in {"enqueue", "queued"} =>
                             rb[p] \in Batches /\ Held(rb[p])

\* Past the store, a slot's batch is in durable storage, and the memories it
\* points at it are those of the batch.
StoredFirst ==
    /\ \A s \in Slots : wpc[s] \in {"ok_read", "ok_cands", "ok_row"} => blob[wb[s]]
    /\ \A s \in Slots : wpc[s] = "ok_cands" => wleft[s] \subseteq found[wb[s]]

\* The memories a slot is done with can be read, or were found again since.
PointedFirst ==
    \A s \in Slots : \A c \in Cands :
        \/ wpc[s] = "ok_cands" /\ c \in found[wb[s]] \ wleft[s]
        \/ wpc[s] = "ok_row" /\ c \in found[wb[s]]
        => cand[c].ref # 0 \/ FoundAgain(wb[s], c)

IInv ==
    /\ TypeOK /\ Numbered /\ JobOwned /\ PassOwned
    /\ StoredFirst /\ ArchivedIsReadable /\ PointedFirst

-----------------------------------------------------------------------------
(* Types *)

BudgetsOK == faults \in 0..MaxFaults /\ balance \in 0..MaxBalance /\ crashes \in 0..MaxCrashes

\* The job record of an attempt that ends while attempts are left.
LEMMA ThrowsFacts ==
    ASSUME TypeOK, JobOwned, NEW s \in Slots, wpc[s] # "idle", WJobThrows(s)
    PROVE  /\ wb[s] \in Batches
           /\ \A b \in Batches : b # wb[s] => job'[b] = job[b]
           /\ job'[wb[s]] = [state |-> IF job[wb[s]].attempts + 1 < MaxAttempts
                                       THEN "waiting" ELSE "failed",
                             attempts |-> job[wb[s]].attempts + 1,
                             stalled |-> job[wb[s]].stalled]
           /\ job[wb[s]].attempts + 1 \in 1..MaxAttempts
           /\ DOMAIN job' = Batches
           /\ WFree(s)
  <1>1. wb[s] \in Batches /\ job[wb[s]].attempts < MaxAttempts /\ job[wb[s]].attempts \in Nat
    BY ArchiveAssumption DEF TypeOK, TablesOK, JobOwned
  <1>2. job[wb[s]].attempts + 1 \in 1..MaxAttempts
    BY <1>1, ArchiveAssumption
  <1>3. DOMAIN job = Batches /\ DOMAIN job[wb[s]] = {"state", "attempts", "stalled"}
    BY <1>1 DEF TypeOK, TablesOK
  <1>4. QED
    BY <1>1, <1>2, <1>3 DEF WJobThrows

JobRecord == [state : {"absent", "waiting", "active", "completed", "failed"},
              attempts : 0..MaxAttempts, stalled : BOOLEAN]

\* An enqueue makes a job of the batch wait when there is none, and no other.
LEMMA EnqueueFacts ==
    ASSUME TypeOK, NEW b \in Batches, Enqueue(b)
    PROVE  /\ job' \in [Batches -> JobRecord]
           /\ \A d \in Batches : d # b => job'[d] = job[d]
           /\ job'[b].attempts = job[b].attempts
           /\ job'[b].state = IF job[b].state = "absent" THEN "waiting" ELSE job[b].state
  <1>1. job \in [Batches -> JobRecord]
    BY DEF TypeOK, TablesOK, JobRecord
  <1>2. job' = [job EXCEPT ![b] = [job[b] EXCEPT !.state =
                                     IF @ = "absent" THEN "waiting" ELSE @]]
    BY <1>1 DEF Enqueue
  <1>3. [job[b] EXCEPT !.state = IF @ = "absent" THEN "waiting" ELSE @] \in JobRecord
    BY <1>1 DEF JobRecord
  <1>4. QED
    BY <1>1, <1>2, <1>3 DEF JobRecord

\* The tables, budgets and every process keep their types in a step of the extraction.
LEMMA TypeExtraction ==
    ASSUME TypeOK, Numbered, ExtractionStep
    PROVE  TypeOK'
  <1> USE ArchiveAssumption DEF TypeOK, TablesOK, ExtractionOK, Artifact, ArchiveStatus,
          EPcs, InMemoryExtraction, NotE, EGoto
  <1>1. WorkerOK' /\ ReconOK' /\ balance' = balance /\ crashes' = crashes /\ blob' = blob
    BY DEF ExtractionStep, LoadContext, MarkIntelligence, Extract, Persist, CreateArchive,
           EnqueueArchive, MarkArchiveQueued, FinalRead, FinalWrite, ExtractionEnds,
           ExtractionFault, worker, recon, WorkerOK, ReconOK
  <1>2. CASE LoadContext
    BY <1>1, <1>2 DEF LoadContext
  <1>3. CASE MarkIntelligence
    BY <1>1, <1>3 DEF MarkIntelligence
  <1>4. ASSUME NEW ids \in SUBSET Cands, Extract(ids)
        PROVE  TypeOK'
    <2>0. faults' \in 0..MaxFaults
      BY <1>4 DEF Extract
    <2>1. found' \in [Batches -> SUBSET Cands]
      BY <1>4 DEF Extract
    <2>2. ExtractionOK'
      BY <1>4 DEF Extract
    <2>3. QED
      BY <1>1, <1>4, <2>0, <2>1, <2>2 DEF Extract
  <1>5. ASSUME NEW c \in Cands, Persist(c)
        PROVE  TypeOK'
    BY <1>1, <1>5 DEF Persist
  <1>6. CASE CreateArchive
    BY <1>1, <1>6 DEF CreateArchive
  <1>7. CASE EnqueueArchive
    <2>1. eb \in Batches
      BY <1>7 DEF EnqueueArchive, Numbered, Batches
    <2>2. job' \in [Batches -> JobRecord]
      BY <1>7, <2>1, EnqueueFacts DEF EnqueueArchive
    <2>3. QED
      BY <1>1, <1>7, <2>2 DEF EnqueueArchive, JobRecord
  <1>8. CASE MarkArchiveQueued
    BY <1>1, <1>8 DEF MarkArchiveQueued, MarkQueued
  <1>9. CASE FinalRead
    BY <1>1, <1>9 DEF FinalRead
  <1>10. CASE FinalWrite
    BY <1>1, <1>10 DEF FinalWrite
  <1>11. CASE ExtractionEnds
    BY <1>1, <1>11 DEF ExtractionEnds
  <1>12. CASE ExtractionFault
    BY <1>1, <1>12 DEF ExtractionFault
  <1>13. QED
    BY <1>2, <1>3, <1>4, <1>5, <1>6, <1>7, <1>8, <1>9, <1>10, <1>11, <1>12 DEF ExtractionStep

\* A step of a slot keeps the types.
LEMMA TypeWorker ==
    ASSUME TypeOK, JobOwned, NEW s \in Slots, WorkerStep(s)
    PROVE  TypeOK'
  <1> USE DEF NotW, WGoto
  <1>1. ExtractionOK' /\ ReconOK' /\ crashes' = crashes /\ found' = found
    BY DEF TypeOK, WorkerStep, MarkArchiving, StoreBatch, StoreFails, StoreRefused, ReadCandidates,
           PointCandidate, NoteCandidate, MarkArchived, WorkerReturns, MarkFailedRetryable,
           WorkerThrows, MarkFailedBlocked, NoticeRead, NoticeWrite, WorkerFault,
           extraction, recon, ExtractionOK, ReconOK
  <1>2. wpc[s] # "idle"
    BY DEF WorkerStep, MarkArchiving, StoreBatch, StoreFails, StoreRefused, ReadCandidates,
           PointCandidate, NoteCandidate, MarkArchived, WorkerReturns, MarkFailedRetryable,
           WorkerThrows, MarkFailedBlocked, NoticeRead, NoticeWrite, WorkerFault
  <1>3. wb[s] \in Batches /\ wb[s] \in 0..B
    BY <1>2, ArchiveAssumption DEF JobOwned, Batches
  <1>4. WorkerOK'
    <2> USE DEF WorkerOK, WPcs
    <2>1. WFree(s) => WorkerOK'
      BY ArchiveAssumption DEF TypeOK, WFree, Waiting, Artifact
    <2>2. CASE \/ MarkArchiving(s) \/ StoreBatch(s) \/ StoreFails(s) \/ StoreRefused(s)
               \/ MarkArchived(s) \/ MarkFailedRetryable(s) \/ MarkFailedBlocked(s)
               \/ NoticeRead(s) \/ NoticeWrite(s)
      <3>1. wpc' \in [Slots -> WPcs]
        BY <2>2 DEF TypeOK, MarkArchiving, StoreBatch, StoreFails, StoreRefused, MarkArchived,
           MarkFailedRetryable, MarkFailedBlocked, NoticeRead, NoticeWrite
      <3>2. wsnap' \in [Slots -> Artifact]
        BY <2>2 DEF TypeOK, TablesOK, MarkArchiving, StoreBatch, StoreFails, StoreRefused,
           MarkArchived, MarkFailedRetryable, MarkFailedBlocked, NoticeRead, NoticeWrite
      <3>3. QED
        BY <2>2, <3>1, <3>2 DEF TypeOK, MarkArchiving, StoreBatch, StoreFails, StoreRefused,
           MarkArchived, MarkFailedRetryable, MarkFailedBlocked, NoticeRead, NoticeWrite
    <2>3. CASE ReadCandidates(s)
      BY <1>3, <2>3 DEF TypeOK, ReadCandidates, TablesOK
    <2>4. ASSUME NEW c \in Cands, PointCandidate(s, c) \/ NoteCandidate(s, c)
          PROVE  WorkerOK'
      <3>1. CASE PointCandidate(s, c)
        BY <3>1 DEF TypeOK, PointCandidate
      <3>2. CASE NoteCandidate(s, c)
        BY <3>2 DEF TypeOK, NoteCandidate
      <3>3. QED
        BY <2>4, <3>1, <3>2
    <2>5. CASE WorkerReturns(s) \/ WorkerThrows(s) \/ WorkerFault(s)
      BY <2>1, <2>5 DEF WorkerReturns, WorkerThrows, WorkerFault, WJobThrows
    <2>6. QED
      BY <2>2, <2>3, <2>4, <2>5 DEF WorkerStep
  <1>5. TablesOK'
    <2>1. CASE MarkArchiving(s) \/ MarkArchived(s) \/ MarkFailedRetryable(s) \/ MarkFailedBlocked(s)
      <3>1. archive' \in [Batches -> [status : ArchiveStatus, due : BOOLEAN]]
        <4>1. archive[wb[s]] \in [status : ArchiveStatus, due : BOOLEAN]
          BY <1>3 DEF TypeOK, TablesOK
        <4>2. \A x \in ArchiveStatus : SetArchive(wb[s], x) =>
                 archive' \in [Batches -> [status : ArchiveStatus, due : BOOLEAN]]
          BY <1>3, <4>1 DEF TypeOK, TablesOK, SetArchive
        <4>3. CASE MarkArchiving(s)
          BY <4>2, <4>3 DEF MarkArchiving, ArchiveStatus
        <4>4. CASE MarkArchived(s) \/ MarkFailedRetryable(s) \/ MarkFailedBlocked(s)
          <5>1. CASE MarkArchived(s)
            BY <5>1 DEF TypeOK, TablesOK, MarkArchived, ArchiveStatus
          <5>2. CASE MarkFailedRetryable(s)
            BY <5>2 DEF TypeOK, TablesOK, MarkFailedRetryable, ArchiveStatus
          <5>3. CASE MarkFailedBlocked(s)
            BY <5>3 DEF TypeOK, TablesOK, MarkFailedBlocked, ArchiveStatus
          <5>4. QED
            BY <5>1, <5>2, <5>3, <4>4
        <4>5. QED
          BY <2>1, <4>3, <4>4
      <3>2. QED
        BY <1>1, <2>1, <3>1 DEF TypeOK, TablesOK, MarkArchiving, MarkArchived, MarkFailedRetryable,
           MarkFailedBlocked
    <2>2. CASE StoreBatch(s) \/ StoreFails(s) \/ StoreRefused(s)
      BY <1>1, <2>2 DEF TypeOK, TablesOK, StoreBatch, StoreFails, StoreRefused
    <2>3. CASE ReadCandidates(s) \/ NoticeRead(s)
      BY <1>1, <2>3 DEF TypeOK, TablesOK, ReadCandidates, NoticeRead
    <2>4. ASSUME NEW c \in Cands, PointCandidate(s, c) \/ NoteCandidate(s, c)
          PROVE  TablesOK'
      <3>1. wmeta[s][c] \in 0..B
        BY DEF TypeOK, WorkerOK
      <3>2. cand' \in [Cands -> [batch : 0..B, ref : 0..B]]
        BY <1>3, <2>4, <3>1, SMTT(30) DEF TypeOK, TablesOK, PointCandidate, NoteCandidate
      <3>3. QED
        BY <1>1, <2>4, <3>2 DEF TypeOK, TablesOK, PointCandidate, NoteCandidate
    <2>5. CASE WorkerReturns(s)
      BY <1>1, <2>5, ZenonT(30) DEF TypeOK, TablesOK, WorkerReturns
    <2>6. CASE WorkerThrows(s) \/ WorkerFault(s)
      <3>1. job' \in [Batches -> [state : {"absent", "waiting", "active", "completed", "failed"},
                                  attempts : 0..MaxAttempts, stalled : BOOLEAN]]
        <4>1. WJobThrows(s) /\ job \in [Batches -> JobRecord]
          BY <2>6 DEF WorkerThrows, WorkerFault, TypeOK, TablesOK, JobRecord
        <4>2. job'[wb[s]] \in JobRecord
          <5>1. job[wb[s]].stalled \in BOOLEAN
            BY <1>3, <4>1 DEF JobRecord
          <5>2. job[wb[s]].attempts + 1 \in 0..MaxAttempts
            <6>1. job[wb[s]].attempts + 1 \in 1..MaxAttempts
              BY <1>2, <4>1, ThrowsFacts
            <6>2. QED
              BY <6>1
          <5>3. job'[wb[s]] = [state |-> IF job[wb[s]].attempts + 1 < MaxAttempts
                                         THEN "waiting" ELSE "failed",
                               attempts |-> job[wb[s]].attempts + 1,
                               stalled |-> job[wb[s]].stalled]
            BY <1>2, <4>1, ThrowsFacts
          <5>4. QED
            BY <5>1, <5>2, <5>3 DEF JobRecord
        <4>3. job' = [job EXCEPT ![wb[s]] = job'[wb[s]]]
          BY <1>3, <4>1 DEF WJobThrows
        <4>4. QED
          BY <4>1, <4>2, <4>3 DEF JobRecord
      <3>2. QED
        BY <1>1, <2>6, <3>1 DEF TypeOK, TablesOK, WorkerThrows, WorkerFault
    <2>7. CASE NoticeWrite(s)
      BY <1>1, <2>7 DEF TypeOK, TablesOK, WorkerOK, NoticeWrite, Artifact
    <2>8. QED
      BY <2>1, <2>2, <2>3, <2>4, <2>5, <2>6, <2>7 DEF WorkerStep
  <1>6. faults' \in 0..MaxFaults /\ balance' \in 0..MaxBalance
    BY ArchiveAssumption DEF TypeOK, WorkerStep, MarkArchiving, StoreBatch, StoreFails, StoreRefused, ReadCandidates,
           PointCandidate, NoteCandidate, MarkArchived, WorkerReturns, MarkFailedRetryable,
           WorkerThrows, MarkFailedBlocked, NoticeRead, NoticeWrite, WorkerFault
  <1>7. QED
    BY <1>1, <1>4, <1>5, <1>6 DEF TypeOK

\* Taking a job, a step of a pass, the passing of time, the queue's retention
\* and a crash keep the types.
LEMMA TypeRest ==
    ASSUME TypeOK, JobOwned, PassOwned,
           \/ \E s \in Slots, b \in Batches : Take(s, b)
           \/ \E p \in Passes : PassStep(p)
           \/ \E b \in Batches : BecomesDue(b) \/ Evict(b)
           \/ Crash
    PROVE  TypeOK'
  <1>1. ASSUME NEW s \in Slots, NEW b \in Batches, Take(s, b)
        PROVE  TypeOK'
    <2>1. WorkerOK'
      BY <1>1, ArchiveAssumption DEF TypeOK, WorkerOK, Take, WGoto, WPcs, Batches
    <2>2. TablesOK'
      BY <1>1 DEF TypeOK, TablesOK, Take, NotW
    <2>3. QED
      BY <1>1, <2>1, <2>2 DEF TypeOK, Take, NotW, extraction, recon, ExtractionOK, ReconOK
  <1>2. ASSUME NEW p \in Passes, PassStep(p)
        PROVE  TypeOK'
    <2> USE DEF PassStep, Scan, Visit, Requeue, MarkRequeued, RequeueFault, ScanEnds, NotR
    <2>1. ExtractionOK' /\ WorkerOK' /\ UNCHANGED <<found, blob, cand, artifact, balance, crashes>>
      BY <1>2 DEF TypeOK, ExtractionOK, WorkerOK, extraction, worker
    <2>2. ReconOK'
      BY <1>2, ArchiveAssumption DEF TypeOK, ReconOK, RPcs, RGoto, Batches
    <2>3. faults' \in 0..MaxFaults
      BY <1>2, ArchiveAssumption DEF TypeOK
    <2>4. job' \in [Batches -> JobRecord]
      <3>1. CASE Requeue(p)
        BY <1>2, <3>1, EnqueueFacts DEF PassOwned
      <3>2. CASE ~Requeue(p)
        BY <1>2, <3>2 DEF TypeOK, TablesOK, JobRecord
      <3>3. QED
        BY <3>1, <3>2
    <2>5. archive' \in [Batches -> [status : ArchiveStatus, due : BOOLEAN]]
      <3>1. CASE MarkRequeued(p)
        BY <3>1 DEF TypeOK, TablesOK, MarkQueued, ArchiveStatus
      <3>2. CASE ~MarkRequeued(p)
        BY <1>2, <3>2 DEF TypeOK, TablesOK
      <3>3. QED
        BY <3>1, <3>2
    <2>6. QED
      BY <2>1, <2>2, <2>3, <2>4, <2>5 DEF TypeOK, TablesOK, JobRecord
  <1>3. ASSUME NEW b \in Batches, BecomesDue(b)
        PROVE  TypeOK'
    <2>1. archive' \in [Batches -> [status : ArchiveStatus, due : BOOLEAN]]
      BY <1>3, ZenonT(30) DEF TypeOK, TablesOK, BecomesDue
    <2>2. QED
      BY <1>3, <2>1 DEF BecomesDue, TypeOK, TablesOK, ExtractionOK, WorkerOK, ReconOK,
         extraction, worker, recon, budgets
  <1>4. ASSUME NEW b \in Batches, Evict(b)
        PROVE  TypeOK'
    <2>1. NoJob \in JobRecord /\ job \in [Batches -> JobRecord]
      BY ArchiveAssumption DEF NoJob, JobRecord, TypeOK, TablesOK
    <2>2. job' \in [Batches -> JobRecord]
      BY <1>4, <2>1 DEF Evict
    <2>3. QED
      BY <1>4, <2>2 DEF Evict, TypeOK, TablesOK, JobRecord, ExtractionOK, WorkerOK, ReconOK,
         extraction, worker, recon, budgets
  <1>5. CASE Crash
    <2>1. \A b \in Batches : Recovered(job[b]) \in JobRecord
      BY DEF TypeOK, TablesOK, JobRecord, Recovered
    <2>2. TablesOK'
      BY <1>5, <2>1 DEF Crash, TypeOK, TablesOK, JobRecord
    <2>3. ExtractionOK' /\ ReconOK' /\ crashes' \in 0..MaxCrashes
      BY <1>5, ArchiveAssumption DEF Crash, TypeOK, ExtractionOK, ReconOK, EPcs, RPcs
    <2>4. WorkerOK'
      BY <1>5, ArchiveAssumption DEF Crash, TypeOK, WorkerOK, WPcs, Waiting, Artifact
    <2>5. QED
      BY <1>5, <2>2, <2>3, <2>4 DEF Crash, TypeOK
  <1>6. QED
    BY <1>1, <1>2, <1>3, <1>4, <1>5

-----------------------------------------------------------------------------
(* What a step may do to rows and batches *)

\* Only the extraction makes a row; nobody else finds memories, and nobody
\* takes back a stored batch.
LEMMA RowsKept ==
    ASSUME TypeOK, Numbered, JobOwned, PassOwned,
           \/ \E s \in Slots, b \in Batches : Take(s, b)
           \/ \E s \in Slots : WorkerStep(s)
           \/ \E p \in Passes : PassStep(p)
           \/ \E b \in Batches : BecomesDue(b) \/ Evict(b)
           \/ Crash
    PROVE  /\ found' = found
           /\ \A b \in Batches : Held(b)' <=> Held(b)
           /\ \A b \in Batches : blob[b] => blob'[b]
  <1>1. ASSUME NEW s \in Slots, NEW b \in Batches, Take(s, b)
        PROVE  UNCHANGED <<found, archive, blob>>
    BY <1>1 DEF Take, NotW
  <1>2. ASSUME NEW s \in Slots, WorkerStep(s)
        PROVE  /\ found' = found
               /\ \A b \in Batches : Held(b)' <=> Held(b)
               /\ \A b \in Batches : blob[b] => blob'[b]
    <2>1. wpc[s] # "idle" /\ found' = found
      BY <1>2 DEF WorkerStep, MarkArchiving, StoreBatch, StoreFails, StoreRefused, ReadCandidates,
             PointCandidate, NoteCandidate, MarkArchived, WorkerReturns, MarkFailedRetryable,
             WorkerThrows, MarkFailedBlocked, NoticeRead, NoticeWrite, WorkerFault, NotW
    <2>2. wb[s] \in Batches /\ Held(wb[s])
      BY <2>1 DEF JobOwned
    <2>3. CASE MarkArchiving(s) \/ MarkArchived(s) \/ MarkFailedRetryable(s) \/ MarkFailedBlocked(s)
      BY <2>1, <2>2, <2>3 DEF TypeOK, TablesOK, Held, MarkArchiving, MarkArchived,
         MarkFailedRetryable, MarkFailedBlocked, SetArchive
    <2>4. CASE StoreBatch(s) \/ StoreFails(s)
      BY <2>1, <2>4 DEF TypeOK, TablesOK, Held, StoreBatch, StoreFails
    <2>5. CASE UNCHANGED <<archive, blob>>
      BY <2>1, <2>5 DEF Held
    <2>6. QED
      BY <1>2, <2>3, <2>4, <2>5 DEF WorkerStep, StoreRefused, ReadCandidates,
             PointCandidate, NoteCandidate, WorkerReturns,
             WorkerThrows, NoticeRead, NoticeWrite, WorkerFault
  <1>3. ASSUME NEW p \in Passes, PassStep(p)
        PROVE  UNCHANGED <<found, blob>> /\ \A b \in Batches : Held(b)' <=> Held(b)
    <2>1. CASE MarkRequeued(p)
      BY <2>1 DEF TypeOK, TablesOK, Held, PassOwned, MarkRequeued, MarkQueued, NotR
    <2>2. CASE ~MarkRequeued(p)
      BY <1>3, <2>2 DEF PassStep, Scan, Visit, Requeue, RequeueFault, ScanEnds, NotR, Held
    <2>3. QED
      BY <2>1, <2>2
  <1>4. ASSUME NEW b \in Batches, BecomesDue(b) \/ Evict(b)
        PROVE  UNCHANGED <<found, blob>> /\ \A d \in Batches : Held(d)' <=> Held(d)
    BY <1>4, SMTT(30) DEF TypeOK, TablesOK, BecomesDue, Evict, Held
  <1>5. CASE Crash
    BY <1>5 DEF Crash, Held
  <1>6. QED
    BY <1>1, <1>2, <1>3, <1>4, <1>5 DEF Held

\* The extraction finds the memories of its own batch, which has no row yet,
\* and makes the row of its own batch.
LEMMA RowsMade ==
    ASSUME TypeOK, Numbered, ExtractionStep
    PROVE  /\ blob' = blob
           /\ \A b \in Batches : Held(b) => Held(b)' /\ found'[b] = found[b]
           /\ \A b \in Batches : found[b] # {} => found'[b] = found[b]
           /\ \A b \in Batches : b # eb => (Held(b)' <=> Held(b)) /\ found'[b] = found[b]
           /\ ~CreateArchive => \A b \in Batches : Held(b)' <=> Held(b)
           /\ CreateArchive => /\ eb \in Batches /\ ~Held(eb) /\ Held(eb)'
                              /\ found[eb] # {} /\ found' = found
  <1> USE DEF TypeOK, TablesOK, ExtractionOK, Held, NotE, Batches
  <1>1. ASSUME NEW ids \in SUBSET Cands, Extract(ids)
        PROVE  /\ archive' = archive /\ blob' = blob
               /\ \A b \in Batches : found[b] # {} => found'[b] = found[b]
               /\ \A b \in Batches : b # eb => found'[b] = found[b]
               /\ ~CreateArchive
    BY <1>1 DEF Extract, Numbered, CreateArchive
  <1>2. CASE CreateArchive
    BY <1>2 DEF CreateArchive, Numbered
  <1>3. CASE MarkArchiveQueued
    BY <1>3 DEF MarkArchiveQueued, MarkQueued, Numbered, CreateArchive
  <1>4. ASSUME NEW c \in Cands, Persist(c)
        PROVE  UNCHANGED <<archive, blob, found>> /\ ~CreateArchive
    BY <1>4 DEF Persist, CreateArchive
  <1>5. CASE \/ LoadContext \/ MarkIntelligence \/ EnqueueArchive \/ FinalRead \/ FinalWrite
             \/ ExtractionEnds \/ ExtractionFault
    <2>1. UNCHANGED <<archive, blob, found>>
      BY <1>5 DEF LoadContext, MarkIntelligence, EnqueueArchive, FinalRead, FinalWrite,
         ExtractionEnds, ExtractionFault
    <2>2. CASE CreateArchive
      BY <1>2, <2>2
    <2>3. QED
      BY <2>1, <2>2
  <1>6. QED
    BY <1>1, <1>2, <1>3, <1>4, <1>5 DEF ExtractionStep, Numbered

-----------------------------------------------------------------------------
(* One lemma per part of the invariant *)

\* Rows are made in the order of the attempts, after their memories.
LEMMA NumberedStep ==
    ASSUME TypeOK, Numbered, JobOwned, PassOwned, Next
    PROVE  Numbered'
  <1>1. CASE ExtractionStep
    <2> USE DEF TypeOK, TablesOK, ExtractionOK, NotE, EGoto
    <2>1. CASE LoadContext
      BY <2>1, ArchiveAssumption DEF LoadContext, Numbered, Held, Batches
    <2>2. CASE MarkIntelligence
      BY <2>2 DEF MarkIntelligence, Numbered, Held
    <2>3. ASSUME NEW ids \in SUBSET Cands, Extract(ids)
          PROVE  Numbered'
      <3>1. eb \in Batches /\ eb' = eb /\ ~Held(eb) /\ archive' = archive
        BY <2>3, ArchiveAssumption DEF Extract, Numbered, Batches
      <3>2. found'[eb] = ids /\ \A b \in Batches : b # eb => found'[b] = found[b]
        BY <2>3, <3>1 DEF Extract
      <3>3. epc' = IF ids = {} THEN "final_read" ELSE "persist"
        BY <2>3 DEF Extract
      <3>4. eleft' = ids
        BY <2>3 DEF Extract
      <3>5. \A b \in Batches : Held(b)' => found'[b] # {} /\ b <= eb'
        BY <3>1, <3>2 DEF Numbered, Held
      <3>6. \A b \in Batches : b > eb' => found'[b] = {}
        <4>1. \A b \in Batches : b > eb => b # eb /\ found[b] = {}
          BY <3>1 DEF Numbered, Batches
        <4>2. QED
          BY <3>1, <3>2, <4>1
      <3>7. epc' = "persist" => eb' # 0 /\ ~Held(eb)' /\ found'[eb'] # {} /\ eleft' \subseteq found'[eb']
        BY <3>1, <3>2, <3>3, <3>4 DEF Held, Batches
      <3>8. epc' \in {"final_read", "persist"}
        BY <3>3
      <3>9. QED
        BY <3>5, <3>6, <3>7, <3>8 DEF Numbered
    <2>4. ASSUME NEW c \in Cands, Persist(c)
          PROVE  Numbered'
      BY <2>4 DEF Persist, Numbered, Held
    <2>5. CASE CreateArchive
      <3>1. eb \in Batches /\ eb' = eb /\ found' = found /\ epc' = "enqueue" /\ found[eb] # {}
        BY <2>5 DEF CreateArchive, Numbered, Batches
      <3>2. \A b \in Batches : Held(b)' <=> Held(b) \/ b = eb
        BY <2>5, <3>1 DEF CreateArchive, Held
      <3>3. \A b \in Batches : Held(b)' => found'[b] # {} /\ b <= eb'
        BY <3>1, <3>2 DEF Numbered, Batches
      <3>4. eb' # 0 /\ Held(eb)'
        BY <2>5, <3>1 DEF CreateArchive, Held, Batches
      <3>5. QED
        BY <3>1, <3>3, <3>4 DEF Numbered
    <2>6. CASE EnqueueArchive
      BY <2>6 DEF EnqueueArchive, Numbered, Held
    <2>7. CASE MarkArchiveQueued
      BY <2>7 DEF MarkArchiveQueued, MarkQueued, Numbered, Held, Batches
    <2>8. CASE FinalRead \/ FinalWrite \/ ExtractionEnds
      BY <2>8 DEF FinalRead, FinalWrite, ExtractionEnds, Numbered, Held
    <2>9. CASE ExtractionFault
      BY <2>9 DEF ExtractionFault, Numbered, Held
    <2>10. QED
      BY <1>1, <2>1, <2>2, <2>3, <2>4, <2>5, <2>6, <2>7, <2>8, <2>9 DEF ExtractionStep
  <1>2. CASE Crash
    BY <1>2 DEF Crash, Numbered, Held
  <1>3. ASSUME UNCHANGED extraction,
               \/ \E s \in Slots, b \in Batches : Take(s, b)
               \/ \E s \in Slots : WorkerStep(s)
               \/ \E p \in Passes : PassStep(p)
               \/ \E b \in Batches : BecomesDue(b) \/ Evict(b)
        PROVE  Numbered'
    <2>1. found' = found /\ \A b \in Batches : Held(b)' <=> Held(b)
      BY <1>3, RowsKept
    <2>2. QED
      BY <1>3, <2>1 DEF extraction, Numbered, TypeOK, ExtractionOK, Batches, Held
  <1>4. ASSUME NEW s \in Slots, WorkerStep(s)
        PROVE  UNCHANGED extraction
    BY <1>4 DEF WorkerStep, MarkArchiving, StoreBatch, StoreFails, StoreRefused, ReadCandidates,
       PointCandidate, NoteCandidate, MarkArchived, WorkerReturns, MarkFailedRetryable,
       WorkerThrows, MarkFailedBlocked, NoticeRead, NoticeWrite, WorkerFault, NotW
  <1>5. ASSUME NEW p \in Passes, PassStep(p)
        PROVE  UNCHANGED extraction
    BY <1>5 DEF PassStep, Scan, Visit, Requeue, MarkRequeued, RequeueFault, ScanEnds, NotR
  <1>6. ASSUME NEW s \in Slots, NEW b \in Batches, Take(s, b) \/ BecomesDue(b) \/ Evict(b)
        PROVE  UNCHANGED extraction
    BY <1>6 DEF Take, BecomesDue, Evict, NotW
  <1>7. ASSUME NEW b \in Batches, BecomesDue(b) \/ Evict(b)
        PROVE  UNCHANGED extraction
    BY <1>7 DEF BecomesDue, Evict
  <1>8. QED
    BY <1>1, <1>2, <1>3, <1>4, <1>5, <1>6, <1>7 DEF Next

\* No step gives two slots one job, or a job to a batch without a row.
LEMMA JobOwnedStep ==
    ASSUME TypeOK, Numbered, JobOwned, PassOwned, Next
    PROVE  JobOwned'
  <1>1. \A b \in Batches : Held(b) => Held(b)'
    BY RowsKept, RowsMade DEF Next
  <1>2. job \in [Batches -> JobRecord] /\ WorkerOK
    BY DEF TypeOK, TablesOK, JobRecord
  <1>3. ASSUME UNCHANGED <<job, wpc, wb>>
        PROVE  JobOwned'
    BY <1>1, <1>3 DEF JobOwned
  <1>4. ASSUME NEW b \in Batches, Held(b)', Enqueue(b), UNCHANGED worker
        PROVE  JobOwned'
    <2>1. /\ \A d \in Batches : d # b => job'[d] = job[d]
          /\ job'[b].attempts = job[b].attempts
          /\ job'[b].state = IF job[b].state = "absent" THEN "waiting" ELSE job[b].state
      BY <1>4, EnqueueFacts
    <2>2. QED
      BY <1>1, <1>4, <2>1, ArchiveAssumption DEF JobOwned, worker
  <1>5. CASE ExtractionStep
    <2>1. CASE EnqueueArchive
      <3>1. eb \in Batches /\ Held(eb) /\ Enqueue(eb) /\ UNCHANGED worker
        BY <2>1 DEF EnqueueArchive, Numbered, TypeOK, ExtractionOK, Batches, NotE
      <3>2. QED
        BY <1>1, <1>4, <3>1
    <2>2. CASE ~EnqueueArchive
      <3>1. UNCHANGED <<job, wpc, wb>>
        BY <1>5, <2>2 DEF ExtractionStep, LoadContext, MarkIntelligence, Extract, Persist,
           CreateArchive, MarkArchiveQueued, FinalRead, FinalWrite, ExtractionEnds,
           ExtractionFault, NotE, worker
      <3>2. QED
        BY <1>3, <3>1
    <2>3. QED
      BY <2>1, <2>2
  <1>6. ASSUME NEW s \in Slots, NEW b \in Batches, Take(s, b)
        PROVE  JobOwned'
    <2>1. /\ wpc' = [wpc EXCEPT ![s] = "mark"] /\ wb' = [wb EXCEPT ![s] = b]
          /\ job[b].state = "waiting" /\ wpc[s] = "idle"
          /\ job' = [job EXCEPT ![b].state = "active"]
      BY <1>6 DEF Take, WGoto
    <2>2. /\ job'[b].state = "active" /\ job'[b].attempts = job[b].attempts
          /\ \A d \in Batches : d # b => job'[d] = job[d]
      BY <1>2, <2>1 DEF JobRecord
    <2>3. /\ wpc'[s] = "mark" /\ wb'[s] = b
          /\ \A t \in Slots : t # s => wpc'[t] = wpc[t] /\ wb'[t] = wb[t]
      BY <1>2, <2>1 DEF WorkerOK
    <2>4. \A t \in Slots : wpc[t] # "idle" => wb[t] # b
      BY <2>1 DEF JobOwned
    <2>5. QED
      BY <1>1, <2>1, <2>2, <2>3, <2>4 DEF JobOwned
  <1>7. ASSUME NEW s \in Slots, WorkerStep(s)
        PROVE  JobOwned'
    <2>1. wpc[s] # "idle" /\ wb[s] \in Batches
      BY <1>7 DEF JobOwned, WorkerStep, MarkArchiving, StoreBatch, StoreFails, StoreRefused,
         ReadCandidates, PointCandidate, NoteCandidate, MarkArchived, WorkerReturns,
         MarkFailedRetryable, WorkerThrows, MarkFailedBlocked, NoticeRead, NoticeWrite, WorkerFault
    <2>2. CASE WorkerReturns(s) \/ WorkerThrows(s) \/ WorkerFault(s)
      <3>1. WFree(s) /\ \A d \in Batches : d # wb[s] => job'[d] = job[d]
        BY <1>2, <2>1, <2>2, ThrowsFacts DEF WorkerReturns, WorkerThrows, WorkerFault
      <3>2. /\ job'[wb[s]].state \in {"completed", "waiting", "failed"}
            /\ job'[wb[s]].state = "waiting" => job'[wb[s]].attempts < MaxAttempts
        <4>1. CASE WorkerReturns(s)
          BY <1>2, <2>1, <4>1 DEF WorkerReturns, JobRecord
        <4>2. CASE WorkerThrows(s) \/ WorkerFault(s)
          <5>1. /\ job'[wb[s]].attempts = job[wb[s]].attempts + 1
                /\ job'[wb[s]].state = IF job[wb[s]].attempts + 1 < MaxAttempts
                                       THEN "waiting" ELSE "failed"
            <6>1. WJobThrows(s)
              BY <4>2 DEF WorkerThrows, WorkerFault
            <6>2. job'[wb[s]] = [state |-> IF job[wb[s]].attempts + 1 < MaxAttempts
                                           THEN "waiting" ELSE "failed",
                                 attempts |-> job[wb[s]].attempts + 1,
                                 stalled |-> job[wb[s]].stalled]
              BY <2>1, <6>1, ThrowsFacts
            <6>3. QED
              BY <6>2
          <5>2. QED
            BY <5>1
        <4>3. QED
          BY <2>2, <4>1, <4>2
      <3>3. wpc'[s] = "idle" /\ \A t \in Slots : t # s => wpc'[t] = wpc[t] /\ wb'[t] = wb[t]
        BY <1>2, <3>1 DEF WorkerOK, WFree, WGoto
      <3>4. \A t \in Slots : t # s /\ wpc[t] # "idle" => wb[t] # wb[s]
        BY <2>1 DEF JobOwned
      <3>5. QED
        BY <1>1, <2>1, <3>1, <3>2, <3>3, <3>4 DEF JobOwned
    <2>3. CASE ~(WorkerReturns(s) \/ WorkerThrows(s) \/ WorkerFault(s))
      <3>1. UNCHANGED <<job, wb>> /\ \A t \in Slots : t # s => wpc'[t] = wpc[t]
        BY <1>2, <1>7, <2>3 DEF WorkerOK, WGoto, WorkerStep, MarkArchiving, StoreBatch, StoreFails,
           StoreRefused, ReadCandidates, PointCandidate, NoteCandidate, MarkArchived,
           MarkFailedRetryable, MarkFailedBlocked, NoticeRead, NoticeWrite
      <3>2. QED
        BY <1>1, <2>1, <3>1 DEF JobOwned
    <2>4. QED
      BY <2>2, <2>3
  <1>8. ASSUME NEW p \in Passes, PassStep(p)
        PROVE  JobOwned'
    <2>1. CASE Requeue(p)
      <3>1. rb[p] \in Batches /\ Held(rb[p]) /\ Enqueue(rb[p]) /\ UNCHANGED worker
        BY <2>1 DEF Requeue, PassOwned, NotR
      <3>2. Held(rb[p])' <=> Held(rb[p])
        BY <2>1 DEF Requeue, Held
      <3>3. QED
        BY <1>1, <1>4, <3>1
    <2>2. CASE ~Requeue(p)
      <3>1. UNCHANGED <<job, wpc, wb>>
        BY <1>8, <2>2 DEF PassStep, Scan, Visit, MarkRequeued, RequeueFault, ScanEnds, NotR, worker
      <3>2. QED
        BY <1>3, <3>1
    <2>3. QED
      BY <2>1, <2>2
  <1>9. ASSUME NEW b \in Batches, BecomesDue(b)
        PROVE  JobOwned'
    BY <1>3, <1>9 DEF BecomesDue, worker
  <1>10. ASSUME NEW b \in Batches, Evict(b)
         PROVE  JobOwned'
    <2>1. /\ job[b].state = "completed" /\ UNCHANGED <<wpc, wb>>
          /\ job'[b] = NoJob /\ \A d \in Batches : d # b => job'[d] = job[d]
      BY <1>2, <1>10 DEF Evict, worker
    <2>2. QED
      BY <1>1, <2>1 DEF JobOwned, NoJob
  <1>11. CASE Crash
    <2>1. \A b \in Batches : /\ Recovered(job[b]).attempts = job[b].attempts
                             /\ Recovered(job[b]).state = "absent" <=> job[b].state = "absent"
                             /\ Recovered(job[b]).state = "waiting"
                                  => job[b].state \in {"waiting", "active"}
                             /\ Recovered(job[b]).state # "active"
      BY <1>2 DEF JobRecord, Recovered
    <2>2. /\ \A b \in Batches : job'[b] = Recovered(job[b])
          /\ \A s \in Slots : wpc'[s] = "idle"
      BY <1>11 DEF Crash
    <2>3. QED
      BY <1>1, <2>1, <2>2 DEF JobOwned
  <1>12. QED
    BY <1>5, <1>6, <1>7, <1>8, <1>9, <1>10, <1>11 DEF Next

\* No step has a pass visit a batch without a row.
LEMMA PassOwnedStep ==
    ASSUME TypeOK, Numbered, JobOwned, PassOwned, Next
    PROVE  PassOwned'
  <1>1. \A b \in Batches : Held(b) => Held(b)'
    BY RowsKept, RowsMade DEF Next
  <1>2. ASSUME UNCHANGED recon
        PROVE  PassOwned'
    BY <1>1, <1>2 DEF PassOwned, recon, TypeOK, ReconOK
  <1>3. ASSUME NEW p \in Passes, PassStep(p)
        PROVE  PassOwned'
    <2> USE DEF TypeOK, ReconOK, RGoto
    <2>1. CASE Scan(p)
      <3>1. \A b \in Batches : Due(b) => Held(b)
        BY DEF Due, Held
      <3>2. rtodo'[p] = {b \in Batches : Due(b)} /\ rpc'[p] = "scan"
        BY <2>1 DEF Scan
      <3>3. \A q \in Passes : q # p => rtodo'[q] = rtodo[q] /\ rpc'[q] = rpc[q]
        BY <2>1 DEF Scan
      <3>4. rb' = rb
        BY <2>1 DEF Scan
      <3>5. QED
        BY <1>1, <3>1, <3>2, <3>3, <3>4 DEF PassOwned
    <2>2. ASSUME NEW b \in Batches, Visit(p, b)
          PROVE  PassOwned'
      <3>1. Held(b) /\ rtodo'[p] \subseteq rtodo[p] /\ rb'[p] = b
        BY <2>2 DEF Visit, PassOwned
      <3>2. \A q \in Passes : q # p => rtodo'[q] = rtodo[q] /\ rpc'[q] = rpc[q] /\ rb'[q] = rb[q]
        BY <2>2 DEF Visit
      <3>3. QED
        BY <1>1, <3>1, <3>2 DEF PassOwned
    <2>3. CASE Requeue(p)
      BY <1>1, <2>3 DEF Requeue, PassOwned
    <2>4. CASE MarkRequeued(p) \/ RequeueFault(p)
      BY <1>1, <2>4 DEF MarkRequeued, RequeueFault, PassOwned
    <2>5. CASE ScanEnds(p)
      BY <1>1, <2>5 DEF ScanEnds, PassOwned
    <2>6. QED
      BY <1>3, <2>1, <2>2, <2>3, <2>4, <2>5 DEF PassStep
  <1>4. CASE Crash
    BY <1>1, <1>4 DEF Crash, PassOwned
  <1>5. ASSUME ExtractionStep
        PROVE  UNCHANGED recon
    BY <1>5 DEF ExtractionStep, LoadContext, MarkIntelligence, Extract, Persist, CreateArchive,
       EnqueueArchive, MarkArchiveQueued, FinalRead, FinalWrite, ExtractionEnds, ExtractionFault,
       NotE
  <1>6. ASSUME NEW s \in Slots, WorkerStep(s)
        PROVE  UNCHANGED recon
    BY <1>6 DEF WorkerStep, MarkArchiving, StoreBatch, StoreFails, StoreRefused, ReadCandidates,
       PointCandidate, NoteCandidate, MarkArchived, WorkerReturns, MarkFailedRetryable,
       WorkerThrows, MarkFailedBlocked, NoticeRead, NoticeWrite, WorkerFault, NotW
  <1>7. ASSUME NEW s \in Slots, NEW b \in Batches, Take(s, b)
        PROVE  UNCHANGED recon
    BY <1>7 DEF Take, NotW
  <1>8. ASSUME NEW b \in Batches, BecomesDue(b) \/ Evict(b)
        PROVE  UNCHANGED recon
    BY <1>8 DEF BecomesDue, Evict
  <1>9. QED
    BY <1>2, <1>3, <1>4, <1>5, <1>6, <1>7, <1>8 DEF Next

\* What a step of one slot leaves of another.
LEMMA OtherSlots ==
    ASSUME TypeOK, NEW s \in Slots,
           WorkerStep(s) \/ \E b \in Batches : Take(s, b)
    PROVE  \A t \in Slots : t # s => /\ wpc'[t] = wpc[t] /\ wb'[t] = wb[t]
                                     /\ wleft'[t] = wleft[t]
  <1> USE DEF TypeOK, WorkerOK, WGoto
  <1>1. CASE WorkerReturns(s) \/ WorkerThrows(s) \/ WorkerFault(s)
    BY <1>1 DEF WorkerReturns, WorkerThrows, WorkerFault, WJobThrows, WFree
  <1>2. CASE \/ MarkArchiving(s) \/ StoreBatch(s) \/ StoreFails(s) \/ StoreRefused(s)
             \/ MarkArchived(s) \/ MarkFailedRetryable(s) \/ MarkFailedBlocked(s)
             \/ NoticeRead(s) \/ NoticeWrite(s)
    BY <1>2 DEF MarkArchiving, StoreBatch, StoreFails, StoreRefused, MarkArchived,
       MarkFailedRetryable, MarkFailedBlocked, NoticeRead, NoticeWrite
  <1>3. CASE ReadCandidates(s)
    BY <1>3 DEF ReadCandidates
  <1>4. ASSUME NEW c \in Cands, PointCandidate(s, c) \/ NoteCandidate(s, c)
        PROVE  \A t \in Slots : t # s => /\ wpc'[t] = wpc[t] /\ wb'[t] = wb[t]
                                         /\ wleft'[t] = wleft[t]
    BY <1>4 DEF PointCandidate, NoteCandidate
  <1>5. ASSUME NEW b \in Batches, Take(s, b)
        PROVE  \A t \in Slots : t # s => /\ wpc'[t] = wpc[t] /\ wb'[t] = wb[t]
                                         /\ wleft'[t] = wleft[t]
    BY <1>5 DEF Take
  <1>6. QED
    BY <1>1, <1>2, <1>3, <1>4, <1>5 DEF WorkerStep

\* Batches and their memories stay what a slot found them to be.
LEMMA BatchKept ==
    ASSUME TypeOK, Numbered, JobOwned, PassOwned, Next
    PROVE  /\ \A b \in Batches : Held(b) => Held(b)' /\ found'[b] = found[b]
           /\ \A b \in Batches : blob[b] => blob'[b]
           /\ \A b \in Batches, c \in Cands : FoundAgain(b, c) => FoundAgain(b, c)'
  <1>1. \A b \in Batches : found[b] # {} => found'[b] = found[b]
    BY RowsKept, RowsMade DEF Next
  <1>2. \A b \in Batches, c \in Cands : FoundAgain(b, c) => FoundAgain(b, c)'
    BY <1>1 DEF FoundAgain
  <1>3. QED
    BY <1>2, RowsKept, RowsMade DEF Next

\* No step lets a slot past the store without its batch being stored.
LEMMA StoredFirstStep ==
    ASSUME TypeOK, Numbered, JobOwned, PassOwned, StoredFirst, Next
    PROVE  StoredFirst'
  <1> DEFINE Good(t) ==
        /\ wpc[t] \in {"ok_read", "ok_cands", "ok_row"} => blob[wb[t]]
        /\ wpc[t] = "ok_cands" => wleft[t] \subseteq found[wb[t]]
  <1>1. \A t \in Slots : Good(t) /\ (wpc[t] # "idle" => wb[t] \in Batches /\ Held(wb[t]))
    BY DEF StoredFirst, JobOwned
  <1>2. ASSUME NEW t \in Slots, wpc'[t] = wpc[t], wb'[t] = wb[t], wleft'[t] = wleft[t]
        PROVE  Good(t)'
    BY <1>1, <1>2, BatchKept
  <1> HIDE DEF Good
  <1>3. ASSUME \A t \in Slots : Good(t)'
        PROVE  StoredFirst'
    BY <1>3 DEF StoredFirst, Good
  <1>4. ASSUME UNCHANGED worker
        PROVE  StoredFirst'
    BY <1>2, <1>3, <1>4 DEF worker
  <1>5. ASSUME NEW s \in Slots, WorkerStep(s)
        PROVE  StoredFirst'
    <2>1. wpc[s] # "idle" /\ wb[s] \in Batches
      BY <1>5 DEF JobOwned, WorkerStep, MarkArchiving, StoreBatch, StoreFails, StoreRefused,
         ReadCandidates, PointCandidate, NoteCandidate, MarkArchived, WorkerReturns,
         MarkFailedRetryable, WorkerThrows, MarkFailedBlocked, NoticeRead, NoticeWrite, WorkerFault
    <2>2. Good(s)'
      <3> USE DEF TypeOK, TablesOK, WorkerOK, WGoto, Good
      <3>1. CASE StoreBatch(s)
        BY <2>1, <3>1 DEF StoreBatch
      <3>2. CASE ReadCandidates(s)
        BY <1>1, <2>1, <3>2 DEF ReadCandidates, NotW
      <3>3. ASSUME NEW c \in Cands, PointCandidate(s, c)
            PROVE  Good(s)'
        BY <1>1, <2>1, <3>3 DEF PointCandidate, NotW
      <3>4. ASSUME NEW c \in Cands, NoteCandidate(s, c)
            PROVE  Good(s)'
        BY <3>4 DEF NoteCandidate
      <3>5. CASE WorkerReturns(s) \/ WorkerThrows(s) \/ WorkerFault(s)
        BY <3>5 DEF WorkerReturns, WorkerThrows, WorkerFault, WJobThrows, WFree
      <3>6. CASE \/ MarkArchiving(s) \/ StoreFails(s) \/ StoreRefused(s) \/ MarkArchived(s)
                 \/ MarkFailedRetryable(s) \/ MarkFailedBlocked(s)
                 \/ NoticeRead(s) \/ NoticeWrite(s)
        BY <3>6 DEF MarkArchiving, StoreFails, StoreRefused, MarkArchived,
           MarkFailedRetryable, MarkFailedBlocked, NoticeRead, NoticeWrite
      <3>7. QED
        BY <1>5, <3>1, <3>2, <3>3, <3>4, <3>5, <3>6 DEF WorkerStep
    <2>3. QED
      BY <1>2, <1>3, <1>5, <2>2, OtherSlots
  <1>6. ASSUME NEW s \in Slots, NEW b \in Batches, Take(s, b)
        PROVE  StoredFirst'
    <2>1. Good(s)'
      BY <1>6 DEF Good, Take, WGoto, TypeOK, WorkerOK
    <2>2. QED
      BY <1>2, <1>3, <1>6, <2>1, OtherSlots
  <1>7. CASE Crash
    BY <1>7 DEF Crash, StoredFirst
  <1>8. ASSUME ExtractionStep \/ \E p \in Passes : PassStep(p)
        PROVE  UNCHANGED worker
    BY <1>8 DEF ExtractionStep, LoadContext, MarkIntelligence, Extract, Persist, CreateArchive,
       EnqueueArchive, MarkArchiveQueued, FinalRead, FinalWrite, ExtractionEnds, ExtractionFault,
       NotE, PassStep, Scan, Visit, Requeue, MarkRequeued, RequeueFault, ScanEnds, NotR
  <1>9. ASSUME NEW b \in Batches, BecomesDue(b) \/ Evict(b)
        PROVE  UNCHANGED worker
    BY <1>9 DEF BecomesDue, Evict
  <1>10. QED
    BY <1>4, <1>5, <1>6, <1>7, <1>8, <1>9 DEF Next

\* A memory that can be read, or was found again, stays so.
LEMMA FineStays ==
    ASSUME TypeOK, Numbered, JobOwned, PassOwned, Next,
           NEW b \in Batches, Held(b), NEW c \in Cands,
           cand[c].ref # 0 \/ FoundAgain(b, c)
    PROVE  (cand[c].ref # 0 \/ FoundAgain(b, c))'
  <1>1. CASE FoundAgain(b, c)
    BY <1>1, BatchKept
  <1>2. CASE ~FoundAgain(b, c)
    <2>1. cand[c].ref # 0
      BY <1>2
    <2>2. ASSUME NEW e \in Cands, Persist(e)
          PROVE  (cand[c].ref # 0 \/ FoundAgain(b, c))'
      <3>1. eb \in Batches /\ e \in found[eb] /\ found' = found
        BY <2>2 DEF Persist, Numbered, TypeOK, ExtractionOK, Batches
      <3>2. b < eb
        BY <2>2, <3>1 DEF Persist, Numbered, Batches
      <3>3. CASE e = c
        BY <3>1, <3>2, <3>3 DEF FoundAgain
      <3>4. CASE e # c
        BY <2>1, <2>2, <3>4 DEF Persist, TypeOK, TablesOK
      <3>5. QED
        BY <3>3, <3>4
    <2>3. ASSUME NEW s \in Slots, NEW e \in Cands, PointCandidate(s, e)
          PROVE  cand'[c].ref # 0
      <3>1. wb[s] # 0
        BY <2>3 DEF PointCandidate, JobOwned, Batches
      <3>2. QED
        BY <2>1, <2>3, <3>1 DEF PointCandidate, TypeOK, TablesOK
    <2>4. ASSUME NEW s \in Slots, NEW e \in Cands, NoteCandidate(s, e)
          PROVE  cand'[c].ref # 0
      BY <2>1, <2>4 DEF NoteCandidate, TypeOK, TablesOK
    <2>5. ASSUME ExtractionStep, ~\E e \in Cands : Persist(e)
          PROVE  cand' = cand
      BY <2>5 DEF ExtractionStep, LoadContext, MarkIntelligence, Extract, CreateArchive,
         EnqueueArchive, MarkArchiveQueued, FinalRead, FinalWrite, ExtractionEnds, ExtractionFault
    <2>6. ASSUME NEW s \in Slots, WorkerStep(s),
                 ~\E e \in Cands : PointCandidate(s, e) \/ NoteCandidate(s, e)
          PROVE  cand' = cand
      BY <2>6 DEF WorkerStep, MarkArchiving, StoreBatch, StoreFails, StoreRefused, ReadCandidates,
         MarkArchived, WorkerReturns, MarkFailedRetryable, WorkerThrows, MarkFailedBlocked,
         NoticeRead, NoticeWrite, WorkerFault
    <2>7. ASSUME NEW p \in Passes, PassStep(p)
          PROVE  cand' = cand
      BY <2>7 DEF PassStep, Scan, Visit, Requeue, MarkRequeued, RequeueFault, ScanEnds, NotR
    <2>8. ASSUME NEW s \in Slots, NEW d \in Batches, Take(s, d)
          PROVE  cand' = cand
      BY <2>8 DEF Take
    <2>9. ASSUME NEW d \in Batches, BecomesDue(d) \/ Evict(d)
          PROVE  cand' = cand
      BY <2>9 DEF BecomesDue, Evict
    <2>10. CASE Crash
      BY <2>1, <2>10 DEF Crash
    <2>11. QED
      BY <2>1, <2>2, <2>3, <2>4, <2>5, <2>6, <2>7, <2>8, <2>9, <2>10 DEF Next
  <1>3. QED
    BY <1>1, <1>2

\* No step lets a slot skip a memory of its batch.
LEMMA PointedFirstStep ==
    ASSUME TypeOK, Numbered, JobOwned, PassOwned, StoredFirst, PointedFirst, Next
    PROVE  PointedFirst'
  <1> DEFINE Done(t, c) == \/ wpc[t] = "ok_cands" /\ c \in found[wb[t]] \ wleft[t]
                           \/ wpc[t] = "ok_row" /\ c \in found[wb[t]]
             Fine(b, c) == cand[c].ref # 0 \/ FoundAgain(b, c)
  <1>1. /\ \A t \in Slots, c \in Cands : Done(t, c) => Fine(wb[t], c)
        /\ \A t \in Slots : wpc[t] # "idle" => wb[t] \in Batches /\ Held(wb[t])
    BY DEF PointedFirst, JobOwned
  <1>2. ASSUME NEW t \in Slots, wpc'[t] = wpc[t], wb'[t] = wb[t], wleft'[t] = wleft[t],
               NEW c \in Cands, Done(t, c)'
        PROVE  Fine(wb[t], c)'
    <2>1. Done(t, c) /\ wb[t] \in Batches /\ Held(wb[t])
      BY <1>1, <1>2, BatchKept
    <2>2. PICK b \in Batches : b = wb[t] /\ b = wb'[t]
      BY <1>2, <2>1
    <2>3. (cand[c].ref # 0 \/ FoundAgain(b, c))'
      BY <1>1, <2>1, <2>2, FineStays
    <2>4. QED
      BY <2>2, <2>3 DEF FoundAgain
  <1>3. ASSUME \A t \in Slots, c \in Cands : Done(t, c)' => Fine(wb[t], c)'
        PROVE  PointedFirst'
    BY <1>3 DEF PointedFirst
  <1> HIDE DEF Done, Fine
  <1>4. ASSUME UNCHANGED worker
        PROVE  PointedFirst'
    BY <1>2, <1>3, <1>4 DEF worker
  <1>5. ASSUME NEW s \in Slots, WorkerStep(s), NEW c \in Cands, Done(s, c)'
        PROVE  Fine(wb[s], c)'
    <2> USE DEF TypeOK, WorkerOK, TablesOK, WGoto, Done
    <2>1. wpc[s] # "idle" /\ wb[s] \in Batches
      BY <1>5 DEF JobOwned, WorkerStep, MarkArchiving, StoreBatch, StoreFails, StoreRefused,
         ReadCandidates, PointCandidate, NoteCandidate, MarkArchived, WorkerReturns,
         MarkFailedRetryable, WorkerThrows, MarkFailedBlocked, NoticeRead, NoticeWrite, WorkerFault
    <2>2. CASE ReadCandidates(s)
      BY <1>5, <2>2 DEF ReadCandidates, NotW
    <2>3. ASSUME NEW e \in Cands, PointCandidate(s, e)
          PROVE  Fine(wb[s], c)'
      <3>1. found' = found /\ wb' = wb /\ cand'[e].ref = wb[s] /\ wb[s] # 0
        BY <2>1, <2>3 DEF PointCandidate, NotW, Batches
      <3>2. CASE c = e
        BY <3>1, <3>2 DEF Fine
      <3>3. CASE c # e
        <4>1. wpc[s] = "ok_cands" /\ wleft'[s] = wleft[s] \ {e}
          BY <2>3 DEF PointCandidate
        <4>2. c \in found[wb[s]] /\ c \notin wleft[s]
          <5>1. wpc'[s] = IF wleft[s] = {e} THEN "ok_row" ELSE "ok_cands"
            BY <2>3 DEF PointCandidate
          <5>2. QED
            BY <1>5, <3>1, <3>3, <4>1, <5>1
        <4>3. Fine(wb[s], c)
          BY <1>1, <4>1, <4>2
        <4>4. QED
          <5>1. PICK b \in Batches : b = wb[s] /\ b = wb'[s]
            BY <2>1, <3>1
          <5>2. (cand[c].ref # 0 \/ FoundAgain(b, c))'
            <6>1. Next
              BY <1>5 DEF Next
            <6>2. QED
              BY <1>1, <2>1, <4>3, <5>1, <6>1, FineStays DEF Fine
          <5>3. QED
            BY <5>1, <5>2 DEF Fine, FoundAgain
      <3>4. QED
        BY <3>2, <3>3
    <2>4. CASE ~ReadCandidates(s) /\ ~\E e \in Cands : PointCandidate(s, e)
      <3>1. wpc'[s] \notin {"ok_cands", "ok_row"}
        BY <1>5, <2>4 DEF WorkerStep, MarkArchiving, StoreBatch, StoreFails, StoreRefused,
           NoteCandidate, MarkArchived, WorkerReturns, WorkerThrows, WorkerFault, WJobThrows, WFree,
           MarkFailedRetryable, MarkFailedBlocked, NoticeRead, NoticeWrite
      <3>2. QED
        BY <1>5, <3>1
    <2>5. QED
      BY <2>2, <2>3, <2>4
  <1>6. ASSUME NEW s \in Slots, WorkerStep(s)
        PROVE  PointedFirst'
    <2>1. \A c \in Cands : Done(s, c)' => wb'[s] = wb[s]
      <3>1. CASE WorkerReturns(s) \/ WorkerThrows(s) \/ WorkerFault(s)
        BY <3>1 DEF WorkerReturns, WorkerThrows, WorkerFault, WJobThrows, WFree, WGoto, Done,
           TypeOK, WorkerOK
      <3>2. CASE ~(WorkerReturns(s) \/ WorkerThrows(s) \/ WorkerFault(s))
        BY <1>6, <3>2 DEF WorkerStep, MarkArchiving, StoreBatch, StoreFails, StoreRefused,
           ReadCandidates, PointCandidate, NoteCandidate, MarkArchived, MarkFailedRetryable,
           MarkFailedBlocked, NoticeRead, NoticeWrite
      <3>3. QED
        BY <3>1, <3>2
    <2>2. QED
      BY <1>2, <1>3, <1>5, <1>6, <2>1, OtherSlots
  <1>7. ASSUME NEW s \in Slots, NEW b \in Batches, Take(s, b)
        PROVE  PointedFirst'
    <2>1. \A c \in Cands : ~Done(s, c)'
      BY <1>7 DEF Done, Take, WGoto, TypeOK, WorkerOK
    <2>2. QED
      BY <1>2, <1>3, <1>7, <2>1, OtherSlots
  <1>8. CASE Crash
    BY <1>3, <1>8 DEF Crash, Done
  <1>9. ASSUME ExtractionStep \/ \E p \in Passes : PassStep(p)
        PROVE  UNCHANGED worker
    BY <1>9 DEF ExtractionStep, LoadContext, MarkIntelligence, Extract, Persist, CreateArchive,
       EnqueueArchive, MarkArchiveQueued, FinalRead, FinalWrite, ExtractionEnds, ExtractionFault,
       NotE, PassStep, Scan, Visit, Requeue, MarkRequeued, RequeueFault, ScanEnds, NotR
  <1>10. ASSUME NEW b \in Batches, BecomesDue(b) \/ Evict(b)
         PROVE  UNCHANGED worker
    BY <1>10 DEF BecomesDue, Evict
  <1>11. QED
    BY <1>4, <1>6, <1>7, <1>8, <1>9, <1>10 DEF Next

\* No step shows a batch as archived before its memories can be read.
LEMMA ReadableStep ==
    ASSUME TypeOK, Numbered, JobOwned, PassOwned, PointedFirst, ArchivedIsReadable, Next
    PROVE  ArchivedIsReadable'
  <1> DEFINE Fine(b, c) == cand[c].ref # 0 \/ FoundAgain(b, c)
             Archived(b) == archive[b].status = "archived"
  <1>1. ASSUME NEW b \in Batches, Held(b), NEW c \in Cands, Fine(b, c)
        PROVE  Fine(b, c)'
    BY <1>1, FineStays
  <1>2. ASSUME NEW b \in Batches, Archived(b), NEW c \in found'[b]
        PROVE  Fine(b, c)'
    <2>1. Held(b) /\ found'[b] = found[b]
      BY <1>2, BatchKept DEF Held
    <2>2. c \in Cands /\ Fine(b, c)
      BY <1>2, <2>1 DEF ArchivedIsReadable, TypeOK, TablesOK
    <2>3. QED
      BY <1>1, <2>1, <2>2
  <1>3. ASSUME NEW b \in Batches, Archived(b)', ~Archived(b), NEW c \in found'[b]
        PROVE  Fine(b, c)'
    <2> USE DEF TypeOK, TablesOK
    <2>1. PICK s \in Slots : MarkArchived(s) /\ wb[s] = b
      <3>1. ASSUME ExtractionStep
            PROVE  FALSE
        BY <1>3, <3>1 DEF ExtractionStep, LoadContext, MarkIntelligence, Extract, Persist,
           CreateArchive, EnqueueArchive, MarkArchiveQueued, FinalRead, FinalWrite,
           ExtractionEnds, ExtractionFault, MarkQueued
      <3>2. ASSUME NEW s \in Slots, WorkerStep(s)
            PROVE  MarkArchived(s) /\ wb[s] = b
        <4>1. CASE MarkArchiving(s)
          BY <1>3, <4>1 DEF MarkArchiving, SetArchive
        <4>2. CASE MarkArchived(s)
          BY <1>3, <4>2 DEF MarkArchived
        <4>3. CASE MarkFailedRetryable(s) \/ MarkFailedBlocked(s)
          BY <1>3, <4>3 DEF MarkFailedRetryable, MarkFailedBlocked
        <4>4. CASE archive' = archive
          BY <1>3, <4>4
        <4>5. QED
          BY <3>2, <4>1, <4>2, <4>3, <4>4 DEF WorkerStep, StoreBatch, StoreFails, StoreRefused,
             ReadCandidates, PointCandidate, NoteCandidate, WorkerReturns, WorkerThrows,
             WorkerFault, NoticeRead, NoticeWrite
      <3>3. ASSUME NEW p \in Passes, PassStep(p)
            PROVE  FALSE
        BY <1>3, <3>3 DEF PassStep, Scan, Visit, Requeue, MarkRequeued, RequeueFault, ScanEnds,
           NotR, MarkQueued
      <3>4. ASSUME NEW d \in Batches, BecomesDue(d) \/ Evict(d)
            PROVE  FALSE
        BY <1>3, <3>4 DEF BecomesDue, Evict
      <3>5. ASSUME NEW s \in Slots, NEW d \in Batches, Take(s, d)
            PROVE  FALSE
        BY <1>3, <3>5 DEF Take
      <3>6. ASSUME Crash
            PROVE  FALSE
        BY <1>3, <3>6 DEF Crash
      <3>7. QED
        BY <3>1, <3>2, <3>3, <3>4, <3>5, <3>6 DEF Next
    <2>2. wpc[s] = "ok_row" /\ found' = found /\ Held(b)
      BY <2>1 DEF MarkArchived, NotW, JobOwned
    <2>3. c \in Cands /\ c \in found[wb[s]]
      BY <1>3, <2>1, <2>2
    <2>4. Fine(wb[s], c)
      BY <2>2, <2>3 DEF PointedFirst
    <2>5. QED
      BY <1>1, <2>1, <2>2, <2>3, <2>4
  <1>4. QED
    BY <1>2, <1>3 DEF ArchivedIsReadable

\* The invariant holds initially.
LEMMA InitHolds == Init => IInv
  <1> SUFFICES ASSUME Init
               PROVE  IInv
    OBVIOUS
  <1> USE ArchiveAssumption DEF Init
  <1>1. TypeOK
    <2>1. TablesOK
      BY DEF TablesOK, ArchiveStatus, NoJob, Waiting, Artifact
    <2>2. ExtractionOK /\ WorkerOK /\ ReconOK
      BY DEF ExtractionOK, WorkerOK, ReconOK, EPcs, WPcs, RPcs, Waiting, Artifact
    <2>3. QED
      BY <2>1, <2>2 DEF TypeOK
  <1>2. Numbered /\ ArchivedIsReadable
    BY DEF Numbered, Held, ArchivedIsReadable, Batches
  <1>3. JobOwned /\ PassOwned /\ StoredFirst /\ PointedFirst
    BY DEF JobOwned, PassOwned, StoredFirst, PointedFirst, NoJob
  <1>4. QED
    BY <1>1, <1>2, <1>3 DEF IInv

\* Every step keeps the invariant.
LEMMA StepHolds == IInv /\ [Next]_vars => IInv'
  <1> SUFFICES ASSUME IInv, [Next]_vars
               PROVE  IInv'
    OBVIOUS
  <1>1. CASE Next
    <2>1. TypeOK'
      BY <1>1, TypeExtraction, TypeWorker, TypeRest DEF IInv, Next
    <2>2. Numbered' /\ JobOwned' /\ PassOwned'
      BY <1>1, NumberedStep, JobOwnedStep, PassOwnedStep DEF IInv
    <2>3. StoredFirst' /\ ArchivedIsReadable' /\ PointedFirst'
      BY <1>1, StoredFirstStep, ReadableStep, PointedFirstStep DEF IInv
    <2>4. QED
      BY <2>1, <2>2, <2>3 DEF IInv
  <1>2. CASE UNCHANGED vars
    <2>1. TypeOK'
      BY <1>2 DEF IInv, TypeOK, TablesOK, ExtractionOK, WorkerOK, ReconOK, vars, extraction,
         worker, recon, budgets
    <2>2. Numbered' /\ JobOwned' /\ PassOwned'
      BY <1>2 DEF IInv, Numbered, JobOwned, PassOwned, Held, vars, extraction, worker, recon
    <2>3. StoredFirst' /\ ArchivedIsReadable' /\ PointedFirst'
      BY <1>2 DEF IInv, StoredFirst, ArchivedIsReadable, PointedFirst, FoundAgain, vars, worker
    <2>4. QED
      BY <2>1, <2>2, <2>3 DEF IInv
  <1>3. QED
    BY <1>1, <1>2

\* IInv is an invariant, for every number of attempts, slots, passes and faults.
THEOREM Inductive == Spec => []IInv
<1>. QED BY InitHolds, StepHolds, PTL DEF Spec

\* The rows, the jobs and every process hold values their readers know, and no
\* job is attempted more often than the queue's options allow.
THEOREM TypeCorrect == Spec => []TypeOK
<1>1. IInv => TypeOK BY DEF IInv
<1>. QED BY Inductive, <1>1, PTL

\* An archive row that says "archived" is one whose memories can all be read,
\* but for those that a later attempt of the extraction has found again.
THEOREM ArchivedCanBeRead == Spec => []ArchivedIsReadable
<1>1. IInv => ArchivedIsReadable BY DEF IInv
<1>. QED BY Inductive, <1>1, PTL

-----------------------------------------------------------------------------
(* The refinement of ArchiveDelivery *)

heldContents == [b \in Batches |-> IF Held(b) THEN found[b] ELSE {}]
storedBatches == {b \in Batches : blob[b]}
pointOf == [c \in Cands |-> cand[c].ref]

\* The batches a step holds: none, or the one the extraction makes a row for.
LEMMA HoldStep ==
    ASSUME IInv, Next
    PROVE  \/ heldContents' = heldContents
           \/ /\ CreateArchive
              /\ eb \in Batches /\ found[eb] # {} /\ heldContents[eb] = {}
              /\ found[eb] \in SUBSET Cands
              /\ heldContents' = [heldContents EXCEPT ![eb] = found[eb]]
  <1> USE DEF IInv
  <1>1. CASE CreateArchive
    <2>1. /\ eb \in Batches /\ ~Held(eb) /\ Held(eb)' /\ found[eb] # {} /\ found' = found
          /\ \A b \in Batches : b # eb => (Held(b)' <=> Held(b))
      BY <1>1, RowsMade DEF ExtractionStep
    <2>2. found[eb] \in SUBSET Cands /\ eb' = eb
      BY <1>1, <2>1 DEF TypeOK, TablesOK, CreateArchive
    <2>3. archive'[eb].status # "none"
      BY <2>1, <2>2 DEF Held
    <2>4. \A b \in Batches : heldContents'[b] = IF b = eb THEN found[eb] ELSE heldContents[b]
      BY <2>1, <2>2, <2>3 DEF heldContents, Held
    <2>5. heldContents' = [heldContents EXCEPT ![eb] = found[eb]]
      BY <2>1, <2>4 DEF heldContents
    <2>6. QED
      BY <1>1, <2>1, <2>2, <2>5 DEF heldContents
  <1>2. CASE ~CreateArchive
    <2>1. \A b \in Batches : (Held(b)' <=> Held(b)) /\ (Held(b) => found'[b] = found[b])
      BY <1>2, RowsKept, RowsMade DEF Next
    <2>2. QED
      BY <2>1 DEF heldContents
  <1>3. QED
    BY <1>1, <1>2

\* The batches a step stores: none, or that of a slot in its store.
LEMMA StoreStep ==
    ASSUME IInv, Next
    PROVE  \/ storedBatches' = storedBatches
           \/ \E s \in Slots :
                /\ StoreBatch(s) \/ StoreFails(s)
                /\ wb[s] \in Batches /\ heldContents[wb[s]] # {}
                /\ wb[s] \notin storedBatches
                /\ storedBatches' = storedBatches \cup {wb[s]}
  <1> USE DEF IInv
  <1>1. ASSUME NEW s \in Slots, StoreBatch(s) \/ StoreFails(s), blob' # blob
        PROVE  /\ wb[s] \in Batches /\ heldContents[wb[s]] # {}
               /\ storedBatches' = storedBatches \cup {wb[s]}
    <2>1. /\ wb[s] \in Batches /\ Held(wb[s]) /\ found[wb[s]] # {}
          /\ blob' = [blob EXCEPT ![wb[s]] = TRUE]
      BY <1>1 DEF StoreBatch, StoreFails, JobOwned, Numbered
    <2>2. QED
      BY <2>1 DEF heldContents, storedBatches, TypeOK, TablesOK
  <1>2. ASSUME ~\E s \in Slots : StoreBatch(s) \/ StoreFails(s)
        PROVE  blob' = blob
    <2>1. ASSUME NEW s \in Slots, WorkerStep(s)
          PROVE  blob' = blob
      BY <1>2, <2>1 DEF WorkerStep, MarkArchiving, StoreRefused, ReadCandidates, PointCandidate,
         NoteCandidate, MarkArchived, WorkerReturns, MarkFailedRetryable, WorkerThrows,
         MarkFailedBlocked, NoticeRead, NoticeWrite, WorkerFault
    <2>2. ASSUME NEW p \in Passes, PassStep(p)
          PROVE  blob' = blob
      BY <2>2 DEF PassStep, Scan, Visit, Requeue, MarkRequeued, RequeueFault, ScanEnds, NotR
    <2>3. ASSUME NEW s \in Slots, NEW b \in Batches, Take(s, b)
          PROVE  blob' = blob
      BY <2>3 DEF Take
    <2>4. ASSUME NEW b \in Batches, BecomesDue(b) \/ Evict(b)
          PROVE  blob' = blob
      BY <2>4 DEF BecomesDue, Evict
    <2>5. CASE Crash
      BY <2>5 DEF Crash
    <2>6. QED
      BY <2>1, <2>2, <2>3, <2>4, <2>5, RowsMade DEF Next
  <1>3. CASE blob' = blob
    BY <1>3 DEF storedBatches
  <1>4. QED
    BY <1>1, <1>2, <1>3

\* The candidate a step changes the reference of: none, one that a slot points
\* at its stored batch, or one that is extracted again.
LEMMA PointStep ==
    ASSUME IInv, Next
    PROVE  \/ pointOf' = pointOf
           \/ \E s \in Slots, c \in Cands :
                /\ PointCandidate(s, c)
                /\ wb[s] \in Batches /\ wb[s] \in storedBatches /\ c \in heldContents[wb[s]]
                /\ pointOf' = [pointOf EXCEPT ![c] = wb[s]]
           \/ \E c \in Cands :
                /\ Persist(c)
                /\ pointOf' = [pointOf EXCEPT ![c] = 0]
  <1> USE DEF IInv
  <1>1. ASSUME NEW s \in Slots, NEW c \in Cands, PointCandidate(s, c)
        PROVE  /\ wb[s] \in Batches /\ wb[s] \in storedBatches /\ c \in heldContents[wb[s]]
               /\ pointOf' = [pointOf EXCEPT ![c] = wb[s]]
    <2>1. /\ wb[s] \in Batches /\ Held(wb[s]) /\ blob[wb[s]] /\ c \in found[wb[s]]
      BY <1>1 DEF PointCandidate, JobOwned, StoredFirst
    <2>2. QED
      BY <1>1, <2>1 DEF PointCandidate, pointOf, storedBatches, heldContents, TypeOK, TablesOK
  <1>2. ASSUME NEW c \in Cands, Persist(c)
        PROVE  pointOf' = [pointOf EXCEPT ![c] = 0]
    BY <1>2 DEF Persist, pointOf, TypeOK, TablesOK
  <1>3. ASSUME NEW s \in Slots, NEW c \in Cands, NoteCandidate(s, c)
        PROVE  pointOf' = pointOf
    BY <1>3 DEF NoteCandidate, pointOf, TypeOK, TablesOK
  <1>4. CASE cand' = cand
    BY <1>4 DEF pointOf
  <1>5. ASSUME NEW s \in Slots, WorkerStep(s),
               ~\E c \in Cands : PointCandidate(s, c) \/ NoteCandidate(s, c)
        PROVE  cand' = cand
    BY <1>5 DEF WorkerStep, MarkArchiving, StoreBatch, StoreFails, StoreRefused, ReadCandidates,
       MarkArchived, WorkerReturns, MarkFailedRetryable, WorkerThrows, MarkFailedBlocked,
       NoticeRead, NoticeWrite, WorkerFault
  <1>6. ASSUME ExtractionStep, ~\E c \in Cands : Persist(c)
        PROVE  cand' = cand
    BY <1>6 DEF ExtractionStep, LoadContext, MarkIntelligence, Extract, CreateArchive,
       EnqueueArchive, MarkArchiveQueued, FinalRead, FinalWrite, ExtractionEnds, ExtractionFault
  <1>7. ASSUME NEW p \in Passes, PassStep(p)
        PROVE  cand' = cand
    BY <1>7 DEF PassStep, Scan, Visit, Requeue, MarkRequeued, RequeueFault, ScanEnds, NotR
  <1>8. ASSUME NEW s \in Slots, NEW b \in Batches, Take(s, b)
        PROVE  cand' = cand
    BY <1>8 DEF Take
  <1>9. ASSUME NEW b \in Batches, BecomesDue(b) \/ Evict(b)
        PROVE  cand' = cand
    BY <1>9 DEF BecomesDue, Evict
  <1>10. CASE Crash
    BY <1>10 DEF Crash, pointOf
  <1>11. QED
    BY <1>1, <1>2, <1>3, <1>4, <1>5, <1>6, <1>7, <1>8, <1>9, <1>10 DEF Next

\* Every step of CandidateArchive is one of ArchiveDelivery or changes nothing
\* that it sees.
LEMMA StepImplements ==
    IInv /\ [Next]_vars => [Delivery!Next]_(Delivery!dvars)
  <1> SUFFICES ASSUME IInv, [Next]_vars
               PROVE  [Delivery!Next]_<<heldContents, storedBatches, pointOf>>
    BY DEF Delivery!dvars, heldContents, storedBatches, pointOf
  <1> DEFINE Hold == heldContents' = heldContents
             Store == storedBatches' = storedBatches
             Point == pointOf' = pointOf
  <1>1. CASE UNCHANGED vars
    BY <1>1 DEF heldContents, storedBatches, pointOf, Held, vars
  <1>2. CASE Next /\ CreateArchive
    <2>1. Store /\ Point
      BY <1>2 DEF CreateArchive, NotE, storedBatches, pointOf
    <2>2. CASE heldContents' # heldContents
      <3>1. PICK b \in Batches, ids \in SUBSET Cands :
               /\ ids # {} /\ heldContents[b] = {}
               /\ heldContents' = [heldContents EXCEPT ![b] = ids]
        BY <1>2, <2>2, HoldStep
      <3>2. Delivery!Hold(b, ids)
        BY <2>1, <3>1 DEF Delivery!Hold, heldContents, storedBatches, pointOf
      <3>3. QED
        BY <3>2 DEF Delivery!Next, Batches
    <2>3. QED
      BY <2>1, <2>2
  <1>3. CASE Next /\ \E s \in Slots : StoreBatch(s) \/ StoreFails(s)
    <2>1. Hold /\ Point
      BY <1>3 DEF StoreBatch, StoreFails, NotW, Held, heldContents, pointOf
    <2>2. CASE storedBatches' # storedBatches
      <3>1. PICK b \in Batches : /\ heldContents[b] # {} /\ b \notin storedBatches
                                 /\ storedBatches' = storedBatches \cup {b}
        BY <1>3, <2>2, StoreStep
      <3>2. Delivery!Store(b)
        BY <2>1, <3>1 DEF Delivery!Store, heldContents, storedBatches, pointOf
      <3>3. QED
        BY <3>1, <3>2 DEF Delivery!Next, Batches
    <2>3. QED
      BY <2>1, <2>2
  <1>4. CASE Next /\ ~CreateArchive /\ ~\E s \in Slots : StoreBatch(s) \/ StoreFails(s)
    <2>1. Hold /\ Store
      BY <1>4, HoldStep, StoreStep
    <2>2. ASSUME NEW c \in Cands, NEW b \in Batches,
                 b \in storedBatches, c \in heldContents[b],
                 pointOf' = [pointOf EXCEPT ![c] = b]
          PROVE  Delivery!Next
      <3>1. Delivery!Point(c, b)
        BY <2>1, <2>2 DEF Delivery!Point, heldContents, storedBatches, pointOf
      <3>2. QED
        BY <3>1 DEF Delivery!Next, Batches
    <2>3. ASSUME NEW c \in Cands, pointOf' = [pointOf EXCEPT ![c] = 0]
          PROVE  Delivery!Next
      <3>1. Delivery!Unpoint(c)
        BY <2>1, <2>3 DEF Delivery!Unpoint, heldContents, storedBatches, pointOf
      <3>2. QED
        BY <3>1 DEF Delivery!Next
    <2>4. QED
      BY <1>4, <2>1, <2>2, <2>3, PointStep
  <1>5. QED
    BY <1>1, <1>2, <1>3, <1>4

\* A memory only ever refers to a stored batch that contains it, and a batch in
\* the database is never changed or taken back: CandidateArchive implements the
\* safety of ArchiveDelivery.
THEOREM ArchivesDeliver == Spec => DeliverySafe
<1>1. Init => Delivery!Init
  BY DEF Init, Delivery!Init, Held, Batches
<1>2. QED
  BY Inductive, <1>1, StepImplements, PTL DEF Spec, DeliverySafe, Delivery!Safe
=============================================================================
