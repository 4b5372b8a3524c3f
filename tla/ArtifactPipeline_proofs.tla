----------------------- MODULE ArtifactPipeline_proofs -----------------------
(***************************************************************************)
(* What a run of ArtifactPipeline never does, for every number of          *)
(* artifacts, jobs, slots, reconciler passes, requests, faults and         *)
(* crashes: TypeOK, SingleHolder and CompletedHasFragment are invariants.  *)
(*                                                                         *)
(* None of them is inductive.  SingleHolder needs to know that a claimed   *)
(* row is not shown as claimable (Claimed); CompletedHasFragment that a    *)
(* processor past the storing step, and every intelligence job, has its    *)
(* fragment (FragmentFirst); and all of them who works on what: a slot on  *)
(* an active job of its own (JobOwned), an intelligence slot on an active  *)
(* intelligence job of its own (IntelOwned).                               *)
(*                                                                         *)
(* The last part is about StatusStream, which takes the writes of these    *)
(* processors to one row and follows them to the browser: for every number *)
(* of streams, mishaps and attempts, StreamTypeOK, SubscriptionFollowsMap  *)
(* and EndWasWritten are invariants of it.  The first needs a set that     *)
(* nobody has made yet for each stream that subscribes, and there is one   *)
(* because the stream has none itself (Unmade).  The others speak of what  *)
(* is on its way: the last command sent agrees with the map (Follows), and *)
(* no terminal event is anywhere before its row was written (Told).        *)
(***************************************************************************)
EXTENDS ArtifactPipeline, StatusStream, SequenceTheorems, FiniteSetTheorems, TLAPS

\* Whoever is at work knows its artifact.
Owned ==
    /\ \A w \in Processors : pc[w] \notin {"idle", "scan"} => art[w] \in Artifacts
    /\ \A r \in Requests : rpc[r] \notin {"idle", "done"} => rart[r] \in Artifacts
    /\ \A j \in Jobs : job[j].state # "absent" => job[j].art \in Artifacts

\* A busy slot holds an active job that no other slot holds.
JobOwned ==
    /\ \A w \in Slots : pc[w] # "idle" => job[jb[w]].state = "active"
    /\ \A v, w \in Slots :
         (pc[v] # "idle" /\ pc[w] # "idle" /\ jb[v] = jb[w]) => v = w

\* A busy intelligence slot holds the active job of an artifact of its own.
IntelOwned ==
    /\ \A i \in ISlots : ipc[i] # "idle" =>
         iart[i] \in Artifacts /\ ijob[iart[i]].state = "active"
    /\ \A i, k \in ISlots :
         (ipc[i] # "idle" /\ ipc[k] # "idle" /\ iart[i] = iart[k]) => i = k
    /\ \A a \in Artifacts :
         ijob[a].attempts = MaxAttempts => ijob[a].state = "failed"

\* The fragment comes before everything that is built on it.
FragmentFirst ==
    /\ CompletedHasFragment
    /\ \A w \in Processors :
         pc[w] \in {"index", "indexing", "enqueue", "complete"} => fragment[art[w]]
    /\ \A a \in Artifacts : ijob[a].state # "absent" => fragment[a]

\* A row that is being worked on is not up for a claim.
Claimed ==
    /\ \A w \in Processors : (pc[w] \in HoldPcs /\ ~overtaken[art[w]]) =>
         status[art[w]] \notin {"none", "queued", "pending"}
    /\ \A v, w \in Processors :
         (pc[v] \in HoldPcs /\ pc[w] \in HoldPcs /\ art[v] = art[w]
            /\ ~overtaken[art[v]]) => v = w

IInv == TypeOK /\ Owned /\ JobOwned /\ IntelOwned /\ FragmentFirst /\ Claimed

-----------------------------------------------------------------------------
(* What the helpers of the model do *)

\* A write to the row keeps the row well-formed.
LEMMA MarkRow ==
    ASSUME RowOK, NEW a \in Artifacts, NEW s \in Status, NEW m \in Meta, Mark(a, s, m)
    PROVE  RowOK'
  BY DEF RowOK, Mark

\* The metadata withProcessingState writes is well-formed.
LEMMA ReplacedMeta ==
    ASSUME NEW retrying \in BOOLEAN, NEW i \in Intel
    PROVE  Replaced(retrying, i) \in Meta /\ Fresh \in Meta
  BY PipelineAssumption DEF Replaced, Fresh, Meta, Intel

\* A job that ends takes the slot's work with it and changes no other job.
LEMMA ReturnsFacts ==
    ASSUME JobOK, ProcOK, NEW w \in Slots, JobReturns(w)
    PROVE  /\ JobOK' /\ ProcOK'
           /\ pc' = [pc EXCEPT ![w] = "idle"]
           /\ art' = [art EXCEPT ![w] = 0]
           /\ jb' = [jb EXCEPT ![w] = AnyJob]
           /\ \A j \in Jobs : j # jb[w] => job'[j] = job[j]
           /\ job'[jb[w]].state = "absent"
  <1>1. AnyJob \in Jobs
    BY PipelineAssumption DEF AnyJob
  <1>2. NoJob \in [state : JobState, art : Artifacts \cup {0},
                   attempts : 0..MaxAttempts, stalled : BOOLEAN]
    BY PipelineAssumption DEF NoJob, JobState
  <1>3. Fresh \in Meta
    BY ReplacedMeta DEF Intel
  <1>4. JobOK'
    BY <1>2 DEF JobOK, JobReturns
  <1>5. ProcOK'
    BY <1>1, <1>3, PipelineAssumption DEF ProcOK, JobReturns, Free, Pcs, Processors
  <1>6. jb[w] \in Jobs /\ job' = [job EXCEPT ![jb[w]] = NoJob] /\ NoJob.state = "absent"
    BY DEF ProcOK, JobReturns, NoJob
  <1>7. job'[jb[w]] = NoJob /\ \A j \in Jobs : j # jb[w] => job'[j] = job[j]
    BY <1>6 DEF JobOK
  <1>8. QED
    BY <1>4, <1>5, <1>6, <1>7 DEF JobReturns, Free

\* Counting an attempt keeps a job record well-formed while there is one left.
LEMMA NextIntelAttempt ==
    ASSUME NEW T, NEW s \in T,
           NEW j \in [state : T, attempts : 0..MaxAttempts, stalled : BOOLEAN],
           j.attempts < MaxAttempts
    PROVE  LET k == [j EXCEPT !.state = s, !.attempts = @ + 1] IN
           /\ k \in [state : T, attempts : 0..MaxAttempts, stalled : BOOLEAN]
           /\ k.state = s
           /\ k.attempts = j.attempts + 1
  <1>1. j.attempts + 1 \in 0..MaxAttempts
    BY PipelineAssumption
  <1>2. QED
    BY <1>1

\* A job whose attempt fails keeps its artifact or goes away.
LEMMA ThrowsFacts ==
    ASSUME JobOK, ProcOK, NEW w \in Slots, JobThrows(w)
    PROVE  /\ JobOK' /\ ProcOK'
           /\ pc' = [pc EXCEPT ![w] = "idle"]
           /\ art' = [art EXCEPT ![w] = 0]
           /\ jb' = [jb EXCEPT ![w] = AnyJob]
           /\ \A j \in Jobs : j # jb[w] => job'[j] = job[j]
           /\ \/ job'[jb[w]].state = "absent"
              \/ job'[jb[w]].art = job[jb[w]].art
  <1>1. AnyJob \in Jobs
    BY PipelineAssumption DEF AnyJob
  <1> DEFINE R == [state : JobState, art : Artifacts \cup {0},
                   attempts : 0..MaxAttempts, stalled : BOOLEAN]
             old == job[jb[w]]
             again == [old EXCEPT !.state = "waiting", !.attempts = @ + 1]
  <1>2. NoJob \in R
    BY PipelineAssumption DEF NoJob, JobState
  <1>3. old \in R
    BY DEF JobOK, ProcOK
  <1>4. old.attempts + 1 < MaxAttempts => again \in R /\ again.art = old.art
    <2>1. SUFFICES ASSUME old.attempts + 1 < MaxAttempts
                   PROVE  again \in R /\ again.art = old.art
      OBVIOUS
    <2>2. "waiting" \in JobState /\ old.attempts + 1 \in 0..MaxAttempts
      BY <1>3, <2>1, PipelineAssumption DEF JobState
    <2>3. QED
      BY <1>3, <2>2
  <1>5. job' = [job EXCEPT ![jb[w]] = IF old.attempts + 1 < MaxAttempts
                                      THEN again ELSE NoJob]
    BY DEF JobThrows
  <1>6. jb[w] \in Jobs
    BY DEF ProcOK
  <1>7. JobOK'
    BY <1>2, <1>4, <1>5, <1>6 DEF JobOK
  <1>8. Fresh \in Meta
    BY ReplacedMeta DEF Intel
  <1>9. ProcOK'
    BY <1>1, <1>8, PipelineAssumption DEF ProcOK, JobThrows, Free, Pcs, Processors
  <1>11. \/ job'[jb[w]] = again /\ again.art = old.art
         \/ job'[jb[w]] = NoJob
    BY <1>4, <1>5, <1>6 DEF JobOK
  <1>10. \A j \in Jobs : j # jb[w] => job'[j] = job[j]
    BY <1>5, <1>6 DEF JobOK
  <1>12. QED
    BY <1>7, <1>9, <1>10, <1>11 DEF JobThrows, Free, NoJob

\* The end of a visit releases the artifact and, in a slot, ends the job.
LEMMA VisitEndsFacts ==
    ASSUME JobOK, ProcOK, NEW w \in Processors, VisitEnds(w)
    PROVE  /\ JobOK' /\ ProcOK'
           /\ \E l \in {"idle", "scan"} : pc' = [pc EXCEPT ![w] = l]
           /\ w \in Slots => pc' = [pc EXCEPT ![w] = "idle"]
           /\ art' = [art EXCEPT ![w] = 0]
           /\ \A v \in Slots : v # w => jb'[v] = jb[v]
           /\ \A j \in Jobs : job'[j] = job[j] \/ job'[j].state = "absent"
           /\ \A j \in Jobs : (w \notin Slots \/ j # jb[w]) => job'[j] = job[j]
  <1>1. CASE w \in Slots /\ JobReturns(w)
    <2>1. /\ JobOK' /\ ProcOK'
          /\ pc' = [pc EXCEPT ![w] = "idle"]
          /\ art' = [art EXCEPT ![w] = 0]
          /\ jb' = [jb EXCEPT ![w] = AnyJob]
          /\ \A j \in Jobs : j # jb[w] => job'[j] = job[j]
          /\ job'[jb[w]].state = "absent"
      BY <1>1, ReturnsFacts
    <2>2. \A v \in Slots : v # w => jb'[v] = jb[v]
      BY <2>1 DEF ProcOK
    <2>3. QED
      BY <1>1, <2>1, <2>2
  <1>2. CASE w \in Passes /\ Goto(w, "scan") /\ art' = [art EXCEPT ![w] = 0]
             /\ UNCHANGED <<job, jb, snap, plan, todo>>
    BY <1>2, PipelineAssumption DEF JobOK, ProcOK, Goto, Pcs, Processors
  <1>3. QED
    BY <1>1, <1>2 DEF VisitEnds

\* A visit that fails leaves the job where it is.
LEMMA VisitFailsFacts ==
    ASSUME JobOK, ProcOK, NEW w \in Processors, VisitFails(w)
    PROVE  /\ JobOK' /\ ProcOK'
           /\ UNCHANGED <<job, jb>>
           /\ \/ /\ w \in Slots
                 /\ pc' = [pc EXCEPT ![w] = "fatal_read"]
                 /\ UNCHANGED art
              \/ /\ w \in Passes
                 /\ pc' = [pc EXCEPT ![w] = "idle"]
                 /\ art' = [art EXCEPT ![w] = 0]
  <1>1. CASE w \in Slots /\ Goto(w, "fatal_read") /\ UNCHANGED <<job, art, jb, snap, plan, todo>>
    BY <1>1 DEF JobOK, ProcOK, Goto, Pcs, CatchPcs
  <1>2. CASE w \in Passes /\ Goto(w, "idle") /\ art' = [art EXCEPT ![w] = 0]
             /\ todo' = [todo EXCEPT ![w] = {}] /\ UNCHANGED <<job, jb, snap, plan>>
    BY <1>2 DEF JobOK, ProcOK, Goto, Pcs
  <1>3. QED
    BY <1>1, <1>2 DEF VisitFails

\* An intelligence job ends its attempt within the attempts it has.
LEMMA IThrowsFacts ==
    ASSUME IntelOK, IntelOwned, NEW i \in ISlots, ipc[i] # "idle", IJobThrows(i)
    PROVE  /\ IntelOK'
           /\ ipc' = [ipc EXCEPT ![i] = "idle"]
           /\ iart' = [iart EXCEPT ![i] = 0]
           /\ \A a \in Artifacts : a # iart[i] => ijob'[a] = ijob[a]
           /\ ijob'[iart[i]].state \in {"waiting", "failed"}
           /\ ijob'[iart[i]].attempts = MaxAttempts => ijob'[iart[i]].state = "failed"
  <1> DEFINE R == [state : IJobState, attempts : 0..MaxAttempts, stalled : BOOLEAN]
             old == ijob[iart[i]]
             next == IF old.attempts + 1 < MaxAttempts THEN "waiting" ELSE "failed"
             new == [old EXCEPT !.state = next, !.attempts = @ + 1]
  <1>1. iart[i] \in Artifacts /\ old \in R /\ old.attempts # MaxAttempts
    BY DEF IntelOK, IntelOwned
  <1>2. /\ new \in R
        /\ new.state \in {"waiting", "failed"}
        /\ new.attempts = MaxAttempts => new.state = "failed"
    <2>1. next \in IJobState /\ old.attempts < MaxAttempts
      BY <1>1, PipelineAssumption DEF IJobState
    <2>2. new \in R /\ new.state = next /\ new.attempts = old.attempts + 1
      BY <1>1, <2>1, NextIntelAttempt
    <2>3. QED
      BY <1>1, <2>2, PipelineAssumption
  <1>3. ijob' = [ijob EXCEPT ![iart[i]] = new]
    BY DEF IJobThrows
  <1>4. Fresh \in Meta
    BY ReplacedMeta DEF Intel
  <1>5. IntelOK'
    BY <1>1, <1>2, <1>3, <1>4 DEF IntelOK, IJobThrows, IFree, IPcs
  <1>6. /\ ijob'[iart[i]] = new
        /\ \A a \in Artifacts : a # iart[i] => ijob'[a] = ijob[a]
    BY <1>1, <1>3 DEF IntelOK
  <1>7. QED
    BY <1>2, <1>5, <1>6 DEF IJobThrows, IFree

\* A crash returns a job to its queue or gives it up; its artifact stays.
LEMMA RecoveredFacts ==
    ASSUME NEW S, NEW j \in [state : {"absent", "waiting", "active"}, art : S,
                             attempts : 0..MaxAttempts, stalled : BOOLEAN]
    PROVE  /\ Recovered(j) \in [state : {"absent", "waiting", "failed"}, art : S,
                                attempts : 0..MaxAttempts, stalled : BOOLEAN]
           /\ Recovered(j).art = j.art
           /\ Recovered(j).state = "absent" <=> j.state = "absent"
  BY DEF Recovered

-----------------------------------------------------------------------------
(* Type correctness *)

\* A processor that writes the row and goes on.
LEMMA MarkAndGo ==
    ASSUME TypeOK, NEW w \in Processors, NEW l \in Pcs, Goto(w, l),
           NEW a \in Artifacts, NEW s \in Status, NEW m \in Meta, Mark(a, s, m),
           overtaken' \in [Artifacts -> BOOLEAN], faults' \in 0..MaxFaults,
           UNCHANGED <<fragment, job, Locals, Others>>
    PROVE  TypeOK'
  <1>1. RowOK'
    BY MarkRow DEF TypeOK
  <1>2. ProcOK'
    BY DEF TypeOK, ProcOK, Goto, Locals
  <1>3. QED
    BY <1>1, <1>2 DEF TypeOK, JobOK, IntelOK, RestOK, Others, iprocs, reqs

\* A processor that only goes on.
LEMMA GoOn ==
    ASSUME TypeOK, NEW w \in Processors, NEW l \in Pcs, Goto(w, l),
           faults' \in 0..MaxFaults, fragment' \in [Artifacts -> BOOLEAN],
           UNCHANGED <<row, job, Locals, overtaken, Others>>
    PROVE  TypeOK'
  BY DEF TypeOK, RowOK, ProcOK, JobOK, IntelOK, RestOK, Goto, Locals, Others, row, iprocs, reqs

LEMMA ProcessorType ==
    ASSUME IInv, NEW w \in Processors, ProcessorStep(w)
    PROVE  TypeOK'
  <1> USE DEF IInv
  <1>1. /\ \A s \in HoldPcs \cup TryPcs : s \in Pcs
        /\ \A s \in HoldPcs \cup {"claim", "audit_retry", "audit"} :
             pc[w] = s => art[w] \in Artifacts
    BY DEF Pcs, TryPcs, HoldPcs, Owned
  <1>2. CASE Claim(w)
    BY <1>2 DEF Claim, TypeOK, RowOK, ProcOK, JobOK, IntelOK, RestOK, Goto,
                Locals, Others, iprocs, reqs, Status, Pcs, TryPcs, HoldPcs
  <1>3. CASE SkipClaim(w) \/ Report(w)
    <2>1. JobOK' /\ ProcOK'
      BY <1>3, VisitEndsFacts DEF TypeOK, SkipClaim, Report
    <2>2. QED
      BY <1>3, <2>1 DEF SkipClaim, Report, TypeOK, RowOK, IntelOK, RestOK,
                        Others, row, iprocs, reqs
  <1>4. CASE HoldBack(w)
    BY <1>1, <1>4, MarkAndGo, ReplacedMeta
       DEF HoldBack, TypeOK, RestOK, Status, Intel, HoldPcs, TryPcs
  <1>5. CASE ReadTransient(w)
    <2>1. faults' \in 0..MaxFaults
      BY <1>5, PipelineAssumption DEF ReadTransient, TypeOK, RestOK
    <2>2. Replaced(TRUE, "none") \in Meta
      BY ReplacedMeta DEF Intel
    <2>3. QED
      BY <1>1, <1>5, <2>1, <2>2, MarkAndGo
         DEF ReadTransient, TypeOK, RestOK, Status, HoldPcs, TryPcs
  <1>6. CASE Reject(w)
    BY <1>1, <1>6, MarkAndGo, ReplacedMeta
       DEF Reject, TypeOK, RestOK, Status, Intel, HoldPcs, TryPcs
  <1>7. CASE RejectSilently(w)
    BY <1>1, <1>7, GoOn DEF RejectSilently, TypeOK, RestOK, TryPcs
  <1>8. CASE FindFragment(w)
    BY <1>1, <1>8, GoOn DEF FindFragment, TypeOK, RestOK, HoldPcs
  <1>9. CASE InsertFragment(w)
    BY <1>1, <1>9, GoOn DEF InsertFragment, TypeOK, RestOK, HoldPcs
  <1>10. CASE InsertConflict(w)
    <2>1. JobOK' /\ ProcOK'
      BY <1>10, VisitFailsFacts DEF TypeOK, InsertConflict
    <2>2. QED
      BY <1>10, <2>1 DEF InsertConflict, TypeOK, RowOK, IntelOK, RestOK,
                         Others, row, iprocs, reqs
  <1>11. CASE IndexProgress(w)
    BY <1>1, <1>11, MarkAndGo, ReplacedMeta
       DEF IndexProgress, TypeOK, RestOK, Status, Intel, HoldPcs
  <1>12. CASE IndexDone(w)
    BY <1>1, <1>12, GoOn DEF IndexDone, TypeOK, RestOK, HoldPcs
  <1>13. CASE EnqueueIntelligence(w)
    <2>1. ijob' \in [Artifacts -> [state : IJobState, attempts : 0..MaxAttempts,
                                   stalled : BOOLEAN]]
      BY <1>13, ZenonT(30) DEF EnqueueIntelligence, TypeOK, IntelOK, IJobState
    <2>2. QED
      BY <1>13, <2>1 DEF EnqueueIntelligence, TypeOK, RowOK, ProcOK, JobOK, IntelOK,
           RestOK, Goto, Locals, row, iprocs, reqs, budgets, Pcs, TryPcs, HoldPcs
  <1>14. CASE Complete(w)
    BY <1>1, <1>14, MarkAndGo, ReplacedMeta
       DEF Complete, TypeOK, RestOK, Status, Intel, HoldPcs, TryPcs
  <1>15. CASE ThrowRetryable(w)
    <2>1. CASE w \in Slots /\ Goto(w, "retryable") /\ UNCHANGED <<job, Locals>>
      BY <1>15, <2>1, GoOn DEF ThrowRetryable, TypeOK, RestOK, Pcs, CatchPcs
    <2>2. CASE w \in Passes /\ VisitEnds(w)
      <3>1. JobOK' /\ ProcOK'
        BY <2>2, VisitEndsFacts DEF TypeOK
      <3>2. QED
        BY <1>15, <3>1 DEF ThrowRetryable, TypeOK, RowOK, IntelOK, RestOK,
                           Others, row, iprocs, reqs
    <2>3. QED
      BY <1>15, <2>1, <2>2 DEF ThrowRetryable
  <1>16. CASE TryFault(w)
    <2>1. JobOK' /\ ProcOK'
      BY <1>16, VisitFailsFacts DEF TypeOK, TryFault
    <2>2. faults' \in 0..MaxFaults
      BY <1>16, PipelineAssumption DEF TryFault, TypeOK, RestOK
    <2>3. QED
      BY <1>16, <2>1, <2>2 DEF TryFault, TypeOK, RowOK, IntelOK, RestOK,
                               Others, row, iprocs, reqs
  <1>17. QED
    BY <1>2, <1>3, <1>4, <1>5, <1>6, <1>7, <1>8, <1>9, <1>10, <1>11, <1>12, <1>13,
       <1>14, <1>15, <1>16 DEF ProcessorStep

LEMMA CatchType ==
    ASSUME IInv, NEW w \in Slots, CatchStep(w)
    PROVE  TypeOK'
  <1> USE DEF IInv
  <1>1. /\ w \in Processors
        /\ CatchPcs \subseteq Pcs
        /\ pc[w] \in CatchPcs => art[w] \in Artifacts
    BY DEF Processors, Pcs, CatchPcs, Owned
  <1>2. snap[w] \in Meta /\ plan[w] \in 0..MaxAuto
    BY DEF TypeOK, ProcOK
  <1>3. CASE FatalRead(w) \/ CatchRead(w)
    <2>1. meta[art[w]] \in Meta
      BY <1>1, <1>3 DEF FatalRead, CatchRead, TypeOK, RowOK, CatchPcs
    <2>2. ProcOK'
      BY <1>1, <1>3, <2>1 DEF FatalRead, CatchRead, TypeOK, ProcOK, Goto, CatchPcs
    <2>3. QED
      BY <1>3, <2>2 DEF FatalRead, CatchRead, TypeOK, RowOK, JobOK, IntelOK, RestOK,
                        Others, row, iprocs, reqs
  <1>4. CASE FatalWrite(w) \/ DeadLetterWrite(w)
    <2>1. [snap[w] EXCEPT !.retrying = FALSE] \in Meta
      BY <1>2 DEF Meta
    <2>2. QED
      BY <1>1, <1>4, <2>1, MarkAndGo
         DEF FatalWrite, DeadLetterWrite, TypeOK, RestOK, Status, CatchPcs
  <1>5. CASE WillRetry(w) \/ Exhausted(w)
    BY <1>1, <1>5, GoOn DEF WillRetry, Exhausted, TypeOK, RestOK, CatchPcs
  <1>6. CASE PlanRetry(w)
    <2>1. meta[art[w]].auto \in 0..MaxAuto
      BY <1>1, <1>6 DEF PlanRetry, TypeOK, RowOK, Meta, CatchPcs
    <2>2. plan' \in [Slots -> 0..MaxAuto]
      BY <1>6, <2>1, PipelineAssumption DEF PlanRetry, TypeOK, ProcOK
    <2>3. pc' \in [Processors -> Pcs]
      BY <1>1, <1>6 DEF PlanRetry, Goto, TypeOK, ProcOK, CatchPcs
    <2>4. QED
      BY <1>6, <2>2, <2>3 DEF PlanRetry, TypeOK, RowOK, ProcOK, JobOK, IntelOK, RestOK,
                              Others, row, iprocs, reqs
  <1>7. CASE ScheduleWrite(w)
    <2>1. [snap[w] EXCEPT !.retrying = TRUE, !.auto = plan[w]] \in Meta
      BY <1>2 DEF Meta
    <2>2. overtaken' \in [Artifacts -> BOOLEAN]
      BY <1>1, <1>7 DEF ScheduleWrite, TypeOK, RestOK, CatchPcs
    <2>3. QED
      BY <1>1, <1>7, <2>1, <2>2, MarkAndGo DEF ScheduleWrite, TypeOK, RestOK, Status, CatchPcs
  <1>8. CASE ScheduleEnqueue(w)
    <2>1. NewJob(art[w]) \in [state : JobState, art : Artifacts \cup {0},
                              attempts : 0..MaxAttempts, stalled : BOOLEAN]
      BY <1>1, <1>8, PipelineAssumption DEF ScheduleEnqueue, NewJob, JobState, CatchPcs
    <2>2. JobOK'
      BY <1>8, <2>1 DEF ScheduleEnqueue, TypeOK, JobOK
    <2>3. QED
      BY <1>1, <1>8, <2>2 DEF ScheduleEnqueue, TypeOK, RowOK, ProcOK, IntelOK, RestOK,
           Goto, Locals, Others, row, iprocs, reqs, CatchPcs
  <1>9. CASE DeadLetterThrow(w) \/ CatchFault(w) \/ CatchReturns(w)
    <2>1. JobOK' /\ ProcOK'
      BY <1>9, ThrowsFacts, ReturnsFacts DEF DeadLetterThrow, CatchFault, CatchReturns, TypeOK
    <2>2. faults' \in 0..MaxFaults
      BY <1>9, PipelineAssumption
         DEF DeadLetterThrow, CatchFault, CatchReturns, TypeOK, RestOK
    <2>3. QED
      BY <1>9, <2>1, <2>2 DEF DeadLetterThrow, CatchFault, CatchReturns, TypeOK, RowOK,
           IntelOK, RestOK, Others, row, iprocs, reqs
  <1>10. QED
    BY <1>3, <1>4, <1>5, <1>6, <1>7, <1>8, <1>9 DEF CatchStep

LEMMA IntelligenceType ==
    ASSUME IInv, NEW i \in ISlots, IntelligenceStep(i)
    PROVE  TypeOK'
  <1> USE DEF IInv
  <1>1. /\ ipc[i] # "idle" => iart[i] \in Artifacts /\ meta[iart[i]] \in Meta
        /\ isnap[i] \in Meta
        /\ ires[i] \in Intel
    BY DEF IntelOwned, TypeOK, RowOK, IntelOK, Intel
  <1>2. CASE LoadContext(i) \/ FinalRead(i)
    <2>1. IntelOK'
      BY <1>1, <1>2 DEF LoadContext, FinalRead, IGoto, TypeOK, IntelOK, IPcs
    <2>2. QED
      BY <1>2, <2>1 DEF LoadContext, FinalRead, TypeOK, RowOK, JobOK, ProcOK, RestOK,
                        NotI, row, procs, reqs
  <1>3. CASE MarkIntelligence(i) \/ FinalWrite(i)
    <2>1. /\ [isnap[i] EXCEPT !.intel = "processing"] \in Meta
          /\ [isnap[i] EXCEPT !.intel = ires[i]] \in Meta
      BY <1>1 DEF Meta, Intel
    <2>2. RowOK'
      BY <1>1, <1>3, <2>1, MarkRow DEF MarkIntelligence, FinalWrite, TypeOK, Status
    <2>3. IntelOK'
      BY <1>3 DEF MarkIntelligence, FinalWrite, IGoto, TypeOK, IntelOK, IPcs
    <2>4. QED
      BY <1>3, <2>2, <2>3 DEF MarkIntelligence, FinalWrite, TypeOK, JobOK, ProcOK, RestOK,
                              NotI, procs, reqs
  <1>4. CASE Extract(i)
    <2>1. faults' \in 0..MaxFaults
      BY <1>4, PipelineAssumption DEF Extract, TypeOK, RestOK
    <2>2. IntelOK'
      BY <1>4 DEF Extract, IGoto, TypeOK, IntelOK, IPcs
    <2>3. QED
      BY <1>4, <2>1, <2>2 DEF Extract, TypeOK, RowOK, JobOK, ProcOK, RestOK,
                              NotI, row, procs, reqs
  <1>5. CASE IntelligenceReturns(i)
    <2>1. ASSUME IFree(i), ijob' = [ijob EXCEPT ![iart[i]].state = "completed"]
          PROVE  IntelOK'
      <3>1. Fresh \in Meta
        BY ReplacedMeta DEF Intel
      <3>2. ijob' \in [Artifacts -> [state : IJobState, attempts : 0..MaxAttempts,
                                     stalled : BOOLEAN]]
        BY <1>1, <1>5, <2>1 DEF IntelligenceReturns, TypeOK, IntelOK, IJobState
      <3>3. QED
        BY <2>1, <3>1, <3>2 DEF IFree, TypeOK, IntelOK, IPcs
    <2>2. ASSUME IJobThrows(i)
          PROVE  IntelOK'
      BY <1>5, <2>2, IThrowsFacts DEF IntelligenceReturns, TypeOK
    <2>3. IntelOK'
      BY <1>5, <2>1, <2>2 DEF IntelligenceReturns
    <2>4. QED
      BY <1>5, <2>3 DEF IntelligenceReturns, TypeOK, RowOK, JobOK, ProcOK, RestOK,
                        NotI, row, procs, reqs
  <1>6. CASE IntelligenceFault(i)
    <2>1. IntelOK'
      BY <1>6, IThrowsFacts DEF IntelligenceFault, TypeOK
    <2>2. faults' \in 0..MaxFaults
      BY <1>6, PipelineAssumption DEF IntelligenceFault, TypeOK, RestOK
    <2>3. QED
      BY <1>6, <2>1, <2>2 DEF IntelligenceFault, TypeOK, RowOK, JobOK, ProcOK, RestOK,
                              NotI, row, procs, reqs
  <1>7. QED
    BY <1>2, <1>3, <1>4, <1>5, <1>6 DEF IntelligenceStep

LEMMA RequestType ==
    ASSUME IInv, NEW r \in Requests, RequestStep(r)
    PROVE  TypeOK'
  <1> USE DEF IInv
  <1>1. CASE \E a \in Artifacts : Upload(r, a)
    BY <1>1, MarkRow, ReplacedMeta
       DEF Upload, TypeOK, JobOK, ProcOK, IntelOK, RestOK, RPcs, Status, Intel,
           procs, iprocs, budgets
  <1>2. CASE \E a \in Artifacts : RetryRead(r, a)
    BY <1>2 DEF RetryRead, TypeOK, RowOK, JobOK, ProcOK, IntelOK, RestOK, RPcs,
                row, procs, iprocs, budgets
  <1>3. CASE RetryWrite(r)
    <2>1. rart[r] \in Artifacts
      BY <1>3 DEF RetryWrite, Owned
    <2>2. RowOK'
      BY <1>3, <2>1, MarkRow, ReplacedMeta DEF RetryWrite, TypeOK, Status, Intel
    <2>3. RestOK'
      BY <1>3, <2>1 DEF RetryWrite, TypeOK, RestOK, RPcs, budgets
    <2>4. QED
      BY <1>3, <2>2, <2>3 DEF RetryWrite, TypeOK, JobOK, ProcOK, IntelOK, procs, iprocs
  <1>4. CASE RequestEnqueue(r)
    <2>1. NewJob(rart[r]) \in [state : JobState, art : Artifacts \cup {0},
                               attempts : 0..MaxAttempts, stalled : BOOLEAN]
      BY <1>4, PipelineAssumption DEF RequestEnqueue, NewJob, JobState, TypeOK, RestOK
    <2>2. JobOK'
      BY <1>4, <2>1 DEF RequestEnqueue, TypeOK, JobOK
    <2>3. RestOK'
      BY <1>4, PipelineAssumption DEF RequestEnqueue, TypeOK, RestOK, RPcs
    <2>4. QED
      BY <1>4, <2>2, <2>3 DEF RequestEnqueue, TypeOK, RowOK, ProcOK, IntelOK, row, procs, iprocs
  <1>5. QED
    BY <1>1, <1>2, <1>3, <1>4 DEF RequestStep

LEMMA CrashType ==
    ASSUME IInv, Crash
    PROVE  TypeOK'
  <1> USE DEF IInv
  <1>1. JobOK'
    <2>1. SUFFICES ASSUME NEW j \in Jobs
                   PROVE  job'[j] \in [state : JobState, art : Artifacts \cup {0},
                                       attempts : 0..MaxAttempts, stalled : BOOLEAN]
      BY DEF Crash, JobOK
    <2>2. job[j] \in [state : JobState, art : Artifacts \cup {0},
                      attempts : 0..MaxAttempts, stalled : BOOLEAN]
      BY DEF TypeOK, JobOK
    <2>3. NoJob \in [state : JobState, art : Artifacts \cup {0},
                     attempts : 0..MaxAttempts, stalled : BOOLEAN]
      BY PipelineAssumption DEF NoJob, JobState
    <2>4. Recovered(job[j]).state = "failed" \/
          Recovered(job[j]) \in [state : JobState, art : Artifacts \cup {0},
                                 attempts : 0..MaxAttempts, stalled : BOOLEAN]
      BY <2>2 DEF Recovered, JobState
    <2>5. QED
      BY <2>3, <2>4 DEF Crash
  <1>2. AnyJob \in Jobs /\ Fresh \in Meta
    BY ReplacedMeta, PipelineAssumption DEF AnyJob, Intel
  <1>3. ProcOK'
    BY <1>2, PipelineAssumption DEF Crash, ProcOK, Pcs
  <1>4. IntelOK'
    <2>1. ASSUME NEW a \in Artifacts
          PROVE  ijob'[a] \in [state : IJobState, attempts : 0..MaxAttempts,
                               stalled : BOOLEAN]
      BY DEF Crash, Recovered, TypeOK, IntelOK, IJobState
    <2>2. QED
      BY <1>2, <2>1 DEF Crash, IntelOK, IPcs
  <1>5. QED
    BY <1>1, <1>3, <1>4, PipelineAssumption DEF Crash, TypeOK, RowOK, RestOK, row, reqs

LEMMA TypeStep ==
    ASSUME IInv, [Next]_vars
    PROVE  TypeOK'
  <1> USE DEF IInv
  <1>1. CASE \E w \in Slots, j \in Jobs : TakeJob(w, j)
    <2>1. PICK w \in Slots, j \in Jobs : TakeJob(w, j)
      BY <1>1
    <2>2. job[j].art \in Artifacts
      BY <2>1 DEF TakeJob, Owned
    <2>3. JobOK'
      BY <2>1 DEF TakeJob, TypeOK, JobOK, JobState
    <2>4. ProcOK'
      BY <2>1, <2>2 DEF TakeJob, Goto, TypeOK, ProcOK, Pcs, TryPcs, Processors
    <2>5. QED
      BY <2>1, <2>3, <2>4 DEF TakeJob, TypeOK, RowOK, IntelOK, RestOK, Others, row, iprocs, reqs
  <1>2. CASE \E p \in Passes : PassStep(p)
    <2>1. PICK p \in Passes : PassStep(p)
      BY <1>2
    <2>2. Oldest(Unfinished) \subseteq Artifacts
      BY DEF Oldest, Unfinished
    <2>3. ProcOK'
      BY <2>1, <2>2 DEF PassStep, Scan, ScanEnds, Visit, Goto, TypeOK, ProcOK, Pcs, TryPcs,
                        Processors, Locals
    <2>4. QED
      BY <2>1, <2>3 DEF PassStep, Scan, ScanEnds, Visit, TypeOK, RowOK, JobOK, IntelOK, RestOK,
                        Others, Locals, row, iprocs, reqs
  <1>3. CASE \E i \in ISlots, a \in Artifacts : TakeIntelligence(i, a)
    <2>1. PICK i \in ISlots, a \in Artifacts : TakeIntelligence(i, a)
      BY <1>3
    <2>2. IntelOK'
      BY <2>1 DEF TakeIntelligence, IGoto, TypeOK, IntelOK, IPcs, IJobState
    <2>3. QED
      BY <2>1, <2>2 DEF TakeIntelligence, TypeOK, RowOK, JobOK, ProcOK, RestOK,
                        NotI, row, procs, reqs
  <1>4. CASE \E a \in Artifacts : Age(a)
    BY <1>4 DEF Age, TypeOK, RowOK, JobOK, ProcOK, IntelOK, RestOK, procs, iprocs, reqs, budgets
  <1>5. CASE UNCHANGED vars
    BY <1>5 DEF vars, TypeOK, RowOK, JobOK, ProcOK, IntelOK, RestOK, row, procs, iprocs,
                reqs, budgets
  <1>6. QED
    BY <1>1, <1>2, <1>3, <1>4, <1>5, ProcessorType, CatchType, IntelligenceType,
       RequestType, CrashType DEF Next

-----------------------------------------------------------------------------
(* Who works on what *)

\* Every step of a processor goes on with its artifact, or ends the visit.
LEMMA ProcessorMoves ==
    ASSUME NEW w \in Processors, ProcessorStep(w)
    PROVE  /\ UNCHANGED <<iprocs, reqs>>
           /\ pc[w] \in TryPcs
           /\ \/ (\E l \in TryPcs \cup {"retryable"} : Goto(w, l)) /\ UNCHANGED <<job, Locals>>
              \/ VisitEnds(w)
              \/ VisitFails(w)
  <1>1. CASE Claim(w) \/ HoldBack(w) \/ ReadTransient(w) \/ Reject(w) \/ RejectSilently(w)
    BY <1>1 DEF Claim, HoldBack, ReadTransient, Reject, RejectSilently, Others, TryPcs, HoldPcs
  <1>2. CASE FindFragment(w) \/ InsertFragment(w) \/ IndexProgress(w) \/ IndexDone(w)
             \/ EnqueueIntelligence(w) \/ Complete(w)
    BY <1>2 DEF FindFragment, InsertFragment, IndexProgress, IndexDone, EnqueueIntelligence,
                Complete, Others, TryPcs, HoldPcs
  <1>3. CASE SkipClaim(w) \/ Report(w) \/ ThrowRetryable(w)
    BY <1>3 DEF SkipClaim, Report, ThrowRetryable, Others, TryPcs
  <1>4. CASE InsertConflict(w) \/ TryFault(w)
    BY <1>4 DEF InsertConflict, TryFault, Others, TryPcs, HoldPcs
  <1>5. QED
    BY <1>1, <1>2, <1>3, <1>4 DEF ProcessorStep

\* A step of the catch block goes on with its artifact, or ends the attempt.
LEMMA CatchMoves ==
    ASSUME NEW w \in Slots, CatchStep(w)
    PROVE  /\ UNCHANGED <<iprocs, reqs>>
           /\ pc[w] \in CatchPcs
           /\ \/ /\ \E l \in CatchPcs : Goto(w, l)
                 /\ UNCHANGED <<art, jb>>
                 /\ \/ UNCHANGED job
                    \/ \E j \in Jobs : /\ job[j].state = "absent"
                                       /\ job' = [job EXCEPT ![j] = NewJob(art[w])]
              \/ JobReturns(w)
              \/ JobThrows(w)
  <1>1. CASE FatalRead(w) \/ FatalWrite(w) \/ WillRetry(w) \/ Exhausted(w) \/ PlanRetry(w)
             \/ CatchRead(w) \/ ScheduleWrite(w) \/ DeadLetterWrite(w)
    BY <1>1 DEF FatalRead, FatalWrite, WillRetry, Exhausted, PlanRetry, CatchRead,
                ScheduleWrite, DeadLetterWrite, Others, Locals, CatchPcs
  <1>2. CASE ScheduleEnqueue(w)
    BY <1>2 DEF ScheduleEnqueue, Others, Locals, CatchPcs
  <1>3. CASE DeadLetterThrow(w) \/ CatchReturns(w) \/ CatchFault(w)
    BY <1>3 DEF DeadLetterThrow, CatchReturns, CatchFault, Others, CatchPcs
  <1>4. QED
    BY <1>1, <1>2, <1>3 DEF CatchStep

LEMMA OwnedStep ==
    ASSUME IInv, [Next]_vars
    PROVE  Owned' /\ JobOwned'
  <1> USE DEF IInv
  <1>1. /\ JobOK /\ ProcOK
        /\ \A w \in Slots : w \in Processors
        /\ \A w \in Processors : w \in Slots \/ w \in Passes
        /\ \A p \in Passes : p \notin Slots /\ p \in Processors
        /\ DOMAIN job = Jobs
    BY PipelineAssumption DEF TypeOK, JobOK, Processors
  <1>2. CASE \E w \in Processors : ProcessorStep(w)
    <2>1. PICK w \in Processors : ProcessorStep(w)
      BY <1>2
    <2>2. /\ UNCHANGED reqs
          /\ pc[w] \notin {"idle", "scan"}
      BY <2>1, ProcessorMoves DEF TryPcs, HoldPcs
    <2>3. CASE (\E l \in TryPcs \cup {"retryable"} : Goto(w, l)) /\ UNCHANGED <<job, Locals>>
      BY <1>1, <2>2, <2>3 DEF Owned, JobOwned, ProcOK, Goto, Locals, reqs
    <2>4. CASE VisitEnds(w)
      <3>1. /\ \E l \in {"idle", "scan"} : pc' = [pc EXCEPT ![w] = l]
            /\ w \in Slots => pc' = [pc EXCEPT ![w] = "idle"]
            /\ art' = [art EXCEPT ![w] = 0]
            /\ \A v \in Slots : v # w => jb'[v] = jb[v]
            /\ \A j \in Jobs : job'[j] = job[j] \/ job'[j].state = "absent"
            /\ \A j \in Jobs : (w \notin Slots \/ j # jb[w]) => job'[j] = job[j]
        BY <1>1, <2>4, VisitEndsFacts
      <3>2. Owned'
        BY <1>1, <2>2, <3>1 DEF Owned, ProcOK, reqs
      <3>3. JobOwned'
        BY <1>1, <2>2, <3>1 DEF JobOwned, ProcOK
      <3>4. QED
        BY <3>2, <3>3
    <2>5. CASE VisitFails(w)
      BY <1>1, <2>2, <2>5, VisitFailsFacts DEF Owned, JobOwned, ProcOK, reqs
    <2>6. QED
      BY <2>1, <2>3, <2>4, <2>5, ProcessorMoves
  <1>3. CASE \E w \in Slots : CatchStep(w)
    <2>1. PICK w \in Slots : CatchStep(w)
      BY <1>3
    <2>2. /\ UNCHANGED reqs
          /\ pc[w] \notin {"idle", "scan"}
          /\ art[w] \in Artifacts
      BY <1>1, <2>1, CatchMoves DEF CatchPcs, Owned
    <2>3. CASE (\E l \in CatchPcs : Goto(w, l)) /\ UNCHANGED <<art, jb, job>>
      BY <1>1, <2>2, <2>3 DEF Owned, JobOwned, ProcOK, Goto, reqs
    <2>4. CASE /\ \E l \in CatchPcs : Goto(w, l)
               /\ UNCHANGED <<art, jb>>
               /\ \E j \in Jobs : /\ job[j].state = "absent"
                                  /\ job' = [job EXCEPT ![j] = NewJob(art[w])]
      <3>1. PICK j \in Jobs : /\ job[j].state = "absent"
                              /\ job' = [job EXCEPT ![j] = NewJob(art[w])]
        BY <2>4
      <3>2. NewJob(art[w]).art = art[w]
        BY DEF NewJob
      <3>3. \A k \in Jobs : job'[k] = IF k = j THEN NewJob(art[w]) ELSE job[k]
        BY <1>1, <3>1
      <3>4. Owned'
        BY <1>1, <2>2, <2>4, <3>2, <3>3 DEF Owned, ProcOK, Goto, reqs
      <3>5. JobOwned'
        BY <1>1, <2>2, <2>4, <3>1, <3>3 DEF JobOwned, ProcOK, Goto
      <3>6. QED
        BY <3>4, <3>5
    <2>5. CASE JobReturns(w) \/ JobThrows(w)
      <3>1. /\ pc' = [pc EXCEPT ![w] = "idle"]
            /\ art' = [art EXCEPT ![w] = 0]
            /\ jb' = [jb EXCEPT ![w] = AnyJob]
            /\ \A j \in Jobs : j # jb[w] => job'[j] = job[j]
            /\ job'[jb[w]].state = "absent" \/ job'[jb[w]].art = job[jb[w]].art
        BY <1>1, <2>5, ReturnsFacts, ThrowsFacts
      <3>2. job[jb[w]].art \in Artifacts /\ jb[w] \in Jobs
        BY <1>1, <2>2 DEF Owned, JobOwned, ProcOK
      <3>3. Owned'
        BY <1>1, <2>2, <3>1, <3>2 DEF Owned, ProcOK, reqs
      <3>4. JobOwned'
        BY <1>1, <2>2, <3>1, <3>2 DEF JobOwned, ProcOK
      <3>5. QED
        BY <3>3, <3>4
    <2>6. QED
      BY <2>1, <2>3, <2>4, <2>5, CatchMoves
  <1>4. CASE \E w \in Slots, j \in Jobs : TakeJob(w, j)
    <2>1. PICK w \in Slots, j \in Jobs : TakeJob(w, j)
      BY <1>4
    <2>2. /\ job[j].state = "waiting" /\ pc[w] = "idle"
          /\ \A k \in Jobs : k # j => job'[k] = job[k]
          /\ job'[j].state = "active" /\ job'[j].art = job[j].art
      BY <2>1, <1>1 DEF TakeJob, JobOK
    <2>3. Owned'
      BY <1>1, <2>1, <2>2 DEF TakeJob, Owned, ProcOK, Goto, Others, reqs
    <2>4. JobOwned'
      BY <1>1, <2>1, <2>2 DEF TakeJob, JobOwned, ProcOK, Goto
    <2>5. QED
      BY <2>3, <2>4
  <1>5. CASE \E p \in Passes : PassStep(p)
    BY <1>1, <1>5 DEF PassStep, Scan, Visit, ScanEnds, Owned, JobOwned, ProcOK, Goto,
                      Locals, Others, reqs
  <1>6. CASE \E r \in Requests : RequestStep(r)
    <2>1. PICK r \in Requests : RequestStep(r)
      BY <1>6
    <2>2. CASE \/ \E a \in Artifacts : Upload(r, a) \/ RetryRead(r, a)
               \/ RetryWrite(r)
      BY <2>2 DEF Upload, RetryRead, RetryWrite, Owned, JobOwned, TypeOK, RestOK, procs
    <2>3. CASE RequestEnqueue(r)
      <3>1. rart[r] \in Artifacts
        BY <2>3 DEF RequestEnqueue, Owned
      <3>2. UNCHANGED job \/ \E j \in Jobs : /\ job[j].state = "absent"
                                            /\ job' = [job EXCEPT ![j] = NewJob(rart[r])]
        BY <2>3 DEF RequestEnqueue
      <3>3. NewJob(rart[r]).art = rart[r]
        BY DEF NewJob
      <3>4. Owned'
        BY <1>1, <2>3, <3>1, <3>2, <3>3 DEF RequestEnqueue, Owned, TypeOK, RestOK, procs
      <3>5. JobOwned'
        BY <1>1, <2>3, <3>2 DEF RequestEnqueue, JobOwned, ProcOK, procs
      <3>6. QED
        BY <3>4, <3>5
    <2>4. QED
      BY <2>1, <2>2, <2>3 DEF RequestStep
  <1>7. CASE \/ \E i \in ISlots, a \in Artifacts : TakeIntelligence(i, a)
             \/ \E i \in ISlots : IntelligenceStep(i)
             \/ \E a \in Artifacts : Age(a)
             \/ UNCHANGED vars
    <2>1. UNCHANGED <<procs, job, reqs>>
      BY <1>7 DEF TakeIntelligence, IntelligenceStep, LoadContext, MarkIntelligence, Extract,
           FinalRead, FinalWrite, IntelligenceReturns, IntelligenceFault, NotI, Age, vars
    <2>2. QED
      BY <2>1 DEF Owned, JobOwned, procs, reqs
  <1>8. CASE Crash
    <2>1. ASSUME NEW j \in Jobs, job'[j].state # "absent"
          PROVE  job'[j].art = job[j].art /\ job[j].state # "absent"
      <3>1. job'[j] = NoJob \/ job'[j] = Recovered(job[j])
        BY <1>8 DEF Crash
      <3>2. /\ Recovered(job[j]).art = job[j].art
            /\ job[j].state = "absent" => Recovered(job[j]).state = "absent"
        BY <1>1 DEF Recovered, JobOK
      <3>3. QED
        BY <2>1, <3>1, <3>2 DEF NoJob
    <2>2. QED
      BY <1>8, <2>1 DEF Crash, Owned, JobOwned, reqs, Processors
  <1>9. QED
    BY <1>2, <1>3, <1>4, <1>5, <1>6, <1>7, <1>8 DEF Next

\* The intelligence slots and their jobs.
LEMMA IntelOwnedStep ==
    ASSUME IInv, [Next]_vars
    PROVE  IntelOwned'
  <1> USE DEF IInv
  <1>1. CASE UNCHANGED <<ijob, iprocs>>
    BY <1>1 DEF IntelOwned, iprocs
  <1>2. CASE \E w \in Processors : EnqueueIntelligence(w)
    <2>1. PICK w \in Processors : EnqueueIntelligence(w)
      BY <1>2
    <2>2. /\ UNCHANGED iprocs
          /\ art[w] \in Artifacts
          /\ \A a \in Artifacts : /\ ijob[a].state # "absent" => ijob'[a] = ijob[a]
                                  /\ ijob'[a].attempts = ijob[a].attempts
      BY <2>1 DEF EnqueueIntelligence, Owned, TypeOK, IntelOK
    <2>3. QED
      BY <2>2 DEF IntelOwned, iprocs
  <1>3. CASE \E i \in ISlots, a \in Artifacts : TakeIntelligence(i, a)
    BY <1>3 DEF TakeIntelligence, IGoto, IntelOwned, TypeOK, IntelOK
  <1>4. CASE \E i \in ISlots : IntelligenceStep(i)
    <2>1. PICK i \in ISlots : IntelligenceStep(i)
      BY <1>4
    <2>2. CASE LoadContext(i) \/ MarkIntelligence(i) \/ Extract(i) \/ FinalRead(i) \/ FinalWrite(i)
      BY <2>2 DEF LoadContext, MarkIntelligence, Extract, FinalRead, FinalWrite, IGoto,
           IntelOwned, TypeOK, IntelOK
    <2>3. CASE ipc[i] # "idle" /\ IFree(i) /\ ijob' = [ijob EXCEPT ![iart[i]].state = "completed"]
      <3>1. /\ \A a \in Artifacts : a # iart[i] => ijob'[a] = ijob[a]
            /\ ijob'[iart[i]].attempts = ijob[iart[i]].attempts
            /\ ijob[iart[i]].attempts # MaxAttempts
        BY <2>3 DEF IntelOwned, TypeOK, IntelOK
      <3>2. QED
        BY <2>3, <3>1 DEF IFree, IntelOwned, TypeOK, IntelOK
    <2>4. CASE ipc[i] # "idle" /\ IJobThrows(i)
      <3>1. /\ ipc' = [ipc EXCEPT ![i] = "idle"]
            /\ iart' = [iart EXCEPT ![i] = 0]
            /\ \A a \in Artifacts : a # iart[i] => ijob'[a] = ijob[a]
            /\ ijob'[iart[i]].attempts = MaxAttempts => ijob'[iart[i]].state = "failed"
        BY <2>4, IThrowsFacts DEF TypeOK
      <3>2. \A k \in ISlots : ipc'[k] # "idle" => /\ k # i /\ ipc[k] # "idle" /\ iart'[k] = iart[k]
                                                  /\ iart[k] # iart[i]
        BY <2>4, <3>1 DEF IntelOwned, TypeOK, IntelOK
      <3>3. QED
        BY <3>1, <3>2 DEF IntelOwned
    <2>5. QED
      BY <2>1, <2>2, <2>3, <2>4 DEF IntelligenceStep, IntelligenceReturns, IntelligenceFault
  <1>5. CASE Crash
    <2>1. \A a \in Artifacts : ijob'[a].attempts = ijob[a].attempts
              /\ (ijob[a].state = "failed" => ijob'[a].state = "failed")
      BY <1>5 DEF Crash, Recovered, TypeOK, IntelOK
    <2>2. QED
      BY <1>5, <2>1 DEF Crash, IntelOwned
  <1>6. CASE \/ \E r \in Requests : RequestStep(r)
             \/ \E w \in Slots, j \in Jobs : TakeJob(w, j)
             \/ \E p \in Passes : PassStep(p)
             \/ \E w \in Slots : CatchStep(w)
             \/ \E a \in Artifacts : Age(a)
             \/ UNCHANGED vars
    <2>1. ASSUME NEW w \in Slots, CatchStep(w)
          PROVE  UNCHANGED <<ijob, iprocs>>
      BY <2>1 DEF CatchStep, FatalRead, FatalWrite, WillRetry, Exhausted, PlanRetry, CatchRead,
           ScheduleWrite, ScheduleEnqueue, DeadLetterWrite, DeadLetterThrow, CatchReturns,
           CatchFault, Others
    <2>2. QED
      BY <1>1, <1>6, <2>1 DEF RequestStep, Upload, RetryRead, RetryWrite, RequestEnqueue, TakeJob,
           PassStep, Scan, Visit, ScanEnds, Age, Others, vars
  <1>7. CASE \E w \in Processors : ProcessorStep(w) /\ ~EnqueueIntelligence(w)
    <2>1. UNCHANGED <<ijob, iprocs>>
      BY <1>7 DEF ProcessorStep, Claim, SkipClaim, HoldBack, ReadTransient, Reject, RejectSilently,
           FindFragment, InsertFragment, InsertConflict, IndexProgress, IndexDone, Complete,
           Report, ThrowRetryable, TryFault, Others
    <2>2. QED
      BY <1>1, <2>1
  <1>8. QED
    BY <1>2, <1>3, <1>4, <1>5, <1>6, <1>7 DEF Next

-----------------------------------------------------------------------------
(* The fragment comes first *)

\* A processor that leaves the row's status alone or sets one other than
\* completed, and whose next step is not past the storing of the fragment.
LEMMA FragmentKept ==
    ASSUME IInv, NEW w \in Processors, UNCHANGED <<fragment, ijob>>,
           \A a \in Artifacts : status'[a] = "completed" => status[a] = "completed",
           \A v \in Processors : pc'[v] \in {"index", "indexing", "enqueue", "complete"} =>
               pc'[v] = pc[v] /\ art'[v] = art[v]
    PROVE  FragmentFirst'
  BY DEF IInv, FragmentFirst, CompletedHasFragment

LEMMA FragmentStep ==
    ASSUME IInv, [Next]_vars
    PROVE  FragmentFirst'
  <1> USE DEF IInv
  <1>1. /\ JobOK /\ ProcOK
        /\ \A w \in Slots : w \in Processors
        /\ \A p \in Passes : p \in Processors
    BY DEF TypeOK, Processors
  <1>2. CASE \E w \in Processors : ProcessorStep(w)
    <2>1. PICK w \in Processors : ProcessorStep(w)
      BY <1>2
    <2>2. CASE Claim(w) \/ HoldBack(w) \/ ReadTransient(w) \/ Reject(w) \/ RejectSilently(w)
      <3>1. /\ UNCHANGED <<fragment, ijob, art>>
            /\ \E l \in {"read", "audit", "audit_retry"} : pc' = [pc EXCEPT ![w] = l]
        BY <2>2 DEF Claim, HoldBack, ReadTransient, Reject, RejectSilently, Goto, Locals, Others
      <3>2. \A a \in Artifacts : status'[a] = "completed" => status[a] = "completed"
        BY <2>2 DEF Claim, HoldBack, ReadTransient, Reject, RejectSilently, Mark, row, TypeOK, RowOK
      <3>3. QED
        BY <1>1, <3>1, <3>2, FragmentKept DEF ProcOK
    <2>3. CASE FindFragment(w)
      BY <1>1, <2>3 DEF FindFragment, Goto, Locals, Others, row, ProcOK, FragmentFirst,
           CompletedHasFragment
    <2>4. CASE InsertFragment(w)
      <3>1. art[w] \in Artifacts
        BY <2>4 DEF InsertFragment, Owned
      <3>2. fragment'[art[w]] /\ \A a \in Artifacts : fragment[a] => fragment'[a]
        BY <2>4, <3>1 DEF InsertFragment, TypeOK, RestOK
      <3>3. \A v \in Processors : pc[v] \notin {"idle", "scan"} => art[v] \in Artifacts
        BY DEF Owned
      <3>4. QED
        BY <1>1, <2>4, <3>2, <3>3 DEF InsertFragment, Goto, Locals, Others, row, ProcOK,
             FragmentFirst, CompletedHasFragment
    <2>5. CASE IndexProgress(w) \/ IndexDone(w)
      BY <1>1, <2>5 DEF IndexProgress, IndexDone, Mark, Goto, Locals, Others, row, TypeOK, RowOK,
           ProcOK, FragmentFirst, CompletedHasFragment
    <2>6. CASE EnqueueIntelligence(w)
      BY <1>1, <2>6 DEF EnqueueIntelligence, Goto, Locals, row, TypeOK, ProcOK, IntelOK,
           FragmentFirst, CompletedHasFragment
    <2>7. CASE Complete(w)
      BY <1>1, <2>7 DEF Complete, Mark, Goto, Locals, Others, TypeOK, RowOK, ProcOK,
           FragmentFirst, CompletedHasFragment
    <2>8. CASE SkipClaim(w) \/ Report(w) \/ ThrowRetryable(w) \/ InsertConflict(w) \/ TryFault(w)
      <3>1. UNCHANGED <<row, fragment, ijob>>
        BY <2>8 DEF SkipClaim, Report, ThrowRetryable, InsertConflict, TryFault, Others
      <3>2. CASE VisitEnds(w)
        <4>1. /\ \E l \in {"idle", "scan"} : pc' = [pc EXCEPT ![w] = l]
              /\ art' = [art EXCEPT ![w] = 0]
          BY <1>1, <3>2, VisitEndsFacts
        <4>2. QED
          BY <1>1, <3>1, <4>1, FragmentKept DEF ProcOK, row
      <3>3. CASE VisitFails(w)
        <4>1. /\ \E l \in {"idle", "fatal_read"} : pc' = [pc EXCEPT ![w] = l]
              /\ \A v \in Processors : v # w => art'[v] = art[v]
          BY <1>1, <3>3, VisitFailsFacts DEF ProcOK
        <4>2. QED
          BY <1>1, <3>1, <4>1, FragmentKept DEF ProcOK, row
      <3>4. CASE Goto(w, "retryable") /\ UNCHANGED Locals
        BY <1>1, <3>1, <3>4, FragmentKept DEF Goto, Locals, ProcOK, row
      <3>5. QED
        BY <2>8, <3>2, <3>3, <3>4 DEF SkipClaim, Report, ThrowRetryable, InsertConflict, TryFault
    <2>9. QED
      BY <2>1, <2>2, <2>3, <2>4, <2>5, <2>6, <2>7, <2>8 DEF ProcessorStep
  <1>3. CASE \E w \in Slots : CatchStep(w)
    <2>1. PICK w \in Slots : CatchStep(w)
      BY <1>3
    <2>2. /\ UNCHANGED <<fragment, ijob>>
          /\ \A a \in Artifacts : status'[a] = "completed" => status[a] = "completed"
      BY <2>1 DEF CatchStep, FatalRead, FatalWrite, WillRetry, Exhausted, PlanRetry, CatchRead,
           ScheduleWrite, ScheduleEnqueue, DeadLetterWrite, DeadLetterThrow, CatchReturns,
           CatchFault, Mark, Others, row, TypeOK, RowOK
    <2>3. \E l \in CatchPcs \cup {"idle"} :
             /\ pc' = [pc EXCEPT ![w] = l]
             /\ \A v \in Processors : v # w => art'[v] = art[v]
      <3>1. CASE (\E l \in CatchPcs : Goto(w, l)) /\ UNCHANGED <<art, jb>>
        BY <3>1 DEF Goto
      <3>2. CASE JobReturns(w) \/ JobThrows(w)
        <4>1. pc' = [pc EXCEPT ![w] = "idle"] /\ art' = [art EXCEPT ![w] = 0]
          <5>1. CASE JobReturns(w)
            BY <1>1, <5>1, ReturnsFacts
          <5>2. CASE JobThrows(w)
            BY <1>1, <5>2, ThrowsFacts
          <5>3. QED
            BY <3>2, <5>1, <5>2
        <4>2. \A v \in Processors : v # w => art'[v] = art[v]
          BY <1>1, <4>1 DEF ProcOK
        <4>3. QED
          BY <4>1, <4>2
      <3>3. QED
        BY <2>1, <3>1, <3>2, CatchMoves
    <2>4. QED
      BY <1>1, <2>2, <2>3, FragmentKept DEF ProcOK, CatchPcs
  <1>4. CASE \/ \E w \in Slots, j \in Jobs : TakeJob(w, j)
             \/ \E p \in Passes : PassStep(p)
    <2>1. \E w \in Processors, l \in {"claim", "scan", "idle"} :
             /\ pc' = [pc EXCEPT ![w] = l]
             /\ \A v \in Processors : v # w => art'[v] = art[v]
             /\ UNCHANGED <<row, fragment, ijob>>
      BY <1>1, <1>4 DEF TakeJob, PassStep, Scan, Visit, ScanEnds, Goto, Locals, Others, ProcOK
    <2>2. QED
      BY <1>1, <2>1, FragmentKept DEF ProcOK, row
  <1>5. CASE \E i \in ISlots : IntelligenceStep(i)
    <2>1. PICK i \in ISlots : IntelligenceStep(i)
      BY <1>5
    <2>2. /\ UNCHANGED <<fragment, procs>>
          /\ ipc[i] # "idle"
      BY <2>1 DEF IntelligenceStep, LoadContext, MarkIntelligence, Extract, FinalRead, FinalWrite,
           IntelligenceReturns, IntelligenceFault, NotI
    <2>3. iart[i] \in Artifacts /\ fragment[iart[i]]
      BY <2>2 DEF IntelOwned, FragmentFirst
    <2>4. \A a \in Artifacts : status'[a] = "completed" => fragment[a]
      BY <2>1, <2>3 DEF IntelligenceStep, LoadContext, MarkIntelligence, Extract, FinalRead,
           FinalWrite, IntelligenceReturns, IntelligenceFault, Mark, row, TypeOK, RowOK,
           FragmentFirst, CompletedHasFragment
    <2>5. \A a \in Artifacts : a # iart[i] => ijob'[a] = ijob[a]
      BY <2>1, <2>3 DEF IntelligenceStep, LoadContext, MarkIntelligence, Extract, FinalRead,
           FinalWrite, IntelligenceReturns, IntelligenceFault, IJobThrows, TypeOK, IntelOK
    <2>6. QED
      BY <2>2, <2>3, <2>4, <2>5 DEF procs, FragmentFirst, CompletedHasFragment
  <1>6. CASE \E i \in ISlots, a \in Artifacts : TakeIntelligence(i, a)
    BY <1>6 DEF TakeIntelligence, NotI, procs, row, TypeOK, IntelOK, FragmentFirst,
         CompletedHasFragment
  <1>7. CASE \E r \in Requests : RequestStep(r)
    BY <1>7 DEF RequestStep, Upload, RetryRead, RetryWrite, RequestEnqueue, Mark, row, procs,
         Owned, TypeOK, RowOK, RestOK, FragmentFirst, CompletedHasFragment
  <1>8. CASE Crash
    <2>1. \A a \in Artifacts : ijob'[a].state # "absent" => ijob[a].state # "absent"
      BY <1>8 DEF Crash, Recovered, TypeOK, IntelOK
    <2>2. QED
      BY <1>8, <2>1 DEF Crash, row, FragmentFirst, CompletedHasFragment
  <1>9. CASE \/ \E a \in Artifacts : Age(a)
             \/ UNCHANGED vars
    BY <1>9 DEF Age, vars, procs, row, FragmentFirst, CompletedHasFragment
  <1>10. QED
    BY <1>2, <1>3, <1>4, <1>5, <1>6, <1>7, <1>8, <1>9 DEF Next

-----------------------------------------------------------------------------
(* One processor per artifact *)

\* Nobody starts to hold an artifact and no row becomes claimable under a holder.
LEMMA ClaimedKept ==
    ASSUME IInv,
           \A v \in Processors : pc'[v] \in HoldPcs => pc[v] \in HoldPcs /\ art'[v] = art[v],
           \A a \in Artifacts : ~overtaken'[a] => ~overtaken[a],
           \A v \in Processors : (pc'[v] \in HoldPcs /\ ~overtaken'[art[v]]
                 /\ status[art[v]] \notin {"none", "queued", "pending"}) =>
               status'[art[v]] \notin {"none", "queued", "pending"}
    PROVE  Claimed'
  <1>1. \A v \in Processors : pc[v] \in HoldPcs => art[v] \in Artifacts
    BY DEF IInv, Owned, HoldPcs
  <1>2. QED
    BY <1>1 DEF IInv, Claimed

LEMMA ClaimedStep ==
    ASSUME IInv, [Next]_vars
    PROVE  Claimed'
  <1> USE DEF IInv
  <1>1. /\ JobOK /\ ProcOK
        /\ \A w \in Slots : w \in Processors
        /\ \A p \in Passes : p \in Processors
        /\ \A w \in Processors : pc[w] \notin {"idle", "scan"} => art[w] \in Artifacts
    BY DEF TypeOK, Processors, Owned
  <1>2. CASE \E w \in Processors : ProcessorStep(w)
    <2>1. PICK w \in Processors : ProcessorStep(w)
      BY <1>2
    <2>2. CASE Claim(w)
      <3>1. art[w] \in Artifacts /\ pc[w] \notin HoldPcs
        BY <1>1, <2>2 DEF Claim, HoldPcs
      <3>2. \A v \in Processors : pc'[v] \in HoldPcs /\ v # w => pc[v] \in HoldPcs
        BY <2>2 DEF Claim, Goto, ProcOK
      <3>3. ASSUME ~overtaken'[art[w]]
            PROVE  \A v \in Processors : v # w /\ pc[v] \in HoldPcs => art[v] # art[w]
        <4>1. ~overtaken[art[w]] /\ ~(status[art[w]] = "processing" /\ Holders(art[w]) # {})
          BY <2>2, <3>1, <3>3 DEF Claim, Claimable, TypeOK, RestOK
        <4>2. status[art[w]] \in {"queued", "pending", "processing"}
          BY <2>2 DEF Claim, Claimable
        <4>3. QED
          BY <4>1, <4>2 DEF Claimed, Holders
      <3>4. /\ art' = art
            /\ \A v \in Processors : v # w => pc'[v] = pc[v]
            /\ status'[art[w]] = "processing"
            /\ \A a \in Artifacts : a # art[w] => /\ status'[a] = status[a]
                                                  /\ overtaken'[a] = overtaken[a]
        BY <2>2, <3>1 DEF Claim, Goto, Locals, TypeOK, RowOK, ProcOK, RestOK
      <3>5. \A v \in Processors : v # w /\ pc[v] \in HoldPcs => art[v] \in Artifacts
        BY <1>1 DEF HoldPcs
      <3>6. QED
        BY <3>1, <3>3, <3>4, <3>5 DEF Claimed
    <2>3. CASE HoldBack(w) \/ ReadTransient(w)
      <3>1. /\ \A v \in Processors : pc'[v] \in HoldPcs => v # w /\ pc[v] = pc'[v]
            /\ UNCHANGED <<art, overtaken>>
            /\ pc[w] \in HoldPcs
            /\ \A a \in Artifacts : a # art[w] => status'[a] = status[a]
        BY <1>1, <2>3 DEF HoldBack, ReadTransient, Mark, Goto, Locals, HoldPcs, ProcOK, TypeOK, RowOK
      <3>2. \A v \in Processors : pc[v] \in HoldPcs => art[v] \in Artifacts
        BY <1>1 DEF HoldPcs
      <3>3. QED
        BY <3>1, <3>2 DEF Claimed
    <2>4. CASE \/ Reject(w) \/ RejectSilently(w) \/ FindFragment(w) \/ InsertFragment(w)
               \/ IndexProgress(w) \/ IndexDone(w) \/ EnqueueIntelligence(w) \/ Complete(w)
      <3>1. /\ \A v \in Processors : pc'[v] \in HoldPcs => pc[v] \in HoldPcs
            /\ UNCHANGED <<art, overtaken>>
        BY <1>1, <2>4 DEF Reject, RejectSilently, FindFragment, InsertFragment, IndexProgress,
             IndexDone, EnqueueIntelligence, Complete, Goto, Locals, HoldPcs, ProcOK
      <3>2. \A a \in Artifacts : status'[a] = status[a]
                                 \/ status'[a] \in {"failed", "processing", "completed"}
        BY <2>4 DEF Reject, RejectSilently, FindFragment, InsertFragment, IndexProgress,
             IndexDone, EnqueueIntelligence, Complete, Mark, row, TypeOK, RowOK
      <3>3. \A v \in Processors : pc[v] \in HoldPcs => art[v] \in Artifacts
        BY <1>1 DEF HoldPcs
      <3>4. QED
        BY <3>1, <3>2, <3>3, ClaimedKept
    <2>5. CASE SkipClaim(w) \/ Report(w) \/ ThrowRetryable(w) \/ InsertConflict(w) \/ TryFault(w)
      <3>1. UNCHANGED <<row, overtaken>>
        BY <2>5 DEF SkipClaim, Report, ThrowRetryable, InsertConflict, TryFault
      <3>2. CASE VisitEnds(w)
        <4>1. /\ \E l \in {"idle", "scan"} : pc' = [pc EXCEPT ![w] = l]
              /\ art' = [art EXCEPT ![w] = 0]
          BY <1>1, <3>2, VisitEndsFacts
        <4>2. QED
          BY <1>1, <3>1, <4>1, ClaimedKept DEF ProcOK, row, HoldPcs
      <3>3. CASE VisitFails(w)
        <4>1. /\ \E l \in {"idle", "fatal_read"} : pc' = [pc EXCEPT ![w] = l]
              /\ \A v \in Processors : v # w => art'[v] = art[v]
          BY <1>1, <3>3, VisitFailsFacts DEF ProcOK
        <4>2. QED
          BY <1>1, <3>1, <4>1, ClaimedKept DEF ProcOK, row, HoldPcs
      <3>4. CASE Goto(w, "retryable") /\ UNCHANGED Locals
        BY <1>1, <3>1, <3>4, ClaimedKept DEF Goto, Locals, ProcOK, row, HoldPcs
      <3>5. QED
        BY <2>5, <3>2, <3>3, <3>4 DEF SkipClaim, Report, ThrowRetryable, InsertConflict, TryFault
    <2>6. QED
      BY <2>1, <2>2, <2>3, <2>4, <2>5 DEF ProcessorStep
  <1>3. CASE \E w \in Slots : CatchStep(w)
    <2>1. PICK w \in Slots : CatchStep(w)
      BY <1>3
    <2>2. \E l \in CatchPcs \cup {"idle"} :
             /\ pc' = [pc EXCEPT ![w] = l]
             /\ \A v \in Processors : v # w => art'[v] = art[v]
      <3>1. CASE (\E l \in CatchPcs : Goto(w, l)) /\ UNCHANGED <<art, jb>>
        BY <3>1 DEF Goto
      <3>2. CASE JobReturns(w) \/ JobThrows(w)
        <4>1. pc' = [pc EXCEPT ![w] = "idle"] /\ art' = [art EXCEPT ![w] = 0]
          <5>1. CASE JobReturns(w)
            BY <1>1, <5>1, ReturnsFacts
          <5>2. CASE JobThrows(w)
            BY <1>1, <5>2, ThrowsFacts
          <5>3. QED
            BY <3>2, <5>1, <5>2
        <4>2. \A v \in Processors : v # w => art'[v] = art[v]
          BY <1>1, <4>1 DEF ProcOK
        <4>3. QED
          BY <4>1, <4>2
      <3>3. QED
        BY <2>1, <3>1, <3>2, CatchMoves
    <2>3. \A v \in Processors : pc'[v] \in HoldPcs => pc[v] \in HoldPcs /\ art'[v] = art[v] /\ v # w
      BY <1>1, <2>2 DEF ProcOK, CatchPcs, HoldPcs
    <2>4. CASE ScheduleWrite(w)
      <3>1. art[w] \in Artifacts
        BY <1>1, <2>4 DEF ScheduleWrite
      <3>2. /\ \A a \in Artifacts : a # art[w] => /\ status'[a] = status[a]
                                                  /\ overtaken'[a] = overtaken[a]
            /\ overtaken'[art[w]] = (overtaken[art[w]] \/ Holders(art[w]) # {})
        BY <2>4, <3>1 DEF ScheduleWrite, Mark, TypeOK, RowOK, RestOK
      <3>3. \A v \in Processors : pc[v] \in HoldPcs => art[v] \in Artifacts /\ v \in Holders(art[v])
        BY <1>1 DEF HoldPcs, Holders
      <3>4. QED
        BY <2>3, <3>1, <3>2, <3>3, ClaimedKept
    <2>5. CASE ~ScheduleWrite(w)
      <3>1. /\ UNCHANGED overtaken
            /\ \A a \in Artifacts : status'[a] = status[a] \/ status'[a] = "failed"
        BY <2>1, <2>5 DEF CatchStep, FatalRead, FatalWrite, WillRetry, Exhausted, PlanRetry,
             CatchRead, ScheduleEnqueue, DeadLetterWrite, DeadLetterThrow, CatchReturns,
             CatchFault, Mark, Others, row, TypeOK, RowOK
      <3>2. \A v \in Processors : pc[v] \in HoldPcs => art[v] \in Artifacts
        BY <1>1 DEF HoldPcs
      <3>3. QED
        BY <2>3, <3>1, <3>2, ClaimedKept
    <2>6. QED
      BY <2>4, <2>5
  <1>4. CASE \/ \E w \in Slots, j \in Jobs : TakeJob(w, j)
             \/ \E p \in Passes : PassStep(p)
    <2>1. \E w \in Processors, l \in {"claim", "scan", "idle"} :
             /\ pc' = [pc EXCEPT ![w] = l]
             /\ \A v \in Processors : v # w => art'[v] = art[v]
             /\ UNCHANGED <<row, overtaken>>
      BY <1>1, <1>4 DEF TakeJob, PassStep, Scan, Visit, ScanEnds, Goto, Locals, Others, ProcOK
    <2>2. QED
      BY <1>1, <2>1, ClaimedKept DEF ProcOK, row, HoldPcs
  <1>5. CASE \/ \E i \in ISlots : IntelligenceStep(i)
             \/ \E i \in ISlots, a \in Artifacts : TakeIntelligence(i, a)
             \/ \E a \in Artifacts : Age(a)
             \/ UNCHANGED vars
    <2>1. UNCHANGED <<pc, art, overtaken>>
      BY <1>5 DEF IntelligenceStep, LoadContext, MarkIntelligence, Extract, FinalRead, FinalWrite,
           IntelligenceReturns, IntelligenceFault, TakeIntelligence, Age, NotI, procs, vars
    <2>2. \A a \in Artifacts : status'[a] = status[a] \/ status'[a] = "completed"
      BY <1>5 DEF IntelligenceStep, LoadContext, MarkIntelligence, Extract, FinalRead, FinalWrite,
           IntelligenceReturns, IntelligenceFault, TakeIntelligence, Age, Mark, row, vars, TypeOK, RowOK
    <2>3. \A v \in Processors : pc[v] \in HoldPcs => art[v] \in Artifacts
      BY <1>1 DEF HoldPcs
    <2>4. QED
      BY <2>1, <2>2, <2>3, ClaimedKept
  <1>6. CASE \E r \in Requests : RequestStep(r)
    <2>1. PICK r \in Requests : RequestStep(r)
      BY <1>6
    <2>2. UNCHANGED <<pc, art>>
      BY <2>1 DEF RequestStep, Upload, RetryRead, RetryWrite, RequestEnqueue, procs
    <2>3. \A v \in Processors : pc[v] \in HoldPcs => art[v] \in Artifacts /\ v \in Holders(art[v])
      BY <1>1 DEF HoldPcs, Holders
    <2>4. CASE RetryWrite(r)
      <3>1. rart[r] \in Artifacts
        BY <2>4 DEF RetryWrite, Owned
      <3>2. /\ \A a \in Artifacts : a # rart[r] => /\ status'[a] = status[a]
                                                   /\ overtaken'[a] = overtaken[a]
            /\ overtaken'[rart[r]] = (overtaken[rart[r]] \/ Holders(rart[r]) # {})
        BY <2>4, <3>1 DEF RetryWrite, Mark, TypeOK, RowOK, RestOK
      <3>3. QED
        BY <2>2, <2>3, <3>1, <3>2, ClaimedKept
    <2>5. CASE \E a \in Artifacts : Upload(r, a) \/ RetryRead(r, a)
      <3>1. UNCHANGED overtaken
        BY <2>5 DEF Upload, RetryRead
      <3>2. \A a \in Artifacts : status'[a] = status[a] \/ status[a] = "none"
        BY <2>5 DEF Upload, RetryRead, Mark, row, TypeOK, RowOK
      <3>3. QED
        BY <2>2, <2>3, <3>1, <3>2, ClaimedKept
    <2>6. CASE RequestEnqueue(r)
      BY <2>2, <2>3, <2>6, ClaimedKept DEF RequestEnqueue, row
    <2>7. QED
      BY <2>1, <2>4, <2>5, <2>6 DEF RequestStep
  <1>7. CASE Crash
    BY <1>7 DEF Crash, Claimed, HoldPcs
  <1>8. QED
    BY <1>2, <1>3, <1>4, <1>5, <1>6, <1>7 DEF Next

-----------------------------------------------------------------------------
(* The theorems *)

LEMMA Initially == Init => IInv
  <1> SUFFICES ASSUME Init PROVE IInv
    OBVIOUS
  <1>1. /\ AnyJob \in Jobs
        /\ Fresh \in Meta
        /\ 0 \in 0..MaxAttempts /\ 0 \in 0..MaxAuto /\ 0 \in 0..MaxFaults /\ 0 \in 0..MaxCrashes
    BY ReplacedMeta, PipelineAssumption DEF AnyJob, Intel
  <1>2. TypeOK
    BY <1>1 DEF Init, TypeOK, RowOK, JobOK, ProcOK, IntelOK, RestOK, NoJob, NoIJob, Status,
         JobState, IJobState, Pcs, IPcs, RPcs
  <1>3. MaxAttempts # 0
    BY PipelineAssumption
  <1>4. Owned /\ JobOwned /\ FragmentFirst /\ Claimed
    BY DEF Init, Owned, JobOwned, FragmentFirst, CompletedHasFragment, Claimed, HoldPcs,
         NoJob, NoIJob, Processors
  <1>5. IntelOwned
    BY <1>3 DEF Init, IntelOwned, NoIJob
  <1>6. QED
    BY <1>2, <1>4, <1>5 DEF IInv

THEOREM Inductive == Spec => []IInv
  <1>1. IInv /\ [Next]_vars => IInv'
    BY TypeStep, OwnedStep, IntelOwnedStep, FragmentStep, ClaimedStep DEF IInv
  <1>2. QED
    BY Initially, <1>1, PTL DEF Spec

\* Attempts and retry counts keep within their bounds, whatever the schedule.
THEOREM TypeCorrect == Spec => []TypeOK
  <1>1. IInv => TypeOK
    BY DEF IInv
  <1>2. QED
    BY Inductive, <1>1, PTL

\* Only an overridden claim puts two processors on one artifact.
THEOREM OneHolder == Spec => []SingleHolder
  <1>1. IInv => SingleHolder
    BY DEF IInv, Claimed, SingleHolder, Holders
  <1>2. QED
    BY Inductive, <1>1, PTL

\* What is shown as completed has its memory fragment.
THEOREM CompletedIsReal == Spec => []CompletedHasFragment
  <1>1. IInv => CompletedHasFragment
    BY DEF IInv, FragmentFirst
  <1>2. QED
    BY Inductive, <1>1, PTL

-----------------------------------------------------------------------------
(* The event stream of one artifact *)

Commands == [kind : {"subscribe", "unsubscribe"}, stream : Streams]
Messages == [kind : {"event"}, row : Rows] \cup [kind : {"reply", "refusal"}, stream : Streams]

\* What the connection carries.
Wired == cmds \in Seq(Commands) /\ inbox \in Seq(Messages)

\* The intelligence job begins with the enqueue, and an attempt is left for it.
Tried ==
    /\ jpc \in {"claim", "progress", "work"} => intelPc = "idle" /\ tries = 0
    /\ intelPc \in {"announce", "mark", "final"} => tries < MaxTries

\* A stream that has not subscribed has made no set.
Unmade == \A s \in Streams : spc[s] \in {"idle", "opened", "subscribing"} => mine[s] = 0

\* What the server will have been told at last is what the map says.
Follows ==
    IF cmds = <<>> THEN subscribed <=> current \notin refused \cup {0}
    ELSE IF cmds[Len(cmds)].kind = "subscribe" THEN current = mine[cmds[Len(cmds)].stream]
    ELSE current = 0

\* A set is subscribed to once, and what is refused has been asked for.
Asked ==
    /\ refused \subseteq {mine[t] : t \in Streams}
    /\ \A i \in 1..Len(cmds) : cmds[i].kind = "subscribe" =>
          mine[cmds[i].stream] \in Sets \ refused
    /\ \A i, j \in 1..Len(cmds) :
          (i < j /\ cmds[i].kind = "subscribe" /\ cmds[j].kind = "subscribe") =>
              mine[cmds[i].stream] # mine[cmds[j].stream]

\* Commands alternate, beginning with what changes the server.
Turns ==
    /\ cmds # <<>> => (cmds[1].kind = "subscribe" => ~subscribed)
    /\ \A i \in 1..Len(cmds) : i + 1 <= Len(cmds) => cmds[i].kind # cmds[i + 1].kind

Known(r) == Terminal(r) => r \in written

\* An end is nowhere before it is in the row.
Told ==
    /\ stored \in written
    /\ Known(jsnap)
    /\ \A s \in Streams : Known(view[s]) /\ Known(seen[s])
    /\ \A i \in 1..Len(inbox) : inbox[i].kind = "event" => Known(inbox[i].row)
    /\ intelPc = "publish" => Row("completed", "completed") \in written

SPcs == {"idle", "opened", "subscribing", "waiting", "resumed", "listening", "closed"}

StreamInv ==
    /\ StreamTypeOK /\ Wired /\ spc \in [Streams -> SPcs] /\ Tried
    /\ Unmade /\ Follows /\ Asked /\ Turns /\ Told

-----------------------------------------------------------------------------
(* Helpers *)

LEMMA RowFacts ==
    /\ FreshRow \in Rows /\ ~Terminal(FreshRow)
    /\ Row("processing", "none") \in Rows /\ ~Terminal(Row("processing", "none"))
    /\ Row("failed", "none") \in Rows
    /\ Row("completed", "queued") \in Rows
    /\ Row("completed", "processing") \in Rows
    /\ ~Terminal(Row("completed", "processing"))
    /\ Row("completed", "completed") \in Rows
    /\ Row("completed", "failed") \in Rows
  BY DEF FreshRow, Row, Rows, Terminal

LEMMA PublishFacts ==
    ASSUME Wired, NEW r \in Rows, Publish(r)
    PROVE  /\ Wired' /\ cmds' = cmds /\ subscribed' = subscribed
           /\ \A i \in 1..Len(inbox') :
                 \/ i \in 1..Len(inbox) /\ inbox'[i] = inbox[i]
                 \/ inbox'[i].row = r
  <1> DEFINE e == [kind |-> "event", row |-> r]
  <1>1. e \in Messages /\ e.row = r
    BY DEF Messages
  <1>2. inbox \in Seq(Messages)
    BY DEF Wired
  <1> HIDE DEF e
  <1>3. CASE inbox' = Append(inbox, e)
    <2>1. /\ Append(inbox, e) \in Seq(Messages)
          /\ Len(Append(inbox, e)) = Len(inbox) + 1
          /\ \A i \in 1..Len(inbox) : Append(inbox, e)[i] = inbox[i]
          /\ Append(inbox, e)[Len(inbox) + 1] = e
      BY <1>1, <1>2, AppendProperties
    <2>2. Len(inbox) \in Nat
      BY <1>2
    <2>3. inbox' \in Seq(Messages) /\ Wired'
      BY <1>3, <2>1 DEF Wired, Publish
    <2>4. \A i \in 1..Len(inbox') : i \in 1..Len(inbox) \/ i = Len(inbox) + 1
      BY <1>3, <2>1, <2>2
    <2> QED
      BY <1>1, <1>3, <2>1, <2>3, <2>4 DEF Publish
  <1>4. CASE inbox' = inbox
    BY <1>4 DEF Publish, Wired
  <1> QED
    BY <1>3, <1>4 DEF Publish, e

\* What is taken from the connection, and what is left.
LEMMA TakeFacts ==
    ASSUME Wired, inbox # <<>>, inbox' = Tail(inbox)
    PROVE  /\ inbox' \in Seq(Messages) /\ Head(inbox) \in Messages
           /\ Head(inbox) = inbox[1] /\ 1 \in 1..Len(inbox)
           /\ \A i \in 1..Len(inbox') : inbox'[i] = inbox[i + 1] /\ i + 1 \in 1..Len(inbox)
  <1>1. inbox \in Seq(Messages)
    BY DEF Wired
  <1>2. Len(inbox) \in Nat \ {0}
    BY <1>1, EmptySeq
  <1>3. Tail(inbox) \in Seq(Messages) /\ Len(Tail(inbox)) = Len(inbox) - 1
        /\ Head(inbox) \in Messages
        /\ \A i \in 1..Len(Tail(inbox)) : Tail(inbox)[i] = inbox[i + 1]
    BY <1>1, HeadTailProperties
  <1> QED
    BY <1>1, <1>2, <1>3

LEMMA CommandFacts ==
    ASSUME Wired, NEW c \in Commands, cmds' = Append(cmds, c)
    PROVE  /\ cmds' \in Seq(Commands) /\ cmds' # <<>> /\ cmds'[Len(cmds')] = c
           /\ Len(cmds) \in Nat /\ Len(cmds') = Len(cmds) + 1
           /\ \A i \in 1..Len(cmds) : cmds'[i] = cmds[i]
           /\ \A i \in 1..Len(cmds') : i \in 1..Len(cmds) \/ i = Len(cmds')
           /\ cmds = <<>> => Len(cmds) = 0
           /\ cmds # <<>> => Len(cmds) \in 1..Len(cmds)
  <1>1. cmds \in Seq(Commands)
    BY DEF Wired
  <1>2. Len(cmds) \in Nat /\ (cmds # <<>> => Len(cmds) # 0) /\ (cmds = <<>> => Len(cmds) = 0)
    BY <1>1, EmptySeq
  <1> QED
    BY <1>1, <1>2, AppendProperties

\* The first command is taken.
LEMMA NextFacts ==
    ASSUME Wired, cmds # <<>>, cmds' = Tail(cmds)
    PROVE  /\ cmds' \in Seq(Commands) /\ Head(cmds) \in Commands /\ Head(cmds) = cmds[1]
           /\ Len(cmds) \in Nat \ {0} /\ Len(cmds') = Len(cmds) - 1
           /\ \A i \in 1..Len(cmds') : cmds'[i] = cmds[i + 1] /\ i + 1 \in 1..Len(cmds)
           /\ cmds' = <<>> <=> Len(cmds) = 1
  <1>1. cmds \in Seq(Commands)
    BY DEF Wired
  <1>2. Len(cmds) \in Nat \ {0}
    BY <1>1, EmptySeq
  <1>3. /\ Tail(cmds) \in Seq(Commands) /\ Len(Tail(cmds)) = Len(cmds) - 1
        /\ Head(cmds) \in Commands /\ Head(cmds) = cmds[1]
        /\ \A i \in 1..Len(Tail(cmds)) : Tail(cmds)[i] = cmds[i + 1]
    BY <1>1, HeadTailProperties
  <1>4. cmds' = <<>> <=> Len(cmds') = 0
    BY <1>3, EmptySeq
  <1> QED
    BY <1>2, <1>3, <1>4

\* There is a set that no stream has made.
LEMMA NewSetFacts ==
    ASSUME mine \in [Streams -> Sets \cup {0}], NEW s \in Streams, mine[s] = 0
    PROVE  NewSet \in Sets /\ NewSet # 0 /\ \A t \in Streams : mine[t] # NewSet
  <1> DEFINE n == Cardinality(Streams)
             Rest == Streams \ {s}
  <1>1. n \in Nat /\ IsFiniteSet(Rest) /\ Cardinality(Rest) = n - 1
    BY StreamAssumption, FS_CardinalityType, FS_RemoveElement
  <1>2. IsFiniteSet(Sets) /\ Cardinality(Sets) = n
    <2>1. Sets = 1..n
      BY DEF Sets, Cardinality, Cardinality
    <2>2. IsFiniteSet(1..n) /\ Cardinality(1..n) = n
      BY <1>1, FS_Interval
    <2> QED
      BY <2>1, <2>2
  <1>3. \E g \in Sets : \A t \in Streams : mine[t] # g
    <2> SUFFICES ASSUME \A g \in Sets : \E t \in Streams : mine[t] = g
                 PROVE  FALSE
      OBVIOUS
    <2> DEFINE h == [g \in Sets |-> CHOOSE t \in Streams : mine[t] = g]
    <2>1. \A g \in Sets : h[g] \in Streams /\ mine[h[g]] = g
      OBVIOUS
    <2>2. \A g \in Sets : g # 0
      BY <1>1 DEF Sets
    <2>3. h \in [Sets -> Rest]
      BY <2>1, <2>2
    <2> HIDE DEF h, n, Rest
    <2>4. \E x, y \in Sets : x # y /\ h[x] = h[y]
      <3>1. Cardinality(Rest) < Cardinality(Sets)
        BY <1>1, <1>2
      <3> QED
        BY <1>1, <1>2, <2>3, <3>1, FS_PigeonHole
    <2> QED
      BY <2>1, <2>4
  <1> QED
    BY <1>1, <1>3 DEF NewSet, Sets

-----------------------------------------------------------------------------
(* Steps *)

LEMMA StreamInitHolds ==
    ASSUME StreamInit
    PROVE  StreamInv
  <1>1. StreamTypeOK
    <2>1. stored \in Rows /\ jsnap \in Rows /\ written \in SUBSET Rows
      BY RowFacts DEF StreamInit
    <2>2. tries \in 0..MaxTries /\ mishaps \in 0..MaxMishaps
      BY StreamAssumption DEF StreamInit
    <2>3. subscribed \in BOOLEAN /\ current \in Sets \cup {0}
          /\ members \in [Sets -> SUBSET Streams] /\ refused \in SUBSET Sets
      BY DEF StreamInit
    <2>4. mine \in [Streams -> Sets \cup {0}]
      BY DEF StreamInit
    <2>5. view \in [Streams -> Rows] /\ seen \in [Streams -> Rows]
      BY RowFacts DEF StreamInit
    <2> QED
      BY <2>1, <2>2, <2>3, <2>4, <2>5 DEF StreamTypeOK
  <1>2. Wired
    BY EmptySeq DEF StreamInit, Wired
  <1>3. spc \in [Streams -> SPcs] /\ Tried /\ Unmade /\ Follows
    BY DEF StreamInit, SPcs, Tried, Unmade, Follows
  <1>5. Asked /\ Turns
    BY EmptySeq DEF StreamInit, Asked, Turns
  <1>4. Told
    BY RowFacts, EmptySeq DEF StreamInit, Told, Known
  <1> QED
    BY <1>1, <1>2, <1>3, <1>4, <1>5 DEF StreamInv

\* A step of the worker writes the row or publishes what has been written.
LEMMA WorkerMoves ==
    ASSUME StreamInv, WorkerStep
    PROVE  /\ UNCHANGED <<map, streams, cmds, subscribed>>
           /\ \/ stored' = stored /\ written' = written
              \/ stored' \in Rows /\ written' = written \cup {stored'}
           /\ \/ inbox' = inbox
              \/ \E r \in Rows : Known(r) /\ Publish(r)
           /\ jsnap' \in {jsnap, stored, FreshRow}
           /\ intelPc' = "publish" => stored' = Row("completed", "completed") \/ intelPc = "publish"
           /\ tries' \in 0..MaxTries /\ mishaps' \in 0..MaxMishaps
           /\ Tried'
  <1> USE RowFacts, StreamAssumption
  <1>1. CASE ClaimRow
    BY <1>1 DEF StreamInv, StreamTypeOK, Tried, ClaimRow, SetRow, JGoto,
       Mishap, redis
  <1>2. CASE Progress
    BY <1>2 DEF StreamInv, StreamTypeOK, Tried, Progress, JGoto, Publish,
       redis, Known
  <1>3. CASE Fail \/ CompleteRow
    BY <1>3 DEF StreamInv, StreamTypeOK, Tried, Fail, CompleteRow, SetRow,
       JGoto, redis
  <1>4. CASE HandToIntelligence
    BY <1>4 DEF StreamInv, StreamTypeOK, Tried, HandToIntelligence, IntelGoto,
       JGoto, redis
  <1>5. CASE ReadBack
    BY <1>5 DEF StreamInv, StreamTypeOK, Tried, ReadBack, JGoto, redis
  <1>6. CASE PublishJob
    BY <1>6 DEF StreamInv, StreamTypeOK, Tried, Told, PublishJob, JGoto,
       Publish, redis
  <1>7. CASE Announce
    BY <1>7 DEF StreamInv, StreamTypeOK, Tried, Announce, IntelGoto, Publish,
       redis, Known
  <1>8. CASE MarkProcessing \/ FinalizeCompleted
    BY <1>8 DEF StreamInv, StreamTypeOK, Tried, MarkProcessing, FinalizeCompleted,
       SetRow, IntelGoto, redis
  <1>9. CASE FinalizeFailed
    <2>1. tries \in Nat /\ tries < MaxTries /\ MaxTries \in Nat
      BY <1>9 DEF StreamInv, StreamTypeOK, Tried, FinalizeFailed
    <2>2. tries + 1 \in 0..MaxTries
      BY <2>1
    <2>3. Tried'
      BY <1>9, <2>1 DEF StreamInv, Tried, FinalizeFailed, IntelGoto
    <2> QED
      BY <1>9, <2>2, <2>3 DEF StreamInv, StreamTypeOK, FinalizeFailed, SetRow,
         IntelGoto, redis
  <1>10. CASE PublishIntelligence
    BY <1>10 DEF StreamInv, StreamTypeOK, Tried, Told, PublishIntelligence, IntelGoto,
       Publish, redis, Known
  <1> QED
    BY <1>1, <1>2, <1>3, <1>4, <1>5, <1>6, <1>7, <1>8, <1>9, <1>10 DEF WorkerStep

LEMMA WorkerHolds ==
    ASSUME StreamInv, WorkerStep
    PROVE  StreamInv'
  <1> USE WorkerMoves
  <1>1. stored' \in Rows /\ written' \in SUBSET Rows /\ jsnap' \in Rows
    BY RowFacts DEF StreamInv, StreamTypeOK
  <1>2. StreamTypeOK'
    BY <1>1 DEF StreamInv, StreamTypeOK, map, streams
  <1>3. Wired'
    BY PublishFacts DEF StreamInv, Wired
  <1>4. spc' \in [Streams -> SPcs] /\ Unmade' /\ Follows' /\ Tried'
    BY DEF StreamInv, Unmade, Follows, streams, map
  <1>11. Asked' /\ Turns'
    BY DEF StreamInv, Asked, Turns, streams, map
  <1>5. stored' \in written' /\ written \subseteq written'
    BY DEF StreamInv, Told
  <1>6. \A r : Known(r) => Known(r)'
    BY <1>5 DEF Known, Terminal
  <1>7. Known(jsnap)'
    BY <1>5, RowFacts DEF StreamInv, Told, Known
  <1>8. \A s \in Streams : Known(view[s])' /\ Known(seen[s])'
    BY <1>5 DEF StreamInv, Told, Known, streams
  <1>9. \A i \in 1..Len(inbox') : inbox'[i].kind = "event" => Known(inbox[i].row)'
    <2>1. CASE inbox' = inbox
      BY <1>5, <2>1 DEF StreamInv, Told, Known
    <2>2. ASSUME NEW r \in Rows, Known(r), Publish(r)
          PROVE  \A i \in 1..Len(inbox') : inbox'[i].kind = "event" => Known(inbox[i].row)'
      <3>1. \A i \in 1..Len(inbox') : (i \in 1..Len(inbox) /\ inbox'[i] = inbox[i]) \/ inbox'[i].row = r
        BY <2>2, PublishFacts DEF StreamInv
      <3> QED
        BY <1>5, <2>2, <3>1 DEF StreamInv, Told, Known
    <2> QED
      BY <2>1, <2>2
  <1>10. intelPc' = "publish" => Row("completed", "completed") \in written'
    BY <1>5 DEF StreamInv, Told
  <1> QED
    BY <1>2, <1>3, <1>4, <1>5, <1>7, <1>8, <1>9, <1>10, <1>11 DEF StreamInv, Told

\* A message of the server comes behind the others.
LEMMA AnswerFacts ==
    ASSUME Wired, NEW e \in Messages, e.kind # "event", inbox' = Append(inbox, e)
    PROVE  /\ inbox' \in Seq(Messages)
           /\ \A i \in 1..Len(inbox') : \/ i \in 1..Len(inbox) /\ inbox'[i] = inbox[i]
                                        \/ inbox'[i].kind # "event"
  <1>1. inbox \in Seq(Messages) /\ Len(inbox) \in Nat
    BY DEF Wired
  <1>2. /\ inbox' \in Seq(Messages) /\ Len(inbox') = Len(inbox) + 1
        /\ \A i \in 1..Len(inbox) : inbox'[i] = inbox[i]
        /\ inbox'[Len(inbox) + 1] = e
    BY <1>1, AppendProperties
  <1>3. \A i \in 1..Len(inbox') : i \in 1..Len(inbox) \/ i = Len(inbox) + 1
    BY <1>1, <1>2
  <1> QED
    BY <1>2, <1>3

\* The server carries out a command or refuses it.
LEMMA ServerHolds ==
    ASSUME StreamInv, Execute \/ Refuse
    PROVE  StreamInv'
  <1> DEFINE c == Head(cmds)
  <1>1. /\ cmds # <<>> /\ cmds' = Tail(cmds)
        /\ UNCHANGED <<stored, written, writers, current, members, streams>>
    BY DEF Execute, Refuse, map
  <1>2. /\ cmds' \in Seq(Commands) /\ c \in Commands /\ c = cmds[1]
        /\ Len(cmds) \in Nat \ {0} /\ Len(cmds') = Len(cmds) - 1
        /\ \A i \in 1..Len(cmds') : cmds'[i] = cmds[i + 1] /\ i + 1 \in 1..Len(cmds)
        /\ cmds' = <<>> <=> Len(cmds) = 1
    BY <1>1, NextFacts DEF StreamInv
  <1>3. c.kind \in {"subscribe", "unsubscribe"} /\ c.stream \in Streams
    BY <1>2 DEF Commands
  <1>4. /\ inbox' \in Seq(Messages)
        /\ \A i \in 1..Len(inbox') : \/ i \in 1..Len(inbox) /\ inbox'[i] = inbox[i]
                                     \/ inbox'[i].kind # "event"
    <2>1. \A k \in {"reply", "refusal"} :
             /\ [kind |-> k, stream |-> c.stream] \in Messages
             /\ [kind |-> k, stream |-> c.stream].kind # "event"
      BY <1>3 DEF Messages
    <2>2. CASE inbox' = inbox
      BY <2>2 DEF StreamInv, Wired
    <2>3. CASE \E k \in {"reply", "refusal"} :
                 inbox' = Append(inbox, [kind |-> k, stream |-> c.stream])
      BY <2>1, <2>3, AnswerFacts DEF StreamInv
    <2> QED
      BY <2>2, <2>3 DEF Execute, Refuse
  <1>5. CASE Execute
    <2>1. subscribed' = (c.kind = "subscribe") /\ UNCHANGED <<refused, mishaps>>
      BY <1>5 DEF Execute, map
    <2>2. Follows'
      <3>1. CASE Len(cmds) = 1
        <4>1. cmds' = <<>> /\ cmds[Len(cmds)] = c /\ 1 \in 1..Len(cmds)
          BY <1>2, <3>1
        <4>2. 0 \notin Sets
          BY StreamAssumption, FS_CardinalityType DEF Sets
        <4>3. CASE c.kind = "subscribe"
          <5>1. mine[c.stream] \in Sets \ refused
            BY <1>2, <4>1, <4>3 DEF StreamInv, Asked
          <5>2. current = mine[c.stream]
            BY <1>1, <4>1, <4>3 DEF StreamInv, Follows
          <5> QED
            BY <1>1, <2>1, <4>1, <4>2, <4>3, <5>1, <5>2 DEF Follows
        <4>4. CASE c.kind # "subscribe"
          BY <1>1, <2>1, <4>1, <4>4 DEF StreamInv, Follows
        <4> QED
          BY <4>3, <4>4
      <3>2. CASE Len(cmds) # 1
        <4>1. Len(cmds') \in 1..Len(cmds') /\ cmds'[Len(cmds')] = cmds[Len(cmds)]
          BY <1>2, <3>2
        <4> QED
          BY <1>1, <1>2, <2>1, <3>2, <4>1 DEF StreamInv, Follows, streams
      <3> QED
        BY <3>1, <3>2
    <2>3. Asked'
      BY <1>1, <1>2, <2>1 DEF StreamInv, Asked, streams
    <2>4. Turns'
      <3>1. ASSUME cmds' # <<>>
            PROVE  cmds'[1].kind # c.kind
        <4>1. /\ cmds'[1] = cmds[1 + 1] /\ cmds[1] = c
              /\ 1 \in 1..Len(cmds) /\ 1 + 1 <= Len(cmds)
          BY <1>2, <3>1
        <4>2. cmds[1].kind # cmds[1 + 1].kind
          BY <4>1 DEF StreamInv, Turns
        <4> QED
          BY <4>1, <4>2
      <3>2. cmds' # <<>> => (cmds'[1].kind = "subscribe" => ~subscribed')
        BY <2>1, <3>1
      <3>3. \A i \in 1..Len(cmds') : i + 1 <= Len(cmds') => cmds'[i].kind # cmds'[i + 1].kind
        <4> SUFFICES ASSUME NEW i \in 1..Len(cmds'), i + 1 <= Len(cmds')
                     PROVE  cmds'[i].kind # cmds'[i + 1].kind
          OBVIOUS
        <4>1. /\ i + 1 \in 1..Len(cmds) /\ (i + 1) + 1 <= Len(cmds)
              /\ cmds'[i] = cmds[i + 1] /\ cmds'[i + 1] = cmds[(i + 1) + 1]
          BY <1>2
        <4>2. cmds[i + 1].kind # cmds[(i + 1) + 1].kind
          BY <4>1 DEF StreamInv, Turns
        <4> QED
          BY <4>1, <4>2
      <3> QED
        BY <3>2, <3>3 DEF Turns
    <2>5. StreamTypeOK'
      BY <1>1, <2>1 DEF StreamInv, StreamTypeOK, writers, streams
    <2>6. Told'
      BY <1>1, <1>4 DEF StreamInv, Told, Known, writers, streams
    <2> QED
      BY <1>1, <1>2, <1>4, <2>2, <2>3, <2>4, <2>5, <2>6 DEF StreamInv, Wired, Tried, Unmade,
         writers, streams
  <1>6. CASE Refuse
    <2>1. /\ c.kind = "subscribe" /\ subscribed' = subscribed
          /\ refused' = refused \cup {mine[c.stream]}
      BY <1>6 DEF Refuse
    <2>2. ~subscribed /\ 1 \in 1..Len(cmds) /\ mine[c.stream] \in Sets
      BY <1>1, <1>2, <2>1 DEF StreamInv, Turns, Asked
    <2>3. Follows'
      <3>1. CASE Len(cmds) = 1
        BY <1>1, <1>2, <2>1, <2>2, <3>1 DEF StreamInv, Follows, streams
      <3>2. CASE Len(cmds) # 1
        <4>1. Len(cmds') \in 1..Len(cmds') /\ cmds'[Len(cmds')] = cmds[Len(cmds)]
          BY <1>2, <3>2
        <4> QED
          BY <1>1, <1>2, <3>2, <4>1 DEF StreamInv, Follows, streams
      <3> QED
        BY <3>1, <3>2
    <2>4. Asked'
      <3>1. refused' \subseteq {mine'[t] : t \in Streams}
        BY <1>1, <1>3, <2>1 DEF StreamInv, Asked, streams
      <3>2. ASSUME NEW i \in 1..Len(cmds'), cmds'[i].kind = "subscribe"
            PROVE  mine'[cmds'[i].stream] \in Sets \ refused'
        <4>1. i + 1 \in 1..Len(cmds) /\ cmds'[i] = cmds[i + 1] /\ 1 < i + 1
          BY <1>2
        <4>2. mine[cmds[i + 1].stream] \in Sets \ refused
          BY <3>2, <4>1 DEF StreamInv, Asked
        <4>3. mine[cmds[1].stream] # mine[cmds[i + 1].stream]
          BY <1>2, <2>1, <2>2, <3>2, <4>1 DEF StreamInv, Asked
        <4> QED
          BY <1>1, <1>2, <2>1, <4>1, <4>2, <4>3 DEF streams
      <3>3. \A i, j \in 1..Len(cmds') :
               (i < j /\ cmds'[i].kind = "subscribe" /\ cmds'[j].kind = "subscribe") =>
                   mine'[cmds'[i].stream] # mine'[cmds'[j].stream]
        BY <1>1, <1>2 DEF StreamInv, Asked, streams
      <3> QED
        BY <3>1, <3>2, <3>3 DEF Asked
    <2>5. Turns'
      BY <1>2, <2>1, <2>2 DEF StreamInv, Turns
    <2>6. mishaps' \in 0..MaxMishaps
      BY <1>6, StreamAssumption DEF StreamInv, StreamTypeOK, Refuse, Mishap
    <2>7. StreamTypeOK'
      BY <1>1, <2>1, <2>2, <2>6 DEF StreamInv, StreamTypeOK, writers, streams
    <2>8. Told'
      BY <1>1, <1>4 DEF StreamInv, Told, Known, writers, streams
    <2> QED
      BY <1>1, <1>2, <1>4, <2>3, <2>4, <2>5, <2>7, <2>8 DEF StreamInv, Wired, Tried, Unmade,
         writers, streams
  <1> QED
    BY <1>5, <1>6

LEMMA InboxHolds ==
    ASSUME StreamInv, Reply \/ SubscribeThrows \/ Deliver \/ Lose
    PROVE  StreamInv'
  <1>1. /\ inbox # <<>> /\ inbox' = Tail(inbox)
        /\ UNCHANGED <<stored, written, writers, cmds, subscribed, map, mine, seen>>
    BY DEF Reply, SubscribeThrows, Deliver, Lose, Close, streams
  <1>2. /\ inbox' \in Seq(Messages) /\ Head(inbox) \in Messages
        /\ Head(inbox) = inbox[1] /\ 1 \in 1..Len(inbox)
        /\ \A i \in 1..Len(inbox') : inbox'[i] = inbox[i + 1] /\ i + 1 \in 1..Len(inbox)
    BY <1>1, TakeFacts DEF StreamInv
  <1>3. mishaps' \in 0..MaxMishaps
    BY StreamAssumption DEF StreamInv, StreamTypeOK, Reply, SubscribeThrows,
       Deliver, Lose, Mishap
  <1>4. spc' \in [Streams -> SPcs] /\ Unmade'
    BY <1>1 DEF StreamInv, Unmade, SPcs, Reply, SubscribeThrows, Deliver, Lose,
       Close, SGoto, streams
  <1>5. view' \in [Streams -> Rows] /\ \A s \in Streams : Known(view'[s])
    <2>1. CASE view' = view
      BY <2>1 DEF StreamInv, StreamTypeOK, Told
    <2>2. CASE Deliver
      <3>1. Head(inbox).row \in Rows /\ Known(Head(inbox).row)
        BY <1>2, <2>2 DEF Deliver, Messages, StreamInv, Told
      <3>2. \A s \in Streams : view[s] \in Rows /\ Known(view[s])
        BY DEF StreamInv, StreamTypeOK, Told
      <3> QED
        BY <2>2, <3>1, <3>2 DEF Deliver
    <2>3. CASE SubscribeThrows
      BY <2>3, RowFacts DEF StreamInv, StreamTypeOK, Told, SubscribeThrows, Close, Known
    <2> QED
      BY <2>1, <2>2, <2>3 DEF Reply, Lose, streams
  <1>6. StreamTypeOK'
    BY <1>1, <1>3, <1>5 DEF StreamInv, StreamTypeOK, writers, map
  <1>7. Told'
    BY <1>1, <1>2, <1>5 DEF StreamInv, Told, Known, writers
  <1> QED
    BY <1>1, <1>2, <1>4, <1>6, <1>7 DEF StreamInv, Wired, Tried, Follows, Asked,
       Turns, writers, map

\* The steps of a stream that leave the map alone.
LEMMA ReadHolds ==
    ASSUME StreamInv, NEW s \in Streams,
           Open(s) \/ WriteInitial(s) \/ Join(s) \/ Abort(s)
    PROVE  StreamInv'
  <1>1. /\ UNCHANGED <<stored, written, refused, writers, redis, current, mine>>
    BY DEF Open, WriteInitial, Join, Abort, map
  <1>2. seen' \in [Streams -> Rows] /\ \A t \in Streams : Known(seen'[t])
    BY RowFacts DEF StreamInv, StreamTypeOK, Told, Open, WriteInitial, Join,
       Abort, Known
  <1>3. view' \in [Streams -> Rows] /\ \A t \in Streams : Known(view'[t])
    BY DEF StreamInv, StreamTypeOK, Told, Open, WriteInitial, Join, Abort
  <1>4. members' \in [Sets -> SUBSET Streams]
    BY DEF StreamInv, StreamTypeOK, Open, WriteInitial, Join, Abort,
       map
  <1>5. mishaps' \in 0..MaxMishaps
    BY StreamAssumption DEF StreamInv, StreamTypeOK, Open, WriteInitial, Join,
       Abort, Mishap
  <1>6. spc' \in [Streams -> SPcs] /\ Unmade'
    <2>1. CASE Open(s)
      BY <1>1, <2>1 DEF StreamInv, SPcs, Unmade, Open, SGoto
    <2>2. CASE WriteInitial(s)
      BY <1>1, <2>2 DEF StreamInv, SPcs, Unmade, WriteInitial, SGoto
    <2>3. CASE Join(s)
      BY <1>1, <2>3 DEF StreamInv, SPcs, Unmade, Join, SGoto
    <2>4. CASE Abort(s)
      BY <1>1, <2>4 DEF StreamInv, Unmade, Abort
    <2> QED
      BY <2>1, <2>2, <2>3, <2>4
  <1>7. StreamTypeOK'
    BY <1>1, <1>2, <1>3, <1>4, <1>5 DEF StreamInv, StreamTypeOK, writers, redis
  <1>8. Told'
    BY <1>1, <1>2, <1>3 DEF StreamInv, Told, Known, writers, redis
  <1> QED
    BY <1>1, <1>6, <1>7, <1>8 DEF StreamInv, Wired, Tried, Follows, Asked, Turns, writers,
       redis

LEMMA SubscribeHolds ==
    ASSUME StreamInv, NEW s \in Streams, Subscribe(s)
    PROVE  StreamInv'
  <1>1. UNCHANGED <<stored, written, refused, writers, subscribed, inbox, seen, view, mishaps>>
    BY DEF Subscribe
  <1>2. mine[s] = 0 /\ mine \in [Streams -> Sets \cup {0}]
    BY DEF StreamInv, StreamTypeOK, Unmade, Subscribe
  <1>3. Told'
    BY <1>1 DEF StreamInv, Told, Known, writers
  <1>4. Tried'
    BY <1>1 DEF StreamInv, Tried, writers
  <1>5. CASE current = 0
    <2> DEFINE c == [kind |-> "subscribe", stream |-> s]
    <2>1. NewSet \in Sets /\ NewSet # 0 /\ \A t \in Streams : mine[t] # NewSet
      BY <1>2, NewSetFacts
    <2>2. /\ current' = NewSet /\ mine' = [mine EXCEPT ![s] = NewSet]
          /\ cmds' = Append(cmds, c) /\ spc' = [spc EXCEPT ![s] = "waiting"]
          /\ members' = members
      BY <1>5 DEF Subscribe, SGoto
    <2>3. c \in Commands /\ c.kind = "subscribe" /\ c.stream = s
      BY DEF Commands
    <2> HIDE DEF c
    <2>4. /\ cmds' \in Seq(Commands) /\ cmds' # <<>> /\ cmds'[Len(cmds')] = c
          /\ Len(cmds) \in Nat /\ Len(cmds') = Len(cmds) + 1
          /\ \A i \in 1..Len(cmds) : cmds'[i] = cmds[i]
          /\ \A i \in 1..Len(cmds') : i \in 1..Len(cmds) \/ i = Len(cmds')
          /\ cmds = <<>> => Len(cmds) = 0
          /\ cmds # <<>> => Len(cmds) \in 1..Len(cmds)
      BY <2>2, <2>3, CommandFacts DEF StreamInv
    <2>8. \A i \in 1..Len(cmds) : cmds[i] \in Commands
      BY <2>4 DEF StreamInv, Wired
    <2>9. mine'[s] = NewSet /\ \A t \in Streams : t # s => mine'[t] = mine[t]
      BY <1>2, <2>2
    <2>10. Asked'
      <3>1. NewSet \notin refused /\ refused' \subseteq {mine'[t] : t \in Streams}
        <4>1. \A g \in refused : \E t \in Streams : g = mine[t]
          BY DEF StreamInv, Asked
        <4>2. \A g \in refused : g \in Sets
          BY DEF StreamInv, StreamTypeOK
        <4>3. \A g \in refused : \E t \in Streams : t # s /\ g = mine[t]
          BY <1>2, <4>1, <4>2, StreamAssumption, FS_CardinalityType DEF Sets
        <4>4. \A g \in refused : \E t \in Streams : g = mine'[t]
          BY <2>9, <4>3
        <4> QED
          BY <1>1, <2>1, <4>1, <4>4
      <3>2. \A i \in 1..Len(cmds) : cmds[i].kind = "subscribe" =>
               cmds[i].stream # s /\ mine'[cmds[i].stream] = mine[cmds[i].stream]
        <4> SUFFICES ASSUME NEW i \in 1..Len(cmds), cmds[i].kind = "subscribe"
                     PROVE  cmds[i].stream # s /\ mine'[cmds[i].stream] = mine[cmds[i].stream]
          OBVIOUS
        <4>1. cmds[i].stream \in Streams /\ mine[cmds[i].stream] \in Sets
          BY <2>8 DEF StreamInv, Asked, Commands
        <4>2. 0 \notin Sets
          BY StreamAssumption, FS_CardinalityType DEF Sets
        <4> QED
          BY <1>2, <2>9, <4>1, <4>2
      <3>3. \A i \in 1..Len(cmds') : cmds'[i].kind = "subscribe" =>
               mine'[cmds'[i].stream] \in Sets \ refused'
        BY <1>1, <2>1, <2>3, <2>4, <2>9, <3>1, <3>2 DEF StreamInv, Asked
      <3>4. ASSUME NEW i \in 1..Len(cmds'), NEW j \in 1..Len(cmds'), i < j,
                   cmds'[i].kind = "subscribe", cmds'[j].kind = "subscribe"
            PROVE  mine'[cmds'[i].stream] # mine'[cmds'[j].stream]
        <4>1. i \in 1..Len(cmds) /\ cmds'[i] = cmds[i] /\ cmds[i].stream \in Streams
          BY <2>4, <2>8, <3>4 DEF Commands
        <4>2. CASE j \in 1..Len(cmds)
          BY <2>4, <3>2, <3>4, <4>1, <4>2 DEF StreamInv, Asked
        <4>3. CASE j = Len(cmds')
          BY <2>1, <2>3, <2>4, <2>9, <3>2, <3>4, <4>1, <4>3
        <4> QED
          BY <2>4, <4>2, <4>3
      <3> QED
        BY <3>1, <3>3, <3>4 DEF Asked
    <2>11. ~subscribed \/ cmds # <<>>
      BY <1>5 DEF StreamInv, Follows
    <2>12. cmds # <<>> => cmds[Len(cmds)].kind # "subscribe"
      <3>1. ASSUME cmds # <<>>, cmds[Len(cmds)].kind = "subscribe"
            PROVE  FALSE
        <4>1. mine[cmds[Len(cmds)].stream] \in Sets
          BY <2>4, <3>1 DEF StreamInv, Asked
        <4> QED
          BY <1>5, <3>1, <4>1, StreamAssumption, FS_CardinalityType DEF StreamInv, Follows, Sets
      <3> QED
        BY <3>1
    <2>13. Turns'
      <3>1. cmds'[1].kind = "subscribe" => ~subscribed'
        BY <1>1, <2>3, <2>4, <2>11 DEF StreamInv, Turns
      <3>2. ASSUME NEW i \in 1..Len(cmds'), i + 1 <= Len(cmds')
            PROVE  cmds'[i].kind # cmds'[i + 1].kind
        <4>1. i \in 1..Len(cmds) /\ cmds'[i] = cmds[i]
          BY <2>4, <3>2
        <4>2. CASE i + 1 \in 1..Len(cmds)
          BY <2>4, <4>1, <4>2 DEF StreamInv, Turns
        <4>3. CASE i = Len(cmds)
          BY <2>3, <2>4, <2>12, <4>1, <4>3
        <4> QED
          BY <2>4, <4>1, <4>2, <4>3
      <3> QED
        BY <3>1, <3>2 DEF Turns
    <2>5. StreamTypeOK'
      BY <1>1, <1>2, <2>1, <2>2 DEF StreamInv, StreamTypeOK, writers
    <2>6. spc' \in [Streams -> SPcs] /\ Unmade'
      BY <1>2, <2>2 DEF StreamInv, SPcs, Unmade
    <2>7. Follows'
      BY <2>2, <2>3, <2>4, <2>9 DEF Follows
    <2> QED
      BY <1>1, <1>3, <1>4, <2>4, <2>5, <2>6, <2>7, <2>10, <2>13 DEF StreamInv, Wired
  <1>6. CASE current # 0
    <2>1. /\ members' = [members EXCEPT ![current] = @ \cup {s}]
          /\ spc' = [spc EXCEPT ![s] = "listening"]
          /\ UNCHANGED <<current, mine, cmds>>
      BY <1>6 DEF Subscribe, SGoto
    <2>2. StreamTypeOK'
      BY <1>1, <2>1 DEF StreamInv, StreamTypeOK, writers
    <2>3. spc' \in [Streams -> SPcs] /\ Unmade'
      BY <2>1 DEF StreamInv, SPcs, Unmade
    <2> QED
      BY <1>1, <1>3, <1>4, <2>1, <2>2, <2>3 DEF StreamInv, Wired, Follows, Asked, Turns
  <1> QED
    BY <1>5, <1>6

LEMMA LeaveHolds ==
    ASSUME StreamInv, NEW s \in Streams, Leave(s)
    PROVE  StreamInv'
  <1>1. /\ UNCHANGED <<stored, written, refused, writers, subscribed, inbox, mine, seen, mishaps>>
        /\ spc' = [spc EXCEPT ![s] = "closed"]
        /\ view' = [view EXCEPT ![s] = FreshRow]
    BY DEF Leave, Close, SGoto
  <1>2. Told'
    BY <1>1, RowFacts DEF StreamInv, StreamTypeOK, Told, Known, writers
  <1>3. Tried'
    BY <1>1 DEF StreamInv, Tried, writers
  <1>4. spc' \in [Streams -> SPcs] /\ Unmade'
    BY <1>1 DEF StreamInv, SPcs, Unmade
  <1>5. members' \in [Sets -> SUBSET Streams]
    BY DEF StreamInv, StreamTypeOK, Leave
  <1>6. current' \in {current, 0}
    BY DEF Leave
  <1>7. StreamTypeOK'
    BY <1>1, <1>5, <1>6, RowFacts DEF StreamInv, StreamTypeOK, writers
  <1>8. CASE UNCHANGED <<current, cmds>>
    BY <1>1, <1>2, <1>3, <1>4, <1>7, <1>8 DEF StreamInv, Wired, Follows, Asked, Turns
  <1>9. CASE current # 0 /\ current' = 0 /\ cmds' = Append(cmds, [kind |-> "unsubscribe", stream |-> s])
    <2> DEFINE c == [kind |-> "unsubscribe", stream |-> s]
    <2>1. c \in Commands /\ c.kind = "unsubscribe"
      BY DEF Commands
    <2> HIDE DEF c
    <2>2. /\ cmds' \in Seq(Commands) /\ cmds' # <<>> /\ cmds'[Len(cmds')] = c
          /\ Len(cmds) \in Nat /\ Len(cmds') = Len(cmds) + 1
          /\ \A i \in 1..Len(cmds) : cmds'[i] = cmds[i]
          /\ \A i \in 1..Len(cmds') : i \in 1..Len(cmds) \/ i = Len(cmds')
          /\ cmds = <<>> => Len(cmds) = 0
          /\ cmds # <<>> => Len(cmds) \in 1..Len(cmds)
      BY <1>9, <2>1, CommandFacts DEF StreamInv, c
    <2>3. Follows'
      BY <1>9, <2>1, <2>2 DEF Follows
    <2>4. Asked'
      BY <1>1, <2>1, <2>2 DEF StreamInv, Asked
    <2>5. cmds # <<>> => cmds[Len(cmds)].kind = "subscribe"
      BY <1>9 DEF StreamInv, Follows
    <2>6. Turns'
      <3>1. cmds'[1].kind = "subscribe" => ~subscribed'
        BY <1>1, <2>1, <2>2 DEF StreamInv, Turns
      <3>2. ASSUME NEW i \in 1..Len(cmds'), i + 1 <= Len(cmds')
            PROVE  cmds'[i].kind # cmds'[i + 1].kind
        <4>1. i \in 1..Len(cmds) /\ cmds'[i] = cmds[i]
          BY <2>2, <3>2
        <4>2. CASE i + 1 \in 1..Len(cmds)
          BY <2>2, <4>1, <4>2 DEF StreamInv, Turns
        <4>3. CASE i = Len(cmds)
          BY <2>1, <2>2, <2>5, <4>1, <4>3
        <4> QED
          BY <2>2, <4>1, <4>2, <4>3
      <3> QED
        BY <3>1, <3>2 DEF Turns
    <2> QED
      BY <1>1, <1>2, <1>3, <1>4, <1>7, <2>2, <2>3, <2>4, <2>6 DEF StreamInv, Wired
  <1> QED
    BY <1>8, <1>9 DEF Leave

LEMMA StreamStepHolds ==
    ASSUME StreamInv, [StreamNext]_streamVars
    PROVE  StreamInv'
  <1>1. CASE UNCHANGED streamVars
    <2>1. StreamTypeOK' /\ Wired' /\ spc' \in [Streams -> SPcs]
      BY <1>1 DEF StreamInv, StreamTypeOK, Wired, streamVars, writers, redis,
         map, streams
    <2>2. Tried' /\ Unmade' /\ Follows' /\ Asked' /\ Turns' /\ Told'
      BY <1>1 DEF StreamInv, Tried, Unmade, Follows, Asked, Turns, Told, Known, streamVars,
         writers, redis, map, streams
    <2> QED
      BY <2>1, <2>2 DEF StreamInv
  <1>2. CASE WorkerStep
    BY <1>2, WorkerHolds
  <1>3. CASE Execute \/ Refuse
    BY <1>3, ServerHolds
  <1>4. CASE Reply \/ SubscribeThrows \/ Deliver \/ Lose
    BY <1>4, InboxHolds
  <1>5. CASE \E s \in Streams : Open(s) \/ StreamStep(s) \/ Abort(s)
    BY <1>5, ReadHolds, SubscribeHolds, LeaveHolds DEF StreamStep
  <1> QED
    BY <1>1, <1>2, <1>3, <1>4, <1>5 DEF StreamNext

-----------------------------------------------------------------------------
(* The theorems *)

\* The inductive invariant.
THEOREM StreamInductive == StreamSpec => []StreamInv
  <1>1. StreamInit => StreamInv
    BY StreamInitHolds
  <1>2. StreamInv /\ [StreamNext]_streamVars => StreamInv'
    BY StreamStepHolds
  <1> QED
    BY <1>1, <1>2, PTL DEF StreamSpec

\* What the worker, the subscriber and the streams hold keeps its type; the
\* intelligence job stays within its attempts, and no set is made twice.
THEOREM StreamTypeCorrect == StreamSpec => []StreamTypeOK
  <1>1. StreamInv => StreamTypeOK
    BY DEF StreamInv
  <1> QED
    BY StreamInductive, <1>1, PTL

\* When no command is under way the server sends the channel's events exactly when
\* the subscriber's map has an entry for it that was not refused, however streams
\* come and go.
THEOREM SubscriptionMatchesMap == StreamSpec => []SubscriptionFollowsMap
  <1>1. StreamInv => SubscriptionFollowsMap
    BY DEF StreamInv, Follows, SubscriptionFollowsMap
  <1> QED
    BY StreamInductive, <1>1, PTL

\* No stream is told of an end that was not written to the row, whatever is lost.
THEOREM EndsAreWritten == StreamSpec => []EndWasWritten
  <1>1. StreamInv => EndWasWritten
    BY DEF StreamInv, Told, Known, EndWasWritten
  <1> QED
    BY StreamInductive, <1>1, PTL
=============================================================================
