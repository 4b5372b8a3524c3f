----------------------- MODULE CanonicalMemory_proofs -----------------------
(***************************************************************************)
(* What holds of the canonical memories of a twin for every number of keys, *)
(* extractions, intakes, commands and failed calls: TypeOK,                *)
(* SupportIsCounted, ForgetHolds and ServedByUser are invariants.          *)
(*                                                                         *)
(* None of the last three is inductive.  A count runs ahead of the          *)
(* candidates while a job is between the row and its candidate (Counted);   *)
(* a forgetting supersedes what it matched one row at a time while the      *)
(* others write (Forgotten); and an approved row need not be served, but    *)
(* is as soon as a write brings it a value (Said).  The types say which     *)
(* rows the jobs and commands have seen, for a row that was seen stays.     *)
(***************************************************************************)
EXTENDS CanonicalMemory, FiniteSetTheorems, TLAPS

\* Who is on the way from a counted row to its candidate.
PendingPcs == {"candidate", "create", "revise"}
JobPcs == {"queued", "find", "judge", "reread", "update", "insert", "done", "failed"} \cup PendingPcs

Job == [pc : JobPcs, at : Nat, key : Keys, read : Metadata]

\* Jobs, the memory each is at, and the rows they have seen.
JobsOK ==
    /\ wk \in [Workers -> Job]
    /\ batch \in [Workers -> Seq(Evidence)] /\ tries \in [Workers -> 0..MaxTries]
    /\ \A w \in Workers :
          /\ wk[w].pc \notin {"done", "failed", "queued"} => wk[w].at \in 1..Len(batch[w])
          /\ wk[w].pc = "queued" => wk[w].at = 1
          /\ wk[w].pc \notin {"done", "failed"} => tries[w] > 0
          /\ wk[w].pc \in {"reread", "update"} => Exists(wk[w].key)

\* Intakes, by how far they are.
IntakesOK ==
    /\ intake = [i \in Intakes |-> intake[i]]
    /\ \A i \in Intakes :
          \/ intake[i].pc = "idle"
          \/ intake[i] \in [pc : {"stated"}, key : Keys, value : Values]
          \/ intake[i] \in [pc : {"update", "insert"}, key : Keys, value : Values, read : Metadata]
          \/ intake[i] \in [pc : {"stored", "failed"}, key : Keys, value : Values]

\* A command that has matched these keys.
Commanded(K) ==
    [pc : {"supersede", "correct", "audit", "applied", "failed"}, kind : {"forget", "correct"},
     value : Values, keys : {K}, cands : SUBSET Evidence, todo : SUBSET (K \cup Evidence),
     read : [K -> Metadata], threw : BOOLEAN]

CommandOK(r) == r.pc \in {"idle", "refused"} \/ \E K \in SUBSET Keys : r \in Commanded(K)

CommandsOK ==
    /\ cmd = [c \in Commands |-> cmd[c]]
    /\ \A c \in Commands :
          /\ CommandOK(cmd[c])
          /\ cmd[c].pc = "correct" => cmd[c].kind = "correct"
          /\ cmd[c].pc \in {"correct", "audit", "applied"} => cmd[c].todo = {} /\ ~cmd[c].threw
          /\ cmd[c].pc = "supersede" =>
                \A e \in Evidence : e \in cmd[c].todo => cands[e].status # "none"

\* What a memory rests on, and the jobs that have counted a candidate in and have
\* not written it yet.
Supporters(k) == {e \in Evidence : cands[e].status # "none" /\ cands[e].link = k}
Facts(k)      == {i \in Intakes : intake[i].pc = "stored" /\ intake[i].key = k}
Pending(k)    == {w \in Workers : wk[w].pc \in PendingPcs /\ wk[w].key = k}

Counted(k) ==
    /\ IsFiniteSet(Supporters(k)) /\ IsFiniteSet(Facts(k)) /\ IsFiniteSet(Pending(k))
    /\ canon[k].count >= Cardinality(Supporters(k)) + Cardinality(Facts(k)) + Cardinality(Pending(k))

\* What a command does not bind: what was spoken of since, or stated before and not yet
\* written.
Excused(c) == since[c] \cup crossed[c]

\* Whatever is still to be written for the user is excused from every command.
Aware(c) ==
    cmd[c].pc \notin {"idle", "refused"} =>
        /\ \A i \in Intakes : Writing(i) => intake[i].key \in Excused(c)
        /\ \A d \in Commands \ {c} : Correcting(d) => cmd[d].keys \subseteq Excused(c)

\* What a forgetting has gone through is superseded.
Forgotten(c) ==
    cmd[c].pc \in {"supersede", "audit", "applied"} /\ cmd[c].kind = "forget" /\ ~cmd[c].threw =>
        /\ \A k \in cmd[c].keys \ (cmd[c].todo \cup Excused(c)) : canon[k].status = "superseded"
        /\ \A e \in cmd[c].cands \ (cmd[c].todo \cup since[c] \cup Instructions) :
              cands[e].status = "superseded"

\* The user has stated the memory, or corrected it.
Said(k) ==
    \/ \E i \in Intakes : intake[i].pc = "stored" /\ intake[i].key = k
    \/ \E c \in Commands : cmd[c].pc \in {"audit", "applied", "failed"}
                           /\ cmd[c].kind = "correct" /\ k \in cmd[c].keys

IInv ==
    /\ TypeOK /\ JobsOK /\ IntakesOK /\ CommandsOK
    /\ \A k \in Keys : Counted(k)
    /\ \A c \in Commands : Aware(c) /\ Forgotten(c)
    /\ \A k \in Keys : canon[k].status = "approved" => Said(k)

-----------------------------------------------------------------------------
(* What the steps of an extraction change *)

Row == [status : Statuses \ {"rejected"}, count : Nat, value : Truths,
        hashes : SUBSET (Evidence \cup Intakes)]

\* Only one row, or one candidate, is written.
RowFrame(k) ==
    /\ canon' \in [Keys -> Row] /\ k \in Keys
    /\ \A l \in Keys \ {k} : canon'[l] = canon[l]

CandFrame(e) ==
    /\ cands' \in [Evidence -> [status : Statuses, link : Keys]] /\ e \in Evidence
    /\ \A d \in Evidence \ {e} : cands'[d] = cands[d]

\* Only this job moves.
JobFrame(w) ==
    /\ wk' \in [Workers -> Job]
    /\ \A v \in Workers \ {w} : wk'[v] = wk[v] /\ tries'[v] = tries[v]
    /\ tries' \in [Workers -> 0..MaxTries]

\* What WGoto makes of a job.
LEMMA GotoFrame ==
    ASSUME JobsOK, NEW w \in Workers, NEW p \in JobPcs, WGoto(w, p), tries' = tries
    PROVE  JobFrame(w) /\ wk'[w].pc = p /\ wk'[w].at = wk[w].at
           /\ wk'[w].key = wk[w].key /\ wk'[w].read = wk[w].read
  <1>1. [wk[w] EXCEPT !.pc = p] \in Job
    BY DEF JobsOK, Job
  <1>2. wk' = [wk EXCEPT ![w] = [wk[w] EXCEPT !.pc = p]]
    BY DEF WGoto, JobsOK
  <1>3. QED
    BY <1>1, <1>2 DEF JobsOK, JobFrame, Job

\* ... what Stored makes of it: the next memory, or the end of the batch.
LEMMA StoredFrame ==
    ASSUME JobsOK, NEW w \in Workers, Stored(w), tries' = tries, wk[w].at \in 1..Len(batch[w])
    PROVE  /\ JobFrame(w) /\ wk'[w].key = wk[w].key
           /\ \/ wk'[w].pc = "find" /\ wk'[w].at \in 1..Len(batch[w])
              \/ wk'[w].pc = "done"
  <1>1. wk[w] \in Job /\ batch[w] \in Seq(Evidence)
    BY DEF JobsOK
  <1>2. Len(batch[w]) \in Nat
    BY <1>1
  <1>3. CASE wk[w].at < Len(batch[w])
    <2>1. wk' = [wk EXCEPT ![w] = [wk[w] EXCEPT !.pc = "find", !.at = wk[w].at + 1]]
      BY <1>3 DEF Stored, JobsOK
    <2>2. wk[w].at + 1 \in 1..Len(batch[w]) /\ wk[w].at + 1 \in Nat
      BY <1>2, <1>3
    <2>3. [wk[w] EXCEPT !.pc = "find", !.at = wk[w].at + 1] \in Job
      BY <1>1, <2>2 DEF Job, JobPcs
    <2>4. QED
      BY <1>1, <2>1, <2>2, <2>3 DEF JobsOK, JobFrame, Job
  <1>4. CASE ~(wk[w].at < Len(batch[w]))
    <2>1. wk' = [wk EXCEPT ![w] = [wk[w] EXCEPT !.pc = "done", !.at = 1]]
      BY <1>4 DEF Stored, JobsOK
    <2>2. [wk[w] EXCEPT !.pc = "done", !.at = 1] \in Job
      BY <1>1 DEF Job, JobPcs
    <2>3. QED
      BY <1>1, <2>1, <2>2 DEF JobsOK, JobFrame, Job
  <1>5. QED
    BY <1>3, <1>4

\* ... and what Throws does: the first memory again, or failed.
LEMMA ThrowsFrame ==
    ASSUME JobsOK, NEW w \in Workers, Throws(w), wk[w].pc \notin {"queued", "done", "failed"}
    PROVE  /\ JobFrame(w) /\ wk'[w].key = wk[w].key
           /\ \/ wk'[w].pc = "queued" /\ wk'[w].at = 1 /\ tries'[w] > 0
              \/ wk'[w].pc = "failed"
  <1>1. wk[w] \in Job /\ tries \in [Workers -> 0..MaxTries] /\ MaxTries \in Nat
    BY CanonicalAssumption DEF JobsOK
  <1>2. NoMetadata \in Metadata
    BY DEF NoMetadata, Metadata, Truths
  <1>3. PICK p \in {"queued", "failed"} : p = IF tries[w] > 1 THEN "queued" ELSE "failed"
    OBVIOUS
  <1>4. wk' = [wk EXCEPT ![w] = [wk[w] EXCEPT !.pc = p, !.at = 1, !.read = NoMetadata]]
    BY <1>3 DEF Throws, JobsOK
  <1>5. [wk[w] EXCEPT !.pc = p, !.at = 1, !.read = NoMetadata] \in Job
    BY <1>1, <1>2, <1>3 DEF Job, JobPcs
  <1>6. /\ tries' \in [Workers -> 0..MaxTries] /\ \A v \in Workers \ {w} : tries'[v] = tries[v]
        /\ p = "queued" => tries'[w] > 0
    BY <1>1, <1>3 DEF Throws, JobsOK
  <1>7. QED
    BY <1>1, <1>3, <1>4, <1>5, <1>6 DEF JobsOK, JobFrame, Job

\* A row that is read or written.
LEMMA RowTypes ==
    ASSUME TypeOK
    PROVE  /\ canon \in [Keys -> Row]
           /\ \A k \in Keys : Read(k) \in Metadata
           /\ NoMetadata \in Metadata
           /\ \A e \in Evidence, m \in Metadata :
                 /\ Merged(m, e) \in Metadata
                 /\ NewCanonical(e) \in Row /\ NewCanonical(e).status = "candidate"
                 /\ NewCanonical(e).count = 1
  <1>1. canon \in [Keys -> Row]
    BY DEF TypeOK, Row
  <1>2. \A k \in Keys : Read(k) \in Metadata
    BY <1>1 DEF Read, Metadata, Row
  <1>3. NoMetadata \in Metadata
    BY DEF NoMetadata, Metadata, Truths
  <1>4. ASSUME NEW e \in Evidence, NEW m \in Metadata
        PROVE  Merged(m, e) \in Metadata
    BY <1>4, CanonicalAssumption DEF Merged, Metadata, Truths
  <1>5. ASSUME NEW e \in Evidence
        PROVE  /\ NewCanonical(e) \in Row /\ NewCanonical(e).status = "candidate"
               /\ NewCanonical(e).count = 1
    <2>1. Merged(NoMetadata, e) \in Metadata
      BY <1>3, <1>4
    <2>2. QED
      BY <2>1 DEF NewCanonical, Metadata, Row, Statuses
  <1>6. QED
    BY <1>1, <1>2, <1>3, <1>4, <1>5

\* A job that is under way is at one of its memories.
LEMMA AtMemory ==
    ASSUME JobsOK, NEW w \in Workers, wk[w].pc \notin {"queued", "done", "failed"}
    PROVE  Memory(w) \in Evidence /\ wk[w].at \in 1..Len(batch[w]) /\ wk[w].key \in Keys
           /\ KeyOf[Memory(w)] \in Keys /\ wk[w] \in Job /\ tries[w] > 0
  <1>1. batch[w] \in Seq(Evidence) /\ wk[w].at \in 1..Len(batch[w]) /\ wk[w] \in Job /\ tries[w] > 0
    BY DEF JobsOK
  <1>2. Memory(w) \in Evidence
    BY <1>1 DEF Memory
  <1>3. QED
    BY <1>1, <1>2, CanonicalAssumption DEF Job

\* The job goes from here to there; the rows it may read exist.
JobTo(w) ==
    /\ wk'[w].pc \notin {"done", "failed", "queued"} => wk'[w].at \in 1..Len(batch[w])
    /\ wk'[w].pc = "queued" => wk'[w].at = 1
    /\ wk'[w].pc \notin {"done", "failed"} => tries'[w] > 0
    /\ wk'[w].pc \in {"reread", "update"} => Exists(wk'[w].key)

\* What an extraction does to the rows and the candidates.
CountIn(w) ==
    /\ wk[w].pc = "update" /\ wk'[w].pc = "candidate" /\ wk'[w].key = wk[w].key
    /\ RowFrame(wk[w].key) /\ cands' = cands
    /\ canon'[wk[w].key].count = canon[wk[w].key].count + 1
    /\ canon'[wk[w].key].status = canon[wk[w].key].status

Insert(w) ==
    /\ wk[w].pc = "insert" /\ wk'[w].pc = "candidate" /\ wk'[w].key = wk[w].key
    /\ RowFrame(wk[w].key) /\ cands' = cands /\ ~Exists(wk[w].key)
    /\ canon'[wk[w].key].count = 1
    /\ canon'[wk[w].key].status = "candidate"

Link(w) ==
    /\ wk[w].pc \in {"create", "revise"} /\ wk'[w].pc \notin PendingPcs
    /\ canon' = canon
    /\ \E e \in Evidence :
          /\ CandFrame(e) /\ cands'[e].link = wk[w].key
          /\ cands[e].status # "none" => cands'[e].status # "none"
          /\ e \notin Instructions => \/ cands'[e].status = cands[e].status
                                      \/ cands[e].status = "none"

Quiet(w) ==
    /\ canon' = canon /\ cands' = cands
    /\ wk'[w].pc \in PendingPcs => wk[w].pc \in PendingPcs /\ wk'[w].key = wk[w].key

\* What the steps of an extraction come to.
LEMMA ExtractionMoves ==
    ASSUME TypeOK, JobsOK, NEW w \in Workers, Extraction(w)
    PROVE  /\ JobFrame(w) /\ JobTo(w) /\ UNCHANGED <<batch, intake, cmd, history, reviews>>
           /\ CountIn(w) \/ Insert(w) \/ Link(w) \/ Quiet(w)
           /\ mishaps' = mishaps \/ (mishaps > 0 /\ mishaps' = mishaps - 1)
  <1> USE DEF ExtractionOnly, budget
  <1>p. /\ {"queued", "find", "judge", "reread", "update", "insert", "done", "failed",
            "candidate", "create", "revise"} = JobPcs
        /\ PendingPcs = {"candidate", "create", "revise"}
    BY DEF JobPcs, PendingPcs
  <1>t. ASSUME wk[w].pc \notin {"queued", "done", "failed"}, Throws(w), canon' = canon, cands' = cands
        PROVE  JobFrame(w) /\ JobTo(w) /\ Quiet(w)
    BY <1>p, <1>t, ThrowsFrame DEF JobTo, Quiet
  <1>1. CASE Start(w)
    <2>1. wk[w] \in Job /\ batch[w] \in Seq(Evidence) /\ wk[w].pc = "queued" /\ wk[w].at = 1 /\ tries[w] > 0
      BY <1>1 DEF JobsOK, Start
    <2>2. CASE batch[w] = <<>> /\ WGoto(w, "done")
      BY <1>1, <1>p, <2>1, <2>2, GotoFrame DEF Start, JobTo, Quiet
    <2>3. CASE batch[w] # <<>> /\ WGoto(w, "find")
      <3>1. 1 \in 1..Len(batch[w])
        BY <2>1, <2>3
      <3>2. QED
        BY <1>1, <1>p, <2>1, <2>3, <3>1, GotoFrame DEF Start, JobTo, Quiet
    <2>4. QED
      BY <1>1, <2>2, <2>3 DEF Start
  <1>2. CASE FindCanonical(w)
    <2>1. /\ wk[w].pc = "find" /\ wk[w] \in Job /\ wk[w].at \in 1..Len(batch[w]) /\ tries[w] > 0
          /\ KeyOf[Memory(w)] \in Keys
      BY <1>2, AtMemory DEF FindCanonical
    <2>2. PICK k \in Keys : k = KeyOf[Memory(w)]
      BY <2>1
    <2>3. PICK p \in {"update", "judge"} : p = IF Exists(k) THEN "update" ELSE "judge"
      OBVIOUS
    <2>4. PICK m \in Metadata : m = Read(k)
      BY RowTypes
    <2>5. wk' = [wk EXCEPT ![w] = [wk[w] EXCEPT !.pc = p, !.key = k, !.read = m]]
      BY <1>2, <2>2, <2>3, <2>4 DEF FindCanonical, JobsOK
    <2>6. [wk[w] EXCEPT !.pc = p, !.key = k, !.read = m] \in Job
      BY <1>p, <2>1, <2>2, <2>3, <2>4 DEF Job
    <2>7. tries' = tries /\ canon' = canon /\ cands' = cands
      BY <1>2 DEF FindCanonical
    <2>8. JobFrame(w)
      BY <2>5, <2>6, <2>7 DEF JobsOK, JobFrame
    <2>9. wk'[w].pc = p /\ wk'[w].key = k /\ wk'[w].at = wk[w].at
      BY <2>1, <2>5 DEF JobsOK, Job
    <2>10. QED
      BY <1>2, <1>p, <2>1, <2>3, <2>7, <2>8, <2>9 DEF FindCanonical, JobTo, Quiet
  <1>3. CASE Judge(w)
    <2>1. /\ wk[w].pc = "judge" /\ wk[w] \in Job /\ wk[w].at \in 1..Len(batch[w]) /\ tries[w] > 0
      BY <1>3, AtMemory DEF Judge
    <2>2. CASE WGoto(w, "insert")
      BY <1>3, <1>p, <2>1, <2>2, GotoFrame DEF Judge, JobTo, Quiet
    <2>3. ASSUME NEW k \in Keys, Exists(k), wk' = [wk EXCEPT ![w].pc = "reread", ![w].key = k]
          PROVE  JobFrame(w) /\ JobTo(w) /\ Quiet(w)
      <3>1. wk' = [wk EXCEPT ![w] = [wk[w] EXCEPT !.pc = "reread", !.key = k]]
        BY <2>3 DEF JobsOK
      <3>2. [wk[w] EXCEPT !.pc = "reread", !.key = k] \in Job
        BY <1>p, <2>1 DEF Job
      <3>3. tries' = tries /\ canon' = canon /\ cands' = cands
        BY <1>3 DEF Judge
      <3>4. JobFrame(w)
        BY <3>1, <3>2, <3>3 DEF JobsOK, JobFrame
      <3>5. wk'[w].pc = "reread" /\ wk'[w].key = k /\ wk'[w].at = wk[w].at
        BY <2>1, <3>1 DEF JobsOK, Job
      <3>6. QED
        BY <1>p, <2>1, <2>3, <3>3, <3>4, <3>5 DEF JobTo, Quiet
    <2>4. QED
      BY <1>3, <2>2, <2>3 DEF Judge
  <1>4. CASE Reread(w)
    <2>1. /\ wk[w].pc = "reread" /\ wk[w] \in Job /\ wk[w].at \in 1..Len(batch[w]) /\ tries[w] > 0
          /\ wk[w].key \in Keys /\ Exists(wk[w].key)
      BY <1>4, AtMemory DEF Reread, JobsOK
    <2>2. PICK m \in Metadata : m = Read(wk[w].key)
      BY <2>1, RowTypes
    <2>3. wk' = [wk EXCEPT ![w] = [wk[w] EXCEPT !.pc = "update", !.read = m]]
      BY <1>4, <2>2 DEF Reread, JobsOK
    <2>4. [wk[w] EXCEPT !.pc = "update", !.read = m] \in Job
      BY <1>p, <2>1, <2>2 DEF Job
    <2>5. tries' = tries /\ canon' = canon /\ cands' = cands
      BY <1>4 DEF Reread
    <2>6. JobFrame(w)
      BY <2>3, <2>4, <2>5 DEF JobsOK, JobFrame
    <2>7. wk'[w].pc = "update" /\ wk'[w].key = wk[w].key /\ wk'[w].at = wk[w].at
      BY <2>1, <2>3 DEF JobsOK, Job
    <2>8. QED
      BY <1>4, <1>p, <2>1, <2>5, <2>6, <2>7 DEF Reread, JobTo, Quiet
  <1>5. CASE UpdateCanonical(w)
    <2>1. /\ wk[w].pc = "update" /\ wk[w] \in Job /\ wk[w].at \in 1..Len(batch[w]) /\ tries[w] > 0
          /\ wk[w].key \in Keys /\ Memory(w) \in Evidence
      BY <1>5, AtMemory DEF UpdateCanonical
    <2>2. wk[w].read \in Metadata
      BY <2>1 DEF Job
    <2>3. PICK m \in Metadata : m = Merged(wk[w].read, Memory(w))
      BY <2>1, <2>2, RowTypes
    <2>4. canon' = [canon EXCEPT ![wk[w].key].count = @ + 1, ![wk[w].key].value = m.value,
                                 ![wk[w].key].hashes = m.hashes]
      BY <1>5, <2>3 DEF UpdateCanonical, WriteEvidence
    <2>5. canon \in [Keys -> Row]
      BY RowTypes
    <2>6. /\ RowFrame(wk[w].key)
          /\ canon'[wk[w].key].count = canon[wk[w].key].count + 1
          /\ canon'[wk[w].key].status = canon[wk[w].key].status
      <3>1. PICK k \in Keys : k = wk[w].key
        BY <2>1
      <3>2. PICK v \in Truths, hs \in SUBSET (Evidence \cup Intakes), n \in Nat :
               v = m.value /\ hs = m.hashes /\ n = canon[k].count + 1
        <4>1. m.value \in Truths /\ m.hashes \in SUBSET (Evidence \cup Intakes)
          BY <2>3 DEF Metadata
        <4>2. canon[k].count + 1 \in Nat
          BY <2>5, <3>1 DEF Row
        <4>3. QED
          BY <4>1, <4>2
      <3>3. PICK r : r = [canon[k] EXCEPT !.count = n, !.value = v, !.hashes = hs]
        OBVIOUS
      <3>4. canon[k] \in Row
        BY <2>5
      <3>5. r \in Row /\ r.count = n /\ r.status = canon[k].status
        BY <3>2, <3>3, <3>4 DEF Row
      <3>6. canon' = [canon EXCEPT ![k].count = n, ![k].value = v, ![k].hashes = hs]
        BY <2>4, <2>5, <3>1, <3>2
      <3>7. canon' = [canon EXCEPT ![k] = r]
        BY <2>5, <3>3, <3>6
      <3>8. RowFrame(k) /\ canon'[k] = r
        BY <2>5, <3>5, <3>7 DEF RowFrame
      <3>9. QED
        BY <3>1, <3>2, <3>5, <3>8
    <2>7. NoMetadata \in Metadata /\ tries' = tries /\ cands' = cands
      BY <1>5, RowTypes DEF UpdateCanonical
    <2>8. wk' = [wk EXCEPT ![w] = [wk[w] EXCEPT !.pc = "candidate", !.read = NoMetadata]]
      BY <1>5 DEF UpdateCanonical, JobsOK
    <2>9. [wk[w] EXCEPT !.pc = "candidate", !.read = NoMetadata] \in Job
      BY <1>p, <2>1, <2>7 DEF Job
    <2>10. JobFrame(w)
      BY <2>7, <2>8, <2>9 DEF JobsOK, JobFrame
    <2>11. wk'[w].pc = "candidate" /\ wk'[w].key = wk[w].key /\ wk'[w].at = wk[w].at
      BY <2>1, <2>8 DEF JobsOK, Job
    <2>12. QED
      BY <1>5, <2>1, <2>6, <2>7, <2>10, <2>11 DEF UpdateCanonical, JobTo, CountIn
  <1>6. CASE InsertCanonical(w)
    <2>1. /\ wk[w].pc = "insert" /\ wk[w].at \in 1..Len(batch[w]) /\ tries[w] > 0
          /\ wk[w].key \in Keys /\ Memory(w) \in Evidence
      BY <1>6, AtMemory DEF InsertCanonical
    <2>2. CASE Exists(wk[w].key)
      BY <1>6, <1>t, <2>1, <2>2 DEF InsertCanonical
    <2>3. CASE ~Exists(wk[w].key)
      <3>1. PICK r \in Row : r = NewCanonical(Memory(w))
        BY <2>1, RowTypes
      <3>2. r.status = "candidate" /\ r.count = 1
        BY <2>1, <3>1, RowTypes
      <3>3. canon' = [canon EXCEPT ![wk[w].key] = r]
        BY <1>6, <2>3, <3>1 DEF InsertCanonical
      <3>4. canon \in [Keys -> Row]
        BY RowTypes
      <3>5. RowFrame(wk[w].key) /\ canon'[wk[w].key] = r
        BY <2>1, <3>1, <3>3, <3>4 DEF RowFrame
      <3>6. JobFrame(w) /\ wk'[w].pc = "candidate" /\ wk'[w].at = wk[w].at /\ wk'[w].key = wk[w].key
        BY <1>6, <1>p, <2>3, GotoFrame DEF InsertCanonical
      <3>7. tries' = tries /\ cands' = cands
        BY <1>6, <2>3 DEF InsertCanonical
      <3>8. QED
        BY <1>6, <2>1, <2>3, <3>2, <3>5, <3>6, <3>7 DEF InsertCanonical, Insert, JobTo
    <2>4. QED
      BY <1>6, <2>2, <2>3 DEF InsertCanonical
  <1>7. CASE FindCandidate(w)
    <2>1. /\ wk[w].pc = "candidate" /\ wk[w].at \in 1..Len(batch[w]) /\ tries[w] > 0
      BY <1>7, AtMemory DEF FindCandidate
    <2>2. PICK p \in {"create", "revise"} : p = IF cands[Memory(w)].status = "none" THEN "create" ELSE "revise"
      OBVIOUS
    <2>3. WGoto(w, p) /\ p \in JobPcs /\ UNCHANGED <<canon, cands, tries>>
      BY <1>7, <1>p, <2>2 DEF FindCandidate
    <2>4. JobFrame(w) /\ wk'[w].pc = p /\ wk'[w].at = wk[w].at /\ wk'[w].key = wk[w].key
      BY <2>3, GotoFrame
    <2>5. QED
      BY <1>7, <1>p, <2>1, <2>2, <2>3, <2>4 DEF FindCandidate, JobTo, Quiet
  <1>8. CASE CreateCandidate(w) \/ ReviseCandidate(w)
    <2>1. /\ wk[w].pc \in {"create", "revise"} /\ wk[w].at \in 1..Len(batch[w]) /\ tries[w] > 0
          /\ wk[w].key \in Keys /\ Memory(w) \in Evidence
      BY <1>8, AtMemory DEF CreateCandidate, ReviseCandidate
    <2>2. UNCHANGED <<canon, batch, intake, cmd, history, reviews, mishaps>>
      BY <1>8 DEF CreateCandidate, ReviseCandidate
    <2>3. CASE Throws(w) /\ cands' = cands
      BY <1>t, <2>1, <2>2, <2>3
    <2>4. ASSUME NEW e \in Evidence, NEW s \in Statuses, Stored(w), tries' = tries,
                 cands' = [cands EXCEPT ![e] = [status |-> s, link |-> wk[w].key]],
                 s = "none" => cands[e].status = "none",
                 e \notin Instructions => s = cands[e].status \/ cands[e].status = "none"
          PROVE  JobFrame(w) /\ JobTo(w) /\ Link(w)
      <3>1. /\ JobFrame(w) /\ wk'[w].key = wk[w].key
            /\ \/ wk'[w].pc = "find" /\ wk'[w].at \in 1..Len(batch[w])
               \/ wk'[w].pc = "done"
        BY <2>1, <2>4, StoredFrame
      <3>2. cands \in [Evidence -> [status : Statuses, link : Keys]]
        BY DEF TypeOK
      <3>3. CandFrame(e) /\ cands'[e].link = wk[w].key /\ cands'[e].status = s
        BY <2>1, <2>4, <3>2 DEF CandFrame
      <3>4. QED
        BY <1>p, <2>1, <2>2, <2>4, <3>1, <3>3 DEF Link, JobTo
    <2>5. CASE CreateCandidate(w)
      <3>1. CASE cands[Memory(w)].status # "none"
        BY <2>2, <2>3, <2>5, <3>1 DEF CreateCandidate
      <3>2. CASE cands[Memory(w)].status = "none"
        <4>1. PICK e \in Evidence : e = Memory(w)
          BY <2>1
        <4>2. PICK s \in Statuses : s = IF Memory(w) \in Instructions THEN "approved" ELSE "candidate"
          BY DEF Statuses
        <4>3. /\ cands' = [cands EXCEPT ![e] = [status |-> s, link |-> wk[w].key]]
              /\ Stored(w) /\ tries' = tries /\ cands[e].status = "none"
          BY <2>5, <3>2, <4>1, <4>2 DEF CreateCandidate
        <4>4. JobFrame(w) /\ JobTo(w) /\ Link(w)
          BY <2>4, <4>1, <4>2, <4>3
        <4>5. QED
          BY <2>2, <4>4
      <3>3. QED
        BY <3>1, <3>2
    <2>6. CASE ReviseCandidate(w)
      <3>1. PICK e \in Evidence : e = Memory(w)
        BY <2>1
      <3>2. cands[e].status \in Statuses
        BY DEF TypeOK
      <3>3. PICK s \in Statuses : s = IF e \in Instructions THEN "approved" ELSE cands[e].status
        BY <3>2 DEF Statuses
      <3>4. /\ cands' = [cands EXCEPT ![e] = [status |-> s, link |-> wk[w].key]]
            /\ Stored(w) /\ tries' = tries
        BY <2>6, <3>1, <3>3 DEF ReviseCandidate, Revised
      <3>5. JobFrame(w) /\ JobTo(w) /\ Link(w)
        BY <2>4, <3>1, <3>3, <3>4
      <3>6. QED
        BY <2>2, <3>5
    <2>7. QED
      BY <1>8, <2>5, <2>6
  <1>9. CASE ExtractionFails(w)
    <2>1. /\ UNCHANGED <<canon, cands, batch, intake, cmd, history, reviews>>
          /\ mishaps > 0 /\ mishaps' = mishaps - 1 /\ Throws(w)
          /\ wk[w].pc \notin {"queued", "done", "failed"}
      BY <1>9 DEF ExtractionFails
    <2>2. QED
      BY <1>t, <2>1
  <1>10. QED
    BY <1>1, <1>2, <1>3, <1>4, <1>5, <1>6, <1>7, <1>8, <1>9 DEF Extraction

-----------------------------------------------------------------------------
(* What the chat and the commands change *)

Updating == [pc : {"update", "insert"}, key : Keys, value : Values, read : Metadata]
Stating  == [pc : {"stated"}, key : Keys, value : Values]
Ended    == [pc : {"stored", "failed"}, key : Keys, value : Values]

\* The history of every command but this one grows by what is spoken of.
Spoke(x) ==
    /\ crossed' = crossed
    /\ \A c \in Commands : /\ cmd[c].pc # "idle" => since'[c] = since[c] \cup x
                           /\ since'[c] \subseteq since[c] \cup x

\* A fact is stated.
StateFact(i, k) ==
    /\ intake[i].pc = "idle" /\ intake'[i] \in Stating /\ intake'[i].key = k
    /\ canon' = canon /\ Spoke({k})

\* Its row is read.
ReadFact(i) ==
    /\ intake[i] \in Stating /\ intake'[i] \in Updating /\ intake'[i].key = intake[i].key
    /\ canon' = canon /\ UNCHANGED history

\* It is given up.
LoseFact(i) ==
    /\ intake[i] \in Stating \cup Updating /\ intake'[i] \in Ended /\ intake'[i].pc = "failed"
    /\ canon' = canon /\ UNCHANGED history

\* A fact is stored: in a row that was there, or in a new one.
StoreFact(i, k) ==
    /\ intake[i] \in Updating /\ intake[i].key = k /\ intake'[i] \in Ended
    /\ intake'[i].pc = "stored" /\ intake'[i].key = k
    /\ RowFrame(k) /\ canon'[k].status = "approved"
    /\ \/ canon'[k].count = canon[k].count + 1
       \/ ~Exists(k) /\ canon'[k].count = 1
    /\ UNCHANGED history

\* What an intake does.
LEMMA ChatMoves ==
    ASSUME TypeOK, IntakesOK, NEW i \in Intakes, Chat(i)
    PROVE  /\ UNCHANGED <<cands, batch, wk, tries, cmd, reviews>>
           /\ intake' = [j \in Intakes |-> intake'[j]]
           /\ \A j \in Intakes \ {i} : intake'[j] = intake[j]
           /\ \/ \E k \in Keys : StateFact(i, k) \/ StoreFact(i, k)
              \/ ReadFact(i) \/ LoseFact(i)
  <1> USE DEF ChatOnly
  <1>0. UNCHANGED <<cands, batch, wk, tries, cmd, reviews>>
    BY DEF Chat, State, TakeFact, UpdateHot, InsertHot, IntakeFails
  <1>1. \/ intake[i].pc = "idle"
        \/ intake[i] \in Stating
        \/ intake[i] \in Updating
        \/ intake[i] \in Ended
    BY DEF IntakesOK, Stating, Updating, Ended
  <1>e. ASSUME NEW p \in {"stored", "failed"}, IntakeEnds(i, p),
               intake[i] \in Stating \cup Updating
        PROVE  /\ intake' = [j \in Intakes |-> intake'[j]]
               /\ \A j \in Intakes \ {i} : intake'[j] = intake[j]
               /\ intake'[i] \in Ended /\ intake'[i].pc = p /\ intake'[i].key = intake[i].key
    <2>1. intake = [j \in Intakes |-> intake[j]]
      BY DEF IntakesOK
    <2>2. PICK r : r = [pc |-> p, key |-> intake[i].key, value |-> intake[i].value]
      OBVIOUS
    <2>3. intake' = [intake EXCEPT ![i] = r]
      BY <1>e, <2>1, <2>2 DEF IntakeEnds
    <2>4. r \in Ended /\ r.pc = p /\ r.key = intake[i].key
      BY <1>e, <2>2 DEF Stating, Updating, Ended
    <2>5. QED
      BY <2>1, <2>3, <2>4
  <1>f. ASSUME NEW r, intake' = [intake EXCEPT ![i] = r]
        PROVE  /\ intake' = [j \in Intakes |-> intake'[j]] /\ intake'[i] = r
               /\ \A j \in Intakes \ {i} : intake'[j] = intake[j]
    <2>1. intake = [j \in Intakes |-> intake[j]]
      BY DEF IntakesOK
    <2>2. QED
      BY <1>f, <2>1
  <1>s. ASSUME NEW k \in Keys, Spoken({k})
        PROVE  Spoke({k})
    BY <1>s DEF Spoken, Spoke
  <1>2. CASE State(i)
    <2>1. PICK k \in Keys, v \in Values :
             /\ intake' = [intake EXCEPT ![i] = [pc |-> "stated", key |-> k, value |-> v]]
             /\ Spoken({k})
      BY <1>2 DEF State
    <2>2. PICK r : r = [pc |-> "stated", key |-> k, value |-> v]
      OBVIOUS
    <2>3. r \in Stating /\ r.key = k
      BY <2>2 DEF Stating
    <2>4. intake' = [intake EXCEPT ![i] = r]
      BY <2>1, <2>2
    <2>5. /\ intake' = [j \in Intakes |-> intake'[j]] /\ intake'[i] = r
          /\ \A j \in Intakes \ {i} : intake'[j] = intake[j]
      BY <1>f, <2>4
    <2>6. intake[i].pc = "idle" /\ canon' = canon
      BY <1>2 DEF State
    <2>7. StateFact(i, k)
      BY <1>s, <2>1, <2>3, <2>5, <2>6 DEF StateFact
    <2>8. QED
      BY <1>0, <2>5, <2>7
  <1>t. CASE TakeFact(i)
    <2>1. intake[i] \in Stating
      BY <1>1, <1>t DEF TakeFact, Updating, Ended
    <2>2. PICK k \in Keys, v \in Values : k = intake[i].key /\ v = intake[i].value
      BY <2>1 DEF Stating
    <2>3. PICK r : r = [pc |-> IF Exists(k) THEN "update" ELSE "insert",
                        key |-> k, value |-> v, read |-> Read(k)]
      OBVIOUS
    <2>4. r \in Updating /\ r.key = k
      BY <2>3, RowTypes DEF Updating
    <2>5. intake' = [intake EXCEPT ![i] = r]
      <3>1. intake = [j \in Intakes |-> intake[j]]
        BY DEF IntakesOK
      <3>2. QED
        BY <1>t, <2>2, <2>3, <3>1 DEF TakeFact
    <2>6. /\ intake' = [j \in Intakes |-> intake'[j]] /\ intake'[i] = r
          /\ \A j \in Intakes \ {i} : intake'[j] = intake[j]
      BY <1>f, <2>5
    <2>7. canon' = canon /\ UNCHANGED history
      BY <1>t DEF TakeFact
    <2>8. ReadFact(i)
      BY <2>1, <2>2, <2>4, <2>6, <2>7 DEF ReadFact
    <2>9. QED
      BY <1>0, <2>6, <2>8
  <1>3. CASE UpdateHot(i)
    <2>1. intake[i] \in Updating /\ intake[i].key \in Keys /\ intake[i].read \in Metadata
          /\ intake[i].value \in Values
      BY <1>1, <1>3 DEF UpdateHot, Stating, Updating, Ended
    <2>2. PICK k \in Keys : k = intake[i].key
      BY <2>1
    <2>3. PICK r : r = [status |-> "approved", count |-> canon[k].count + 1, value |-> intake[i].value,
                        hashes |-> intake[i].read.hashes \cup {i}]
      OBVIOUS
    <2>4. canon \in [Keys -> Row]
      BY RowTypes
    <2>5. canon' = [canon EXCEPT ![k] = r]
      BY <1>3, <2>2, <2>3, <2>4 DEF UpdateHot
    <2>6. r \in Row /\ r.status = "approved" /\ r.count = canon[k].count + 1
      BY <2>1, <2>2, <2>3, <2>4 DEF Row, Metadata, Statuses, Truths
    <2>7. RowFrame(k) /\ canon'[k] = r
      BY <2>4, <2>5, <2>6 DEF RowFrame
    <2>8. UNCHANGED history /\ IntakeEnds(i, "stored")
      BY <1>3, <2>2 DEF UpdateHot
    <2>9. QED
      BY <1>0, <1>e, <2>1, <2>2, <2>6, <2>7, <2>8 DEF StoreFact
  <1>4. CASE InsertHot(i)
    <2>1. intake[i] \in Updating /\ intake[i].key \in Keys /\ intake[i].value \in Values
      BY <1>1, <1>4 DEF InsertHot, Stating, Updating, Ended
    <2>2. PICK k \in Keys : k = intake[i].key
      BY <2>1
    <2>3. CASE Exists(k)
      BY <1>0, <1>4, <1>e, <2>1, <2>2, <2>3 DEF InsertHot, LoseFact
    <2>4. CASE ~Exists(k)
      <3>1. PICK r : r = [status |-> "approved", count |-> 1, value |-> intake[i].value, hashes |-> {i}]
        OBVIOUS
      <3>2. canon \in [Keys -> Row]
        BY RowTypes
      <3>3. canon' = [canon EXCEPT ![k] = r]
        BY <1>4, <2>2, <2>4, <3>1 DEF InsertHot
      <3>4. r \in Row /\ r.status = "approved" /\ r.count = 1
        BY <2>1, <3>1 DEF Row, Statuses, Truths
      <3>5. RowFrame(k) /\ canon'[k] = r
        BY <3>2, <3>3, <3>4 DEF RowFrame
      <3>6. UNCHANGED history /\ IntakeEnds(i, "stored")
        BY <1>4, <2>2, <2>4 DEF InsertHot
      <3>7. QED
        BY <1>0, <1>e, <2>1, <2>2, <2>4, <3>4, <3>5, <3>6 DEF StoreFact
    <2>5. QED
      BY <2>3, <2>4
  <1>5. CASE IntakeFails(i)
    <2>1. intake[i] \in Stating \cup Updating
      BY <1>1, <1>5 DEF IntakeFails, Writing, Ended
    <2>2. QED
      BY <1>0, <1>e, <1>5, <2>1 DEF IntakeFails, LoseFact
  <1>6. QED
    BY <1>2, <1>t, <1>3, <1>4, <1>5 DEF Chat

\* Of a command's record only the place, what is left to do and whether an update
\* failed change.
SameCommand(c) ==
    /\ \E K \in SUBSET Keys : cmd[c] \in Commanded(K) /\ cmd'[c] \in Commanded(K)
    /\ cmd'[c].kind = cmd[c].kind /\ cmd'[c].keys = cmd[c].keys /\ cmd'[c].cands = cmd[c].cands

\* What a command does.
MatchAll(c) ==
    /\ cmd[c].pc = "idle" /\ UNCHANGED <<canon, cands>>
    /\ crossed' \in [Commands -> SUBSET Keys] /\ crossed'[c] = Unwritten
    /\ \A d \in Commands \ {c} : crossed'[d] = crossed[d]
    /\ \A d \in Commands : since[d] \subseteq since'[d] /\ since'[d] \subseteq since[d] \cup Keys
    /\ \/ cmd'[c].pc = "refused"
       \/ /\ \E K \in SUBSET Keys : cmd'[c] \in Commanded(K)
          /\ cmd'[c].pc = "supersede"
          /\ cmd'[c].cands \subseteq cmd'[c].todo
          /\ cmd'[c].kind = "forget" => cmd'[c].keys \subseteq cmd'[c].todo
          /\ cmd'[c].kind = "correct" =>
                \A d \in Commands : cmd[d].pc # "idle" => cmd'[c].keys \subseteq since'[d]
          /\ \A e \in Evidence : e \in cmd'[c].todo => cands[e].status # "none"

TakeCand(c, e) ==
    /\ cmd[c].pc = "supersede" /\ cmd'[c].pc = "supersede" /\ SameCommand(c)
    /\ cmd'[c].todo = cmd[c].todo \ {e} /\ cmd'[c].threw = cmd[c].threw
    /\ CandFrame(e) /\ cands'[e].status = "superseded" /\ cands'[e].link = cands[e].link
    /\ e \in cmd[c].todo /\ UNCHANGED <<canon, history>>

TakeRow(c, k) ==
    /\ cmd[c].pc = "supersede" /\ cmd'[c].pc = "supersede" /\ SameCommand(c)
    /\ cmd'[c].todo = cmd[c].todo \ {k} /\ cmd'[c].threw = cmd[c].threw
    /\ RowFrame(k) /\ canon'[k].status = "superseded" /\ canon'[k].count = canon[k].count
    /\ UNCHANGED <<cands, history>>

GoOn(c) ==
    /\ SameCommand(c) /\ UNCHANGED <<canon, cands, history>> /\ cmd'[c].todo \subseteq cmd[c].todo
    /\ \/ cmd[c].pc = "supersede" /\ cmd'[c].pc = "supersede" /\ cmd'[c].threw
       \/ /\ cmd[c].pc = "supersede" /\ cmd[c].todo = {} /\ ~cmd[c].threw
          /\ cmd'[c].todo = {} /\ ~cmd'[c].threw
          /\ \/ cmd'[c].kind = "forget" /\ cmd'[c].pc = "audit"
             \/ cmd'[c].kind = "correct" /\ cmd'[c].pc = "correct"
       \/ cmd[c].pc = "audit" /\ cmd'[c].pc = "applied"
          /\ cmd'[c].todo = cmd[c].todo /\ cmd'[c].threw = cmd[c].threw
       \/ cmd'[c].pc = "failed" /\ cmd[c].pc \in {"supersede", "correct", "audit"}

CorrectRow(c, k) ==
    /\ cmd[c].pc = "correct" /\ cmd'[c].pc = "audit" /\ SameCommand(c)
    /\ cmd'[c].todo = cmd[c].todo /\ cmd'[c].threw = cmd[c].threw /\ k \in cmd[c].keys
    /\ RowFrame(k) /\ canon'[k].status = "approved" /\ canon'[k].count = canon[k].count
    /\ UNCHANGED <<cands, history>>

\* A place in a command's record.
LEMMA PlaceFrame ==
    ASSUME CommandsOK, NEW c \in Commands, NEW K \in SUBSET Keys, cmd[c] \in Commanded(K),
           NEW p \in {"supersede", "correct", "audit", "applied", "failed"},
           cmd' = [cmd EXCEPT ![c].pc = p]
    PROVE  /\ cmd' = [d \in Commands |-> cmd'[d]]
           /\ \A d \in Commands \ {c} : cmd'[d] = cmd[d]
           /\ SameCommand(c) /\ cmd'[c].pc = p
           /\ cmd'[c].todo = cmd[c].todo /\ cmd'[c].threw = cmd[c].threw
  <1>1. cmd = [d \in Commands |-> cmd[d]]
    BY DEF CommandsOK
  <1>2. PICK r : r = [cmd[c] EXCEPT !.pc = p]
    OBVIOUS
  <1>3. /\ r \in Commanded(K) /\ r.pc = p /\ r.kind = cmd[c].kind /\ r.keys = cmd[c].keys
        /\ r.cands = cmd[c].cands /\ r.todo = cmd[c].todo /\ r.threw = cmd[c].threw
    BY <1>2 DEF Commanded
  <1>4. cmd' = [cmd EXCEPT ![c] = r]
    BY <1>1, <1>2
  <1>5. cmd' = [d \in Commands |-> cmd'[d]] /\ cmd'[c] = r /\ \A d \in Commands \ {c} : cmd'[d] = cmd[d]
    BY <1>1, <1>4
  <1>6. QED
    BY <1>3, <1>5 DEF SameCommand

\* What is left to do, and whether an update failed.
TodoTo(c, T, b) == cmd' = [cmd EXCEPT ![c].todo = T, ![c].threw = b]

\* ... only these change.
LEMMA TodoFrame ==
    ASSUME CommandsOK, NEW c \in Commands, NEW K \in SUBSET Keys, cmd[c] \in Commanded(K),
           NEW T \in SUBSET (K \cup Evidence), NEW b \in BOOLEAN, TodoTo(c, T, b)
    PROVE  /\ cmd' = [d \in Commands |-> cmd'[d]]
           /\ \A d \in Commands \ {c} : cmd'[d] = cmd[d]
           /\ SameCommand(c) /\ cmd'[c].pc = cmd[c].pc
           /\ cmd'[c].todo = T /\ cmd'[c].threw = b
  <1>1. cmd = [d \in Commands |-> cmd[d]]
    BY DEF CommandsOK
  <1>2. PICK r : r = [cmd[c] EXCEPT !.todo = T, !.threw = b]
    OBVIOUS
  <1>3. /\ r \in Commanded(K) /\ r.pc = cmd[c].pc /\ r.kind = cmd[c].kind /\ r.keys = cmd[c].keys
        /\ r.cands = cmd[c].cands /\ r.todo = T /\ r.threw = b
    BY <1>2 DEF Commanded
  <1>4. cmd' = [cmd EXCEPT ![c] = r]
    BY <1>1, <1>2 DEF TodoTo
  <1>5. cmd' = [d \in Commands |-> cmd'[d]] /\ cmd'[c] = r /\ \A d \in Commands \ {c} : cmd'[d] = cmd[d]
    BY <1>1, <1>4
  <1>6. QED
    BY <1>3, <1>5 DEF SameCommand

\* What is not written yet are keys.
LEMMA UnwrittenKeys ==
    ASSUME IntakesOK, CommandsOK
    PROVE  Unwritten \in SUBSET Keys
  <1>1. ASSUME NEW i \in Intakes, Writing(i)
        PROVE  intake[i].key \in Keys
    BY <1>1 DEF IntakesOK, Writing
  <1>2. ASSUME NEW d \in Commands, Correcting(d)
        PROVE  cmd[d].keys \subseteq Keys
    BY <1>2 DEF CommandsOK, CommandOK, Commanded, Correcting
  <1>3. QED
    BY <1>1, <1>2 DEF Unwritten

\* The steps of a command.
LEMMA TelegramMoves ==
    ASSUME TypeOK, IntakesOK, CommandsOK, NEW c \in Commands, Telegram(c)
    PROVE  /\ UNCHANGED <<batch, wk, tries, intake, reviews>>
           /\ cmd' = [d \in Commands |-> cmd'[d]]
           /\ \A d \in Commands \ {c} : cmd'[d] = cmd[d]
           /\ \/ MatchAll(c) \/ GoOn(c)
              \/ \E e \in Evidence : TakeCand(c, e)
              \/ \E k \in Keys : TakeRow(c, k) \/ CorrectRow(c, k)
  <1> USE DEF CommandOnly
  <1>0. UNCHANGED <<batch, wk, tries, intake, reviews>>
    BY DEF Telegram, Match, Superseded, Correct, Audit, CommandFails, SupersedeCandidate,
           SupersedeCanonical, SupersedeFails
  <1>1. /\ cmd = [d \in Commands |-> cmd[d]]
        /\ cmd[c].pc \in {"idle", "refused"} \/ \E K \in SUBSET Keys : cmd[c] \in Commanded(K)
    BY DEF CommandsOK, CommandOK
  <1>2. CASE Match(c)
    <2>1. PICK kind \in {"forget", "correct"}, v \in Values,
               es \in SUBSET {e \in Evidence : Live(e)}, ks0 \in SUBSET Keys :
             LET ks == MatchedKeys(es, ks0)
                 matched == MatchedCands(es, ks)
                 refused == \/ ks = {} /\ matched = {}
                            \/ kind = "forget" /\ Cardinality(ks) + Cardinality(matched) > MaxMatches
                            \/ kind = "correct" /\ (Cardinality(ks) # 1
                                                    \/ \E k \in ks : canon[k].value = NoValue)
             IN /\ (kind = "forget" => v = CHOOSE x \in Values : TRUE)
                /\ cmd' = [cmd EXCEPT ![c] =
                          IF refused THEN [pc |-> "refused"]
                          ELSE [pc |-> "supersede", kind |-> kind, value |-> v,
                                keys |-> ks, cands |-> matched,
                                todo |-> matched \cup (IF kind = "forget" THEN ks ELSE {}),
                                read |-> [k \in ks |-> Read(k)], threw |-> FALSE]]
                /\ since' = [d \in Commands |->
                               IF cmd[d].pc = "idle" \/ kind = "forget" \/ refused
                               THEN since[d] ELSE since[d] \cup ks]
                /\ crossed' = [crossed EXCEPT ![c] = Unwritten]
      BY <1>2, Zenon DEF Match
    <2>2. PICK K : K = MatchedKeys(es, ks0)
      OBVIOUS
    <2>3. PICK M : M = MatchedCands(es, K)
      OBVIOUS
    <2>4. K \in SUBSET Keys /\ M \in SUBSET Evidence
      BY <2>2, <2>3 DEF MatchedKeys, MatchedCands
    <2>5. PICK T : T = M \cup (IF kind = "forget" THEN K ELSE {})
      OBVIOUS
    <2>6. PICK r : r = [pc |-> "supersede", kind |-> kind, value |-> v, keys |-> K, cands |-> M,
                        todo |-> T, read |-> [k \in K |-> Read(k)], threw |-> FALSE]
      OBVIOUS
    <2>7. PICK n : n = [pc |-> "refused"]
      OBVIOUS
    <2>8. \/ cmd' = [cmd EXCEPT ![c] = n] /\ since' = [d \in Commands |-> since[d]]
          \/ /\ cmd' = [cmd EXCEPT ![c] = r]
             /\ since' = [d \in Commands |-> IF cmd[d].pc = "idle" \/ kind = "forget"
                                             THEN since[d] ELSE since[d] \cup K]
      <3>1. PICK b : b = (\/ K = {} /\ M = {}
                          \/ kind = "forget" /\ Cardinality(K) + Cardinality(M) > MaxMatches
                          \/ kind = "correct" /\ (Cardinality(K) # 1
                                                  \/ \E k \in K : canon[k].value = NoValue))
        OBVIOUS
      <3>2. /\ cmd' = [cmd EXCEPT ![c] = IF b THEN n ELSE r]
            /\ since' = [d \in Commands |-> IF cmd[d].pc = "idle" \/ kind = "forget" \/ b
                                            THEN since[d] ELSE since[d] \cup K]
        BY <2>1, <2>2, <2>3, <2>5, <2>6, <2>7, <3>1
      <3>3. QED
        BY <3>2
    <2>9. /\ cmd' = [d \in Commands |-> cmd'[d]] /\ cmd'[c] \in {n, r}
          /\ \A d \in Commands \ {c} : cmd'[d] = cmd[d]
      BY <1>1, <2>8
    <2>h. \A d \in Commands : since[d] \subseteq since'[d] /\ since'[d] \subseteq since[d] \cup Keys
      BY <2>4, <2>8
    <2>i. /\ crossed' \in [Commands -> SUBSET Keys] /\ crossed'[c] = Unwritten
          /\ \A d \in Commands \ {c} : crossed'[d] = crossed[d]
      <3>1. crossed \in [Commands -> SUBSET Keys]
        BY DEF TypeOK
      <3>2. Unwritten \in SUBSET Keys
        BY UnwrittenKeys
      <3>3. crossed' = [crossed EXCEPT ![c] = Unwritten]
        BY <2>1
      <3>4. QED
        BY <3>1, <3>2, <3>3
    <2>10. [k \in K |-> Read(k)] \in [K -> Metadata]
      BY <2>4, RowTypes
    <2>11. T \in SUBSET (K \cup Evidence) /\ M \subseteq T /\ (kind = "forget" => K \subseteq T)
      BY <2>4, <2>5
    <2>12. /\ r \in Commanded(K) /\ r.pc = "supersede" /\ r.cands \subseteq r.todo
           /\ r.kind = "forget" => r.keys \subseteq r.todo
      BY <2>4, <2>6, <2>10, <2>11 DEF Commanded
    <2>e. \A e \in Evidence : e \in T => cands[e].status # "none"
      <3>1. \A e \in M : cands[e].status # "none"
        BY <2>3 DEF MatchedCands, Live
      <3>2. Evidence \cap Keys = {}
        BY CanonicalAssumption
      <3>3. QED
        BY <2>4, <2>5, <3>1, <3>2
    <2>f. r.todo = T
      BY <2>6
    <2>13. n.pc = "refused"
      BY <2>7
    <2>14. cmd[c].pc = "idle" /\ UNCHANGED <<canon, cands>>
      BY <1>2 DEF Match
    <2>k. cmd'[c].pc = "refused" \/
             /\ cmd'[c] = r
             /\ r.kind = "correct" =>
                   \A d \in Commands : cmd[d].pc # "idle" => r.keys \subseteq since'[d]
      <3>1. r.kind = kind /\ r.keys = K
        BY <2>6
      <3>2. CASE cmd' = [cmd EXCEPT ![c] = n]
        BY <1>1, <2>13, <3>2
      <3>3. CASE /\ cmd' = [cmd EXCEPT ![c] = r]
                 /\ since' = [d \in Commands |-> IF cmd[d].pc = "idle" \/ kind = "forget"
                                                 THEN since[d] ELSE since[d] \cup K]
        <4>1. cmd'[c] = r
          BY <1>1, <3>3
        <4>2. QED
          BY <3>1, <3>3, <4>1
      <3>4. QED
        BY <2>8, <3>2, <3>3
    <2>15. MatchAll(c)
      BY <2>4, <2>12, <2>14, <2>e, <2>f, <2>h, <2>i, <2>k DEF MatchAll
    <2>16. QED
      BY <1>0, <2>9, <2>15
  <1>3. ASSUME cmd[c].pc \in {"supersede", "correct", "audit"}
        PROVE  \E K \in SUBSET Keys : cmd[c] \in Commanded(K)
    BY <1>1, <1>3
  <1>4. CASE Superseded(c)
    <2>1. PICK K \in SUBSET Keys : cmd[c] \in Commanded(K)
      BY <1>3, <1>4 DEF Superseded
    <2>2. PICK p \in {"failed", "audit", "correct"} :
             p = IF cmd[c].threw THEN "failed" ELSE IF cmd[c].kind = "forget" THEN "audit" ELSE "correct"
      OBVIOUS
    <2>3. /\ cmd' = [cmd EXCEPT ![c].pc = p] /\ cmd[c].pc = "supersede" /\ cmd[c].todo = {}
          /\ UNCHANGED <<canon, cands, history>>
      BY <1>4, <2>2 DEF Superseded
    <2>4. /\ cmd' = [d \in Commands |-> cmd'[d]] /\ \A d \in Commands \ {c} : cmd'[d] = cmd[d]
          /\ SameCommand(c) /\ cmd'[c].pc = p
          /\ cmd'[c].todo = cmd[c].todo /\ cmd'[c].threw = cmd[c].threw
      BY <2>1, <2>3, PlaceFrame
    <2>5. cmd[c].kind \in {"forget", "correct"} /\ cmd'[c].kind = cmd[c].kind
      BY <2>1, <2>4 DEF Commanded, SameCommand
    <2>6. GoOn(c)
      BY <2>2, <2>3, <2>4, <2>5 DEF GoOn
    <2>7. QED
      BY <1>0, <2>4, <2>6
  <1>5. CASE Correct(c)
    <2>1. PICK K \in SUBSET Keys : cmd[c] \in Commanded(K)
      BY <1>3, <1>5 DEF Correct
    <2>2. PICK k \in cmd[c].keys :
             canon' = [canon EXCEPT ![k] =
                         [status |-> "approved", count |-> @.count,
                          value |-> cmd[c].value, hashes |-> cmd[c].read[k].hashes]]
      BY <1>5 DEF Correct
    <2>3. cmd[c].keys = K /\ cmd[c].read \in [K -> Metadata] /\ cmd[c].value \in Values
      BY <2>1 DEF Commanded
    <2>4. k \in K /\ k \in Keys
      BY <2>2, <2>3
    <2>5. PICK r : r = [status |-> "approved", count |-> canon[k].count,
                        value |-> cmd[c].value, hashes |-> cmd[c].read[k].hashes]
      OBVIOUS
    <2>6. canon \in [Keys -> Row]
      BY RowTypes
    <2>7. cmd[c].read[k] \in Metadata
      BY <2>3, <2>4
    <2>8. r \in Row /\ r.status = "approved" /\ r.count = canon[k].count
      BY <2>3, <2>4, <2>5, <2>6, <2>7 DEF Row, Metadata, Statuses, Truths
    <2>9. canon' = [canon EXCEPT ![k] = r]
      BY <2>2, <2>4, <2>5, <2>6
    <2>10. RowFrame(k) /\ canon'[k] = r
      BY <2>4, <2>6, <2>8, <2>9 DEF RowFrame
    <2>11. cmd' = [cmd EXCEPT ![c].pc = "audit"] /\ cmd[c].pc = "correct"
           /\ UNCHANGED <<cands, history>>
      BY <1>5 DEF Correct
    <2>12. /\ cmd' = [d \in Commands |-> cmd'[d]] /\ \A d \in Commands \ {c} : cmd'[d] = cmd[d]
           /\ SameCommand(c) /\ cmd'[c].pc = "audit"
           /\ cmd'[c].todo = cmd[c].todo /\ cmd'[c].threw = cmd[c].threw
      <3>1. PICK p \in {"supersede", "correct", "audit", "applied", "failed"} : p = "audit"
        OBVIOUS
      <3>2. cmd' = [cmd EXCEPT ![c].pc = p] /\ p \in {"supersede", "correct", "audit", "applied", "failed"}
        BY <2>11, <3>1
      <3>3. QED
        BY <2>1, <3>1, <3>2, PlaceFrame
    <2>13. CorrectRow(c, k)
      BY <2>2, <2>8, <2>10, <2>11, <2>12 DEF CorrectRow
    <2>14. QED
      BY <1>0, <2>4, <2>12, <2>13
  <1>6. CASE Audit(c) \/ CommandFails(c)
    <2>1. PICK K \in SUBSET Keys : cmd[c] \in Commanded(K)
      BY <1>3, <1>6 DEF Audit, CommandFails
    <2>2. PICK p \in {"applied", "failed"} :
             /\ cmd' = [cmd EXCEPT ![c].pc = p]
             /\ p = "applied" => cmd[c].pc = "audit"
             /\ cmd[c].pc \in {"correct", "audit"}
      BY <1>6 DEF Audit, CommandFails
    <2>3. /\ cmd' = [d \in Commands |-> cmd'[d]] /\ \A d \in Commands \ {c} : cmd'[d] = cmd[d]
          /\ SameCommand(c) /\ cmd'[c].pc = p
          /\ cmd'[c].todo = cmd[c].todo /\ cmd'[c].threw = cmd[c].threw
      BY <2>1, <2>2, PlaceFrame
    <2>4. UNCHANGED <<canon, cands, history>>
      BY <1>6 DEF Audit, CommandFails
    <2>5. GoOn(c)
      BY <2>2, <2>3, <2>4 DEF GoOn
    <2>6. QED
      BY <1>0, <2>3, <2>5
  <1>t. ASSUME NEW x \in Keys \cup Evidence, NEW b \in BOOLEAN, cmd[c].pc = "supersede",
               cmd' = [cmd EXCEPT ![c].todo = cmd[c].todo \ {x}, ![c].threw = b]
        PROVE  /\ cmd' = [d \in Commands |-> cmd'[d]] /\ \A d \in Commands \ {c} : cmd'[d] = cmd[d]
               /\ SameCommand(c) /\ cmd'[c].pc = cmd[c].pc
               /\ cmd'[c].todo = cmd[c].todo \ {x} /\ cmd'[c].threw = b
    <2>1. PICK K \in SUBSET Keys : cmd[c] \in Commanded(K)
      BY <1>3, <1>t
    <2>2. PICK T : T = cmd[c].todo \ {x}
      OBVIOUS
    <2>3. T \in SUBSET (K \cup Evidence)
      BY <2>1, <2>2 DEF Commanded
    <2>4. TodoTo(c, T, b)
      BY <1>t, <2>2 DEF TodoTo
    <2>5. b \in BOOLEAN
      BY <1>t
    <2>6. /\ cmd' = [d \in Commands |-> cmd'[d]] /\ \A d \in Commands \ {c} : cmd'[d] = cmd[d]
          /\ SameCommand(c) /\ cmd'[c].pc = cmd[c].pc
          /\ cmd'[c].todo = T /\ cmd'[c].threw = b
      BY <2>1, <2>3, <2>4, <2>5, TodoFrame
    <2>7. QED
      BY <2>2, <2>6
  <1>u. ASSUME NEW x \in Keys \cup Evidence, cmd[c].pc = "supersede", Taken(c, x)
        PROVE  /\ cmd' = [d \in Commands |-> cmd'[d]] /\ \A d \in Commands \ {c} : cmd'[d] = cmd[d]
               /\ SameCommand(c) /\ cmd'[c].pc = cmd[c].pc
               /\ cmd'[c].todo = cmd[c].todo \ {x} /\ cmd'[c].threw = cmd[c].threw
    <2>1. PICK K \in SUBSET Keys : cmd[c] \in Commanded(K)
      BY <1>3, <1>u
    <2>2. PICK b \in BOOLEAN : b = cmd[c].threw
      BY <2>1 DEF Commanded
    <2>3. [cmd[c] EXCEPT !.todo = cmd[c].todo \ {x}] = [cmd[c] EXCEPT !.todo = cmd[c].todo \ {x}, !.threw = b]
      BY <2>1, <2>2 DEF Commanded
    <2>4. cmd' = [cmd EXCEPT ![c] = [cmd[c] EXCEPT !.todo = cmd[c].todo \ {x}]]
      BY <1>1, <1>u DEF Taken
    <2>5. cmd' = [cmd EXCEPT ![c].todo = cmd[c].todo \ {x}, ![c].threw = b]
      BY <1>1, <2>3, <2>4
    <2>6. QED
      BY <1>t, <1>u, <2>2, <2>5
  <1>7. ASSUME NEW e \in Evidence, SupersedeCandidate(c, e)
        PROVE  /\ cmd' = [d \in Commands |-> cmd'[d]] /\ \A d \in Commands \ {c} : cmd'[d] = cmd[d]
               /\ TakeCand(c, e)
    <2>1. cands \in [Evidence -> [status : Statuses, link : Keys]]
      BY DEF TypeOK
    <2>2. PICK r : r = [cands[e] EXCEPT !.status = "superseded"]
      OBVIOUS
    <2>3. r \in [status : Statuses, link : Keys] /\ r.status = "superseded" /\ r.link = cands[e].link
      BY <2>1, <2>2 DEF Statuses
    <2>4. cands' = [cands EXCEPT ![e] = r]
      BY <1>7, <2>1, <2>2 DEF SupersedeCandidate
    <2>5. CandFrame(e) /\ cands'[e] = r
      BY <2>1, <2>3, <2>4 DEF CandFrame
    <2>6. cmd[c].pc = "supersede" /\ e \in cmd[c].todo /\ Taken(c, e) /\ UNCHANGED <<canon, history>>
      BY <1>7 DEF SupersedeCandidate
    <2>7. QED
      BY <1>u, <2>3, <2>5, <2>6 DEF TakeCand
  <1>8. ASSUME NEW k \in Keys, SupersedeCanonical(c, k)
        PROVE  /\ cmd' = [d \in Commands |-> cmd'[d]] /\ \A d \in Commands \ {c} : cmd'[d] = cmd[d]
               /\ TakeRow(c, k)
    <2>1. cmd[c].pc = "supersede" /\ k \in cmd[c].todo /\ Taken(c, k) /\ UNCHANGED <<cands, history>>
      BY <1>8 DEF SupersedeCanonical
    <2>2. PICK K \in SUBSET Keys : cmd[c] \in Commanded(K)
      BY <1>3, <2>1
    <2>3. k \in K /\ cmd[c].read \in [K -> Metadata]
      BY <2>1, <2>2, CanonicalAssumption DEF Commanded
    <2>4. canon \in [Keys -> Row] /\ cmd[c].read[k] \in Metadata
      BY <2>3, RowTypes
    <2>5. PICK r : r = [status |-> "superseded", count |-> canon[k].count,
                        value |-> cmd[c].read[k].value, hashes |-> cmd[c].read[k].hashes]
      OBVIOUS
    <2>6. r \in Row /\ r.status = "superseded" /\ r.count = canon[k].count
      BY <2>4, <2>5 DEF Row, Metadata, Statuses
    <2>7. canon' = [canon EXCEPT ![k] = r]
      BY <1>8, <2>4, <2>5 DEF SupersedeCanonical
    <2>8. RowFrame(k) /\ canon'[k] = r
      BY <2>4, <2>6, <2>7 DEF RowFrame
    <2>9. QED
      BY <1>u, <2>1, <2>6, <2>8 DEF TakeRow
  <1>9. ASSUME NEW x \in Keys \cup Evidence, SupersedeFails(c, x)
        PROVE  /\ cmd' = [d \in Commands |-> cmd'[d]] /\ \A d \in Commands \ {c} : cmd'[d] = cmd[d]
               /\ GoOn(c)
    <2>1. /\ cmd[c].pc = "supersede" /\ UNCHANGED <<canon, cands, history>>
          /\ cmd' = [cmd EXCEPT ![c].todo = @ \ {x}, ![c].threw = TRUE]
      BY <1>9 DEF SupersedeFails
    <2>2. cmd' = [cmd EXCEPT ![c].todo = cmd[c].todo \ {x}, ![c].threw = TRUE]
      BY <1>1, <2>1
    <2>3. PICK b \in BOOLEAN : b = TRUE
      OBVIOUS
    <2>4. cmd' = [cmd EXCEPT ![c].todo = cmd[c].todo \ {x}, ![c].threw = b]
      BY <2>2, <2>3
    <2>5. QED
      BY <1>t, <2>1, <2>3, <2>4 DEF GoOn
  <1>10. QED
    BY <1>0, <1>2, <1>4, <1>5, <1>6, <1>7, <1>8, <1>9 DEF Telegram

\* A review.
LEMMA ReviewMoves ==
    ASSUME TypeOK, Review
    PROVE  /\ UNCHANGED <<canon, batch, wk, tries, intake, cmd, mishaps>>
           /\ \E e \in Evidence :
                 /\ CandFrame(e) /\ Spoke({e}) /\ cands'[e].link = cands[e].link
                 /\ cands[e].status # "none" /\ cands'[e].status # "none"
  <1>1. PICK e \in Evidence, s \in ReviewStatus :
           /\ cands[e].status # "none" /\ cands' = [cands EXCEPT ![e].status = s] /\ Spoken({e})
    BY DEF Review
  <1>2. cands \in [Evidence -> [status : Statuses, link : Keys]]
    BY DEF TypeOK
  <1>3. PICK r : r = [cands[e] EXCEPT !.status = s]
    OBVIOUS
  <1>4. s \in Statuses /\ s # "none"
    BY DEF ReviewStatus, Statuses
  <1>5. r \in [status : Statuses, link : Keys] /\ r.status = s /\ r.link = cands[e].link
    BY <1>2, <1>3, <1>4
  <1>6. cands' = [cands EXCEPT ![e] = r]
    BY <1>1, <1>2, <1>3
  <1>7. CandFrame(e) /\ cands'[e] = r
    BY <1>2, <1>5, <1>6 DEF CandFrame
  <1>8. Spoke({e})
    BY <1>1 DEF Spoken, Spoke
  <1>9. QED
    BY <1>1, <1>4, <1>5, <1>7, <1>8 DEF Review

-----------------------------------------------------------------------------
(* Each part of the invariant over a step *)

\* A row or a candidate that is there stays.
LEMMA RowsStay ==
    ASSUME TypeOK, JobsOK, IntakesOK, CommandsOK, [Next]_vars
    PROVE  /\ canon' \in [Keys -> Row]
           /\ \A k \in Keys : canon'[k].status # "none" \/ (~Exists(k) /\ canon'[k] = canon[k])
  <1>0. canon \in [Keys -> Row]
    BY RowTypes
  <1>s. ASSUME canon' = canon
        PROVE  /\ canon' \in [Keys -> Row]
               /\ \A k \in Keys : canon'[k].status # "none" \/ (~Exists(k) /\ canon'[k] = canon[k])
    BY <1>0, <1>s DEF Exists
  <1>r. ASSUME NEW k \in Keys, RowFrame(k), canon'[k].status # "none"
        PROVE  /\ canon' \in [Keys -> Row]
               /\ \A l \in Keys : canon'[l].status # "none" \/ (~Exists(l) /\ canon'[l] = canon[l])
    BY <1>r DEF RowFrame, Exists
  <1>1. ASSUME NEW w \in Workers, Extraction(w)
        PROVE  /\ canon' \in [Keys -> Row]
               /\ \A k \in Keys : canon'[k].status # "none" \/ (~Exists(k) /\ canon'[k] = canon[k])
    <2>1. CountIn(w) \/ Insert(w) \/ canon' = canon
      BY <1>1, ExtractionMoves DEF Link, Quiet
    <2>2. wk[w].key \in Keys
      BY DEF JobsOK, Job
    <2>3. CASE CountIn(w)
      <3>1. wk[w].pc = "update" /\ RowFrame(wk[w].key) /\ canon'[wk[w].key].status = canon[wk[w].key].status
        BY <2>3 DEF CountIn
      <3>2. canon'[wk[w].key].status # "none"
        BY <3>1 DEF JobsOK, Exists
      <3>3. QED
        BY <1>r, <2>2, <3>1, <3>2
    <2>4. CASE Insert(w)
      BY <1>r, <2>2, <2>4 DEF Insert
    <2>5. QED
      BY <1>s, <2>1, <2>3, <2>4
  <1>2. ASSUME NEW i \in Intakes, Chat(i)
        PROVE  /\ canon' \in [Keys -> Row]
               /\ \A k \in Keys : canon'[k].status # "none" \/ (~Exists(k) /\ canon'[k] = canon[k])
    <2>1. canon' = canon \/ \E k \in Keys : StoreFact(i, k)
      BY <1>2, ChatMoves DEF StateFact, ReadFact, LoseFact
    <2>2. QED
      BY <1>r, <1>s, <2>1 DEF StoreFact
  <1>3. ASSUME NEW c \in Commands, Telegram(c)
        PROVE  /\ canon' \in [Keys -> Row]
               /\ \A k \in Keys : canon'[k].status # "none" \/ (~Exists(k) /\ canon'[k] = canon[k])
    <2>1. \/ canon' = canon
          \/ \E k \in Keys : RowFrame(k) /\ canon'[k].status \in {"superseded", "approved"}
      BY <1>3, TelegramMoves DEF MatchAll, GoOn, TakeCand, TakeRow, CorrectRow
    <2>2. QED
      BY <1>r, <1>s, <2>1
  <1>4. CASE Review
    BY <1>s, <1>4 DEF Review
  <1>5. CASE UNCHANGED vars
    BY <1>s, <1>5 DEF vars
  <1>6. QED
    BY <1>1, <1>2, <1>3, <1>4, <1>5 DEF Next

\* A candidate that is there stays.
LEMMA CandsStay ==
    ASSUME TypeOK, JobsOK, IntakesOK, CommandsOK, [Next]_vars
    PROVE  /\ cands' \in [Evidence -> [status : Statuses, link : Keys]]
           /\ \A e \in Evidence : cands[e].status # "none" => cands'[e].status # "none"
  <1>0. cands \in [Evidence -> [status : Statuses, link : Keys]]
    BY DEF TypeOK
  <1>s. cands' = cands => /\ cands' \in [Evidence -> [status : Statuses, link : Keys]]
                          /\ \A e \in Evidence : cands[e].status # "none" => cands'[e].status # "none"
    BY <1>0
  <1>r. ASSUME NEW e \in Evidence, CandFrame(e), cands[e].status # "none" => cands'[e].status # "none"
        PROVE  /\ cands' \in [Evidence -> [status : Statuses, link : Keys]]
               /\ \A d \in Evidence : cands[d].status # "none" => cands'[d].status # "none"
    BY <1>r DEF CandFrame
  <1>1. ASSUME NEW w \in Workers, Extraction(w)
        PROVE  /\ cands' \in [Evidence -> [status : Statuses, link : Keys]]
               /\ \A e \in Evidence : cands[e].status # "none" => cands'[e].status # "none"
    <2>1. Link(w) \/ cands' = cands
      BY <1>1, ExtractionMoves DEF CountIn, Insert, Quiet
    <2>2. QED
      BY <1>r, <1>s, <2>1 DEF Link
  <1>2. ASSUME NEW i \in Intakes, Chat(i)
        PROVE  cands' = cands
    BY <1>2, ChatMoves
  <1>3. ASSUME NEW c \in Commands, Telegram(c)
        PROVE  /\ cands' \in [Evidence -> [status : Statuses, link : Keys]]
               /\ \A e \in Evidence : cands[e].status # "none" => cands'[e].status # "none"
    <2>1. \/ cands' = cands
          \/ \E e \in Evidence : CandFrame(e) /\ cands'[e].status = "superseded"
      BY <1>3, TelegramMoves DEF MatchAll, GoOn, TakeCand, TakeRow, CorrectRow
    <2>2. QED
      BY <1>r, <1>s, <2>1
  <1>4. CASE Review
    BY <1>r, <1>4, ReviewMoves
  <1>5. CASE UNCHANGED vars
    BY <1>s, <1>5 DEF vars
  <1>6. QED
    BY <1>s, <1>1, <1>2, <1>3, <1>4, <1>5 DEF Next

\* The jobs.
LEMMA JobsStep ==
    ASSUME TypeOK, JobsOK, IntakesOK, CommandsOK, [Next]_vars
    PROVE  JobsOK'
  <1>1. \A k \in Keys : Exists(k) => Exists(k)'
    BY RowsStay DEF Exists
  <1>2. ASSUME UNCHANGED <<batch, wk, tries>>
        PROVE  JobsOK'
    <2>1. \A w \in Workers : wk[w].key \in Keys
      BY DEF JobsOK, Job
    <2>2. QED
      BY <1>1, <1>2, <2>1 DEF JobsOK
  <1>3. ASSUME NEW w \in Workers, Extraction(w)
        PROVE  JobsOK'
    <2>1. JobFrame(w) /\ JobTo(w) /\ batch' = batch
      BY <1>3, ExtractionMoves
    <2>2. wk' \in [Workers -> Job] /\ tries' \in [Workers -> 0..MaxTries] /\ batch' \in [Workers -> Seq(Evidence)]
      BY <2>1 DEF JobFrame, JobsOK
    <2>3. \A v \in Workers : wk'[v].key \in Keys
      BY <2>2 DEF Job
    <2>4. ASSUME NEW v \in Workers
          PROVE  /\ wk'[v].pc \notin {"done", "failed", "queued"} => wk'[v].at \in 1..Len(batch'[v])
                 /\ wk'[v].pc = "queued" => wk'[v].at = 1
                 /\ wk'[v].pc \notin {"done", "failed"} => tries'[v] > 0
                 /\ wk'[v].pc \in {"reread", "update"} => Exists(wk'[v].key)
      <3>1. CASE v = w
        BY <2>1, <3>1 DEF JobTo
      <3>2. CASE v # w
        BY <2>1, <3>2 DEF JobFrame, JobsOK
      <3>3. QED
        BY <3>1, <3>2
    <2>5. \A v \in Workers : wk'[v].pc \in {"reread", "update"} => canon'[wk'[v].key].status # "none"
      BY <1>1, <2>3, <2>4 DEF Exists
    <2>6. QED
      BY <2>2, <2>4, <2>5 DEF JobsOK, Exists
  <1>4. ASSUME NEW i \in Intakes, Chat(i)
        PROVE  UNCHANGED <<batch, wk, tries>>
    BY <1>4, ChatMoves
  <1>5. ASSUME NEW c \in Commands, Telegram(c)
        PROVE  UNCHANGED <<batch, wk, tries>>
    BY <1>5, TelegramMoves
  <1>6. CASE Review
    BY <1>2, <1>6, ReviewMoves
  <1>7. CASE UNCHANGED vars
    BY <1>2, <1>7 DEF vars
  <1>8. QED
    BY <1>2, <1>3, <1>4, <1>5, <1>6, <1>7 DEF Next

\* The intakes.
LEMMA IntakesStep ==
    ASSUME TypeOK, JobsOK, IntakesOK, CommandsOK, [Next]_vars
    PROVE  IntakesOK'
  <1>1. ASSUME intake' = intake
        PROVE  IntakesOK'
    BY <1>1 DEF IntakesOK
  <1>2. ASSUME NEW i \in Intakes, Chat(i)
        PROVE  IntakesOK'
    <2>1. /\ intake' = [j \in Intakes |-> intake'[j]]
          /\ \A j \in Intakes \ {i} : intake'[j] = intake[j]
          /\ intake'[i] \in Stating \/ intake'[i] \in Updating \/ intake'[i] \in Ended
      BY <1>2, ChatMoves DEF StateFact, ReadFact, LoseFact, StoreFact
    <2>2. QED
      BY <2>1 DEF IntakesOK, Stating, Updating, Ended
  <1>3. ASSUME NEW w \in Workers, Extraction(w)
        PROVE  intake' = intake
    BY <1>3, ExtractionMoves
  <1>4. ASSUME NEW c \in Commands, Telegram(c)
        PROVE  intake' = intake
    BY <1>4, TelegramMoves
  <1>5. CASE Review
    BY <1>1, <1>5, ReviewMoves
  <1>6. CASE UNCHANGED vars
    BY <1>1, <1>6 DEF vars
  <1>7. QED
    BY <1>1, <1>2, <1>3, <1>4, <1>5, <1>6 DEF Next

\* Where a command stands.
PlaceOK(c) ==
    /\ CommandOK(cmd[c])
    /\ cmd[c].pc = "correct" => cmd[c].kind = "correct"
    /\ cmd[c].pc \in {"correct", "audit", "applied"} => cmd[c].todo = {} /\ ~cmd[c].threw
    /\ cmd[c].pc = "supersede" =>
          \A e \in Evidence : e \in cmd[c].todo => cands[e].status # "none"

\* The commands.
LEMMA CommandsStep ==
    ASSUME TypeOK, JobsOK, IntakesOK, CommandsOK, [Next]_vars
    PROVE  CommandsOK'
  <1>0. /\ \A e \in Evidence : cands[e].status # "none" => cands'[e].status # "none"
        /\ \A c \in Commands : PlaceOK(c)
    BY CandsStay DEF CommandsOK, PlaceOK
  <1>1. ASSUME NEW c \in Commands, cmd'[c] = cmd[c]
        PROVE  PlaceOK(c)'
    BY <1>0, <1>1 DEF PlaceOK, CommandOK, Commanded
  <1>2. ASSUME NEW c \in Commands, Telegram(c)
        PROVE  CommandsOK'
    <2>1. /\ cmd' = [d \in Commands |-> cmd'[d]]
          /\ \A d \in Commands \ {c} : cmd'[d] = cmd[d]
          /\ \/ MatchAll(c) \/ GoOn(c)
             \/ \E e \in Evidence : TakeCand(c, e)
             \/ \E k \in Keys : TakeRow(c, k) \/ CorrectRow(c, k)
      BY <1>2, TelegramMoves
    <2>2. CASE MatchAll(c)
      <3>1. CommandOK(cmd'[c]) /\ cmd'[c].pc \in {"refused", "supersede"}
        BY <2>2 DEF MatchAll, CommandOK
      <3>2. cmd'[c].pc = "supersede" => \A e \in Evidence : e \in cmd'[c].todo => cands'[e].status # "none"
        BY <1>0, <2>2 DEF MatchAll
      <3>3. PlaceOK(c)'
        BY <3>1, <3>2 DEF PlaceOK, CommandOK, Commanded
      <3>4. QED
        BY <1>1, <2>1, <3>3 DEF CommandsOK, PlaceOK
    <2>3. ASSUME SameCommand(c), cmd'[c].todo \subseteq cmd[c].todo,
                 cmd'[c].pc = "supersede" => cmd[c].pc = "supersede",
                 cmd'[c].pc \in {"correct", "audit", "applied"} => cmd'[c].todo = {} /\ ~cmd'[c].threw,
                 cmd'[c].pc = "correct" => cmd'[c].kind = "correct"
          PROVE  CommandsOK'
      <3>1. CommandOK(cmd'[c])
        BY <2>3 DEF SameCommand, CommandOK
      <3>2. cmd'[c].pc = "supersede" => \A e \in Evidence : e \in cmd'[c].todo => cands'[e].status # "none"
        BY <1>0, <2>3 DEF PlaceOK
      <3>3. PlaceOK(c)'
        BY <2>3, <3>1, <3>2 DEF PlaceOK, CommandOK, Commanded
      <3>4. QED
        BY <1>1, <2>1, <3>3 DEF CommandsOK, PlaceOK
    <2>4. CASE GoOn(c)
      BY <1>0, <2>3, <2>4 DEF GoOn, PlaceOK
    <2>5. ASSUME NEW e \in Evidence, TakeCand(c, e)
          PROVE  CommandsOK'
      BY <2>3, <2>5 DEF TakeCand
    <2>6. ASSUME NEW k \in Keys, TakeRow(c, k)
          PROVE  CommandsOK'
      BY <2>3, <2>6 DEF TakeRow
    <2>7. ASSUME NEW k \in Keys, CorrectRow(c, k)
          PROVE  CommandsOK'
      BY <1>0, <2>3, <2>7 DEF CorrectRow, PlaceOK
    <2>8. QED
      BY <2>1, <2>2, <2>4, <2>5, <2>6, <2>7
  <1>3. ASSUME cmd' = cmd
        PROVE  CommandsOK'
    BY <1>1, <1>3 DEF CommandsOK, PlaceOK
  <1>4. ASSUME NEW w \in Workers, Extraction(w)
        PROVE  cmd' = cmd
    BY <1>4, ExtractionMoves
  <1>5. ASSUME NEW i \in Intakes, Chat(i)
        PROVE  cmd' = cmd
    BY <1>5, ChatMoves
  <1>6. CASE Review
    BY <1>3, <1>6, ReviewMoves
  <1>7. CASE UNCHANGED vars
    BY <1>3, <1>7 DEF vars
  <1>8. QED
    BY <1>2, <1>3, <1>4, <1>5, <1>6, <1>7 DEF Next

\* The types.
LEMMA TypeStep ==
    ASSUME TypeOK, JobsOK, IntakesOK, CommandsOK, [Next]_vars
    PROVE  TypeOK'
  <1>1. canon' \in [Keys -> Row] /\ \A k \in Keys : canon'[k].status = "none" => canon'[k] = Blank
    BY RowsStay DEF TypeOK
  <1>2. cands' \in [Evidence -> [status : Statuses, link : Keys]]
    BY CandsStay
  <1>3. \A w \in Workers : wk'[w].key \in Keys /\ wk'[w].read \in Metadata /\ tries'[w] \in 0..MaxTries
    <2>1. wk' \in [Workers -> Job] /\ tries' \in [Workers -> 0..MaxTries]
      BY JobsStep DEF JobsOK
    <2>2. QED
      BY <2>1 DEF Job
  <1>4. \A c \in Commands : since'[c] \subseteq Keys \cup Evidence
    <2>0. \A c \in Commands : since[c] \subseteq Keys \cup Evidence
      BY DEF TypeOK
    <2>1. ASSUME NEW w \in Workers, Extraction(w)
          PROVE  since' = since
      BY <2>1, ExtractionMoves DEF history
    <2>2. ASSUME NEW i \in Intakes, Chat(i)
          PROVE  \A c \in Commands : since'[c] \subseteq Keys \cup Evidence
      <3>1. since' = since \/ \E k \in Keys : \A c \in Commands : since'[c] \subseteq since[c] \cup {k}
        BY <2>2, ChatMoves DEF StateFact, ReadFact, LoseFact, StoreFact, Spoke, history
      <3>2. QED
        BY <2>0, <3>1
    <2>3. ASSUME NEW d \in Commands, Telegram(d)
          PROVE  \A c \in Commands : since'[c] \subseteq Keys \cup Evidence
      <3>1. since' = since \/ \A c \in Commands : since'[c] \subseteq since[c] \cup Keys
        BY <2>3, TelegramMoves DEF MatchAll, GoOn, TakeCand, TakeRow, CorrectRow, history
      <3>2. QED
        BY <2>0, <3>1
    <2>4. CASE Review
      <3>1. \E e \in Evidence : \A c \in Commands : since'[c] \subseteq since[c] \cup {e}
        BY <2>4, ReviewMoves DEF Spoke
      <3>2. QED
        BY <2>0, <3>1
    <2>5. CASE UNCHANGED vars
      BY <2>0, <2>5 DEF vars, history
    <2>6. QED
      BY <2>0, <2>1, <2>2, <2>3, <2>4, <2>5 DEF Next
  <1>c. crossed' \in [Commands -> SUBSET Keys]
    <2>0. crossed \in [Commands -> SUBSET Keys]
      BY DEF TypeOK
    <2>1. ASSUME NEW w \in Workers, Extraction(w)
          PROVE  crossed' = crossed
      BY <2>1, ExtractionMoves DEF history
    <2>2. ASSUME NEW i \in Intakes, Chat(i)
          PROVE  crossed' = crossed
      BY <2>2, ChatMoves DEF StateFact, ReadFact, LoseFact, StoreFact, Spoke, history
    <2>3. ASSUME NEW d \in Commands, Telegram(d)
          PROVE  crossed' = crossed \/ crossed' \in [Commands -> SUBSET Keys]
      BY <2>3, TelegramMoves DEF MatchAll, GoOn, TakeCand, TakeRow, CorrectRow, history
    <2>4. CASE Review
      BY <2>0, <2>4, ReviewMoves DEF Spoke
    <2>5. CASE UNCHANGED vars
      BY <2>0, <2>5 DEF vars, history
    <2>6. QED
      BY <2>0, <2>1, <2>2, <2>3, <2>4, <2>5 DEF Next
  <1>5. QED
    BY <1>1, <1>2, <1>3, <1>4, <1>c DEF TypeOK, Exists, Row

-----------------------------------------------------------------------------
(* What is counted *)

\* A set with at most one element more than a finite one.
LEMMA AtMostOneMore ==
    ASSUME NEW S, IsFiniteSet(S), NEW x, NEW T, T \subseteq S \cup {x}
    PROVE  IsFiniteSet(T) /\ Cardinality(T) \in Nat /\ Cardinality(T) <= Cardinality(S) + 1
  <1>1. /\ IsFiniteSet(S \cup {x}) /\ Cardinality(S) \in Nat
        /\ Cardinality(S \cup {x}) = IF x \in S THEN Cardinality(S) ELSE Cardinality(S) + 1
    BY FS_AddElement, FS_CardinalityType
  <1>2. IsFiniteSet(T) /\ Cardinality(T) <= Cardinality(S \cup {x})
    BY <1>1, FS_Subset
  <1>3. Cardinality(T) \in Nat
    BY <1>2, FS_CardinalityType
  <1>4. QED
    BY <1>1, <1>2, <1>3

\* ... a subset of a finite set.
LEMMA AtMost ==
    ASSUME NEW S, IsFiniteSet(S), NEW T, T \subseteq S
    PROVE  IsFiniteSet(T) /\ Cardinality(T) \in Nat /\ Cardinality(T) <= Cardinality(S)
  <1>1. IsFiniteSet(T) /\ Cardinality(T) <= Cardinality(S)
    BY FS_Subset
  <1>2. QED
    BY <1>1, FS_CardinalityType

\* ... and a subset that lacks an element of it.
LEMMA AtMostOneLess ==
    ASSUME NEW S, IsFiniteSet(S), NEW x \in S, NEW T, T \subseteq S \ {x}
    PROVE  IsFiniteSet(T) /\ Cardinality(T) \in Nat /\ Cardinality(T) + 1 <= Cardinality(S)
  <1>1. /\ IsFiniteSet(S \ {x}) /\ Cardinality(S) \in Nat
        /\ Cardinality(S \ {x}) = Cardinality(S) - 1
    BY FS_RemoveElement, FS_CardinalityType
  <1>2. IsFiniteSet(T) /\ Cardinality(T) <= Cardinality(S \ {x})
    BY <1>1, FS_Subset
  <1>3. Cardinality(T) \in Nat
    BY <1>2, FS_CardinalityType
  <1>4. QED
    BY <1>1, <1>2, <1>3

\* A row whose count keeps up with the three sets.
LEMMA KeepsUp ==
    ASSUME TypeOK, NEW k \in Keys, Counted(k),
           /\ Supporters(k)' \subseteq Supporters(k) /\ Facts(k)' \subseteq Facts(k)
           /\ Pending(k)' \subseteq Pending(k),
           canon'[k].count = canon[k].count
    PROVE  Counted(k)'
  <1>1. /\ IsFiniteSet(Supporters(k)) /\ IsFiniteSet(Facts(k)) /\ IsFiniteSet(Pending(k))
        /\ canon[k].count >= Cardinality(Supporters(k)) + Cardinality(Facts(k)) + Cardinality(Pending(k))
        /\ canon[k].count \in Nat
    BY DEF Counted, TypeOK
  <1>2. /\ Cardinality(Supporters(k)) \in Nat /\ Cardinality(Facts(k)) \in Nat
        /\ Cardinality(Pending(k)) \in Nat
    BY <1>1, FS_CardinalityType
  <1>3. /\ IsFiniteSet(Supporters(k)') /\ Cardinality(Supporters(k)') \in Nat
        /\ Cardinality(Supporters(k)') <= Cardinality(Supporters(k))
    BY <1>1, AtMost
  <1>4. /\ IsFiniteSet(Facts(k)') /\ Cardinality(Facts(k)') \in Nat
        /\ Cardinality(Facts(k)') <= Cardinality(Facts(k))
    BY <1>1, AtMost
  <1>5. /\ IsFiniteSet(Pending(k)') /\ Cardinality(Pending(k)') \in Nat
        /\ Cardinality(Pending(k)') <= Cardinality(Pending(k))
    BY <1>1, AtMost
  <1>6. canon'[k].count >= Cardinality(Supporters(k)') + Cardinality(Facts(k)') + Cardinality(Pending(k)')
    BY <1>1, <1>2, <1>3, <1>4, <1>5
  <1>7. QED
    BY <1>3, <1>4, <1>5, <1>6 DEF Counted

\* A row that is not there counts nothing, and nothing rests on it.
LEMMA NothingYet ==
    ASSUME TypeOK, NEW k \in Keys, Counted(k), ~Exists(k)
    PROVE  Supporters(k) = {} /\ Facts(k) = {} /\ Pending(k) = {}
  <1>1. canon[k].count = 0
    BY DEF TypeOK, Blank
  <1>2. /\ IsFiniteSet(Supporters(k)) /\ IsFiniteSet(Facts(k)) /\ IsFiniteSet(Pending(k))
        /\ 0 >= Cardinality(Supporters(k)) + Cardinality(Facts(k)) + Cardinality(Pending(k))
    BY <1>1 DEF Counted
  <1>3. /\ Cardinality(Supporters(k)) \in Nat /\ Cardinality(Facts(k)) \in Nat
        /\ Cardinality(Pending(k)) \in Nat
    BY <1>2, FS_CardinalityType
  <1>4. /\ Cardinality(Supporters(k)) = 0 /\ Cardinality(Facts(k)) = 0
        /\ Cardinality(Pending(k)) = 0
    BY <1>2, <1>3
  <1>5. QED
    BY <1>2, <1>4, FS_EmptySet

\* The count of a row when one element joins one of its sets: it is one more, or it
\* is 1 and the row is new.
OneMore(k) ==
    \/ canon'[k].count = canon[k].count + 1
    \/ ~Exists(k) /\ canon'[k].count = 1

\* A fact that is stored is counted.
LEMMA CountsFact ==
    ASSUME TypeOK, NEW k \in Keys, Counted(k), NEW i,
           /\ Supporters(k)' \subseteq Supporters(k) /\ Facts(k)' \subseteq Facts(k) \cup {i}
           /\ Pending(k)' \subseteq Pending(k),
           OneMore(k)
    PROVE  Counted(k)'
  <1>1. /\ IsFiniteSet(Supporters(k)) /\ IsFiniteSet(Facts(k)) /\ IsFiniteSet(Pending(k))
        /\ canon[k].count >= Cardinality(Supporters(k)) + Cardinality(Facts(k)) + Cardinality(Pending(k))
        /\ canon[k].count \in Nat
    BY DEF Counted, TypeOK
  <1>2. /\ Cardinality(Supporters(k)) \in Nat /\ Cardinality(Facts(k)) \in Nat
        /\ Cardinality(Pending(k)) \in Nat
    BY <1>1, FS_CardinalityType
  <1>3. /\ IsFiniteSet(Supporters(k)') /\ Cardinality(Supporters(k)') \in Nat
        /\ Cardinality(Supporters(k)') <= Cardinality(Supporters(k))
    BY <1>1, AtMost
  <1>4. /\ IsFiniteSet(Facts(k)') /\ Cardinality(Facts(k)') \in Nat
        /\ Cardinality(Facts(k)') <= Cardinality(Facts(k)) + 1
    BY <1>1, AtMostOneMore
  <1>5. /\ IsFiniteSet(Pending(k)') /\ Cardinality(Pending(k)') \in Nat
        /\ Cardinality(Pending(k)') <= Cardinality(Pending(k))
    BY <1>1, AtMost
  <1>6. canon'[k].count >= canon[k].count + 1
    <2>1. ~Exists(k) => canon[k].count = 0
      BY DEF TypeOK, Blank
    <2>2. QED
      BY <1>1, <2>1 DEF OneMore
  <1>7. canon'[k].count \in Nat
    BY <1>1 DEF OneMore
  <1>8. canon'[k].count >= Cardinality(Supporters(k)') + Cardinality(Facts(k)') + Cardinality(Pending(k)')
    BY <1>1, <1>2, <1>3, <1>4, <1>5, <1>6, <1>7
  <1>9. QED
    BY <1>3, <1>4, <1>5, <1>8 DEF Counted

\* A job that goes on to its candidate has counted it.
LEMMA CountsPending ==
    ASSUME TypeOK, NEW k \in Keys, Counted(k), NEW w,
           /\ Supporters(k)' \subseteq Supporters(k) /\ Facts(k)' \subseteq Facts(k)
           /\ Pending(k)' \subseteq Pending(k) \cup {w},
           OneMore(k)
    PROVE  Counted(k)'
  <1>1. /\ IsFiniteSet(Supporters(k)) /\ IsFiniteSet(Facts(k)) /\ IsFiniteSet(Pending(k))
        /\ canon[k].count >= Cardinality(Supporters(k)) + Cardinality(Facts(k)) + Cardinality(Pending(k))
        /\ canon[k].count \in Nat
    BY DEF Counted, TypeOK
  <1>2. /\ Cardinality(Supporters(k)) \in Nat /\ Cardinality(Facts(k)) \in Nat
        /\ Cardinality(Pending(k)) \in Nat
    BY <1>1, FS_CardinalityType
  <1>3. /\ IsFiniteSet(Supporters(k)') /\ Cardinality(Supporters(k)') \in Nat
        /\ Cardinality(Supporters(k)') <= Cardinality(Supporters(k))
    BY <1>1, AtMost
  <1>4. /\ IsFiniteSet(Facts(k)') /\ Cardinality(Facts(k)') \in Nat
        /\ Cardinality(Facts(k)') <= Cardinality(Facts(k))
    BY <1>1, AtMost
  <1>5. /\ IsFiniteSet(Pending(k)') /\ Cardinality(Pending(k)') \in Nat
        /\ Cardinality(Pending(k)') <= Cardinality(Pending(k)) + 1
    BY <1>1, AtMostOneMore
  <1>6. canon'[k].count >= canon[k].count + 1
    <2>1. ~Exists(k) => canon[k].count = 0
      BY DEF TypeOK, Blank
    <2>2. QED
      BY <1>1, <2>1 DEF OneMore
  <1>7. canon'[k].count \in Nat
    BY <1>1 DEF OneMore
  <1>8. canon'[k].count >= Cardinality(Supporters(k)') + Cardinality(Facts(k)') + Cardinality(Pending(k)')
    BY <1>1, <1>2, <1>3, <1>4, <1>5, <1>6, <1>7
  <1>9. QED
    BY <1>3, <1>4, <1>5, <1>8 DEF Counted

\* A job that was pending writes its candidate.
LEMMA PendingSupports ==
    ASSUME TypeOK, NEW k \in Keys, Counted(k), NEW w \in Pending(k), NEW e,
           /\ Supporters(k)' \subseteq Supporters(k) \cup {e} /\ Facts(k)' \subseteq Facts(k)
           /\ Pending(k)' \subseteq Pending(k) \ {w},
           canon'[k].count = canon[k].count
    PROVE  Counted(k)'
  <1>1. /\ IsFiniteSet(Supporters(k)) /\ IsFiniteSet(Facts(k)) /\ IsFiniteSet(Pending(k))
        /\ canon[k].count >= Cardinality(Supporters(k)) + Cardinality(Facts(k)) + Cardinality(Pending(k))
        /\ canon[k].count \in Nat
    BY DEF Counted, TypeOK
  <1>2. /\ Cardinality(Supporters(k)) \in Nat /\ Cardinality(Facts(k)) \in Nat
        /\ Cardinality(Pending(k)) \in Nat
    BY <1>1, FS_CardinalityType
  <1>3. /\ IsFiniteSet(Supporters(k)') /\ Cardinality(Supporters(k)') \in Nat
        /\ Cardinality(Supporters(k)') <= Cardinality(Supporters(k)) + 1
    BY <1>1, AtMostOneMore
  <1>4. /\ IsFiniteSet(Facts(k)') /\ Cardinality(Facts(k)') \in Nat
        /\ Cardinality(Facts(k)') <= Cardinality(Facts(k))
    BY <1>1, AtMost
  <1>5. /\ IsFiniteSet(Pending(k)') /\ Cardinality(Pending(k)') \in Nat
        /\ Cardinality(Pending(k)') + 1 <= Cardinality(Pending(k))
    BY <1>1, AtMostOneLess
  <1>6. canon'[k].count >= Cardinality(Supporters(k)') + Cardinality(Facts(k)') + Cardinality(Pending(k)')
    BY <1>1, <1>2, <1>3, <1>4, <1>5
  <1>7. QED
    BY <1>3, <1>4, <1>5, <1>6 DEF Counted

\* The count of a row stays at or above what rests on it.
LEMMA CountedStep ==
    ASSUME TypeOK, JobsOK, IntakesOK, CommandsOK, \A k \in Keys : Counted(k), [Next]_vars,
           NEW k \in Keys
    PROVE  Counted(k)'
  <1>0. Counted(k)
    OBVIOUS
  <1>w. \A w \in Workers : wk[w].key \in Keys
    BY DEF JobsOK, Job
  <1>p. PendingPcs = {"candidate", "create", "revise"}
    BY DEF PendingPcs
  <1>1. ASSUME NEW w \in Workers, Extraction(w)
        PROVE  Counted(k)'
    <2>1. /\ \A v \in Workers \ {w} : wk'[v] = wk[v]
          /\ intake' = intake
          /\ CountIn(w) \/ Insert(w) \/ Link(w) \/ Quiet(w)
      BY <1>1, ExtractionMoves DEF JobFrame
    <2>2. Facts(k)' = Facts(k)
      BY <2>1 DEF Facts
    <2>3. cands' = cands => Supporters(k)' = Supporters(k)
      BY DEF Supporters
    <2>4. CASE CountIn(w) \/ Insert(w)
      <3>1. /\ wk[w].pc \notin PendingPcs /\ wk'[w].key = wk[w].key /\ cands' = cands
            /\ RowFrame(wk[w].key) /\ OneMore(wk[w].key)
        BY <1>p, <2>4 DEF CountIn, Insert, OneMore
      <3>2. CASE k = wk[w].key
        <4>1. Pending(k)' \subseteq Pending(k) \cup {w}
          BY <2>1, <3>1 DEF Pending
        <4>2. QED
          BY <1>0, <2>2, <2>3, <3>1, <3>2, <4>1, CountsPending
      <3>3. CASE k # wk[w].key
        <4>1. Pending(k)' \subseteq Pending(k)
          BY <2>1, <3>1, <3>3 DEF Pending
        <4>2. canon'[k] = canon[k]
          BY <3>1, <3>3 DEF RowFrame
        <4>3. QED
          BY <1>0, <2>2, <2>3, <3>1, <4>1, <4>2, KeepsUp
      <3>4. QED
        BY <3>2, <3>3
    <2>5. CASE Link(w)
      <3>1. PICK e \in Evidence : CandFrame(e) /\ cands'[e].link = wk[w].key
        BY <2>5 DEF Link
      <3>2. wk[w].pc \in PendingPcs /\ wk'[w].pc \notin PendingPcs /\ canon' = canon
        BY <1>p, <2>5 DEF Link
      <3>3. CASE k = wk[w].key
        <4>1. w \in Pending(k) /\ Pending(k)' \subseteq Pending(k) \ {w}
          BY <2>1, <3>2, <3>3 DEF Pending
        <4>2. Supporters(k)' \subseteq Supporters(k) \cup {e}
          BY <3>1 DEF Supporters, CandFrame
        <4>3. QED
          BY <1>0, <2>2, <3>2, <4>1, <4>2, PendingSupports
      <3>4. CASE k # wk[w].key
        <4>1. Pending(k)' \subseteq Pending(k)
          BY <2>1, <3>2 DEF Pending
        <4>2. Supporters(k)' \subseteq Supporters(k)
          BY <3>1, <3>4 DEF Supporters, CandFrame
        <4>3. QED
          BY <1>0, <2>2, <3>2, <4>1, <4>2, KeepsUp
      <3>5. QED
        BY <3>3, <3>4
    <2>6. CASE Quiet(w)
      <3>1. canon' = canon /\ cands' = cands /\ Pending(k)' \subseteq Pending(k)
        BY <2>1, <2>6 DEF Quiet, Pending
      <3>2. QED
        BY <1>0, <2>2, <2>3, <3>1, KeepsUp
    <2>7. QED
      BY <2>1, <2>4, <2>5, <2>6
  <1>2. ASSUME NEW i \in Intakes, Chat(i)
        PROVE  Counted(k)'
    <2>1. /\ UNCHANGED <<cands, wk>>
          /\ \A j \in Intakes \ {i} : intake'[j] = intake[j]
          /\ intake[i].pc # "stored"
          /\ \/ \E l \in Keys : StoreFact(i, l)
             \/ canon' = canon /\ intake'[i].pc # "stored"
      BY <1>2, ChatMoves DEF StateFact, ReadFact, LoseFact, StoreFact, Stating, Updating
    <2>2. Supporters(k)' = Supporters(k) /\ Pending(k)' = Pending(k)
      BY <2>1 DEF Supporters, Pending
    <2>4. ASSUME NEW l \in Keys, StoreFact(i, l)
          PROVE  Counted(k)'
      <3>1. intake'[i].key = l /\ RowFrame(l) /\ OneMore(l)
        BY <2>4 DEF StoreFact, OneMore
      <3>2. CASE k = l
        <4>1. Facts(k)' \subseteq Facts(k) \cup {i}
          BY <2>1 DEF Facts
        <4>2. QED
          BY <1>0, <2>2, <3>1, <3>2, <4>1, CountsFact
      <3>3. CASE k # l
        <4>1. Facts(k)' \subseteq Facts(k)
          BY <2>1, <3>1, <3>3 DEF Facts
        <4>2. canon'[k] = canon[k]
          BY <3>1, <3>3 DEF RowFrame
        <4>3. QED
          BY <1>0, <2>2, <4>1, <4>2, KeepsUp
      <3>4. QED
        BY <3>2, <3>3
    <2>5. ASSUME canon' = canon, intake'[i].pc # "stored"
          PROVE  Counted(k)'
      <3>1. Facts(k)' \subseteq Facts(k)
        BY <2>1, <2>5 DEF Facts
      <3>2. QED
        BY <1>0, <2>2, <2>5, <3>1, KeepsUp
    <2>6. QED
      BY <2>1, <2>4, <2>5
  <1>3. ASSUME NEW c \in Commands, Telegram(c)
        PROVE  Counted(k)'
    <2>1. /\ UNCHANGED <<wk, intake>>
          /\ \/ MatchAll(c) \/ GoOn(c)
             \/ \E e \in Evidence : TakeCand(c, e)
             \/ \E l \in Keys : TakeRow(c, l) \/ CorrectRow(c, l)
      BY <1>3, TelegramMoves
    <2>2. Facts(k)' = Facts(k) /\ Pending(k)' = Pending(k)
      BY <2>1 DEF Facts, Pending
    <2>3. cands' = cands => Supporters(k)' = Supporters(k)
      BY DEF Supporters
    <2>4. CASE MatchAll(c) \/ GoOn(c)
      BY <1>0, <2>2, <2>3, <2>4, KeepsUp DEF MatchAll, GoOn
    <2>5. ASSUME NEW e \in Evidence, TakeCand(c, e)
          PROVE  Counted(k)'
      <3>1. /\ cands[e].status # "none" /\ cands'[e].link = cands[e].link /\ canon' = canon
            /\ \A d \in Evidence \ {e} : cands'[d] = cands[d]
        BY <2>5 DEF TakeCand, CommandsOK, CandFrame
      <3>2. Supporters(k)' \subseteq Supporters(k)
        BY <3>1 DEF Supporters
      <3>3. QED
        BY <1>0, <2>2, <3>1, <3>2, KeepsUp
    <2>6. ASSUME NEW l \in Keys, TakeRow(c, l) \/ CorrectRow(c, l)
          PROVE  Counted(k)'
      <3>1. cands' = cands /\ canon'[k].count = canon[k].count
        BY <2>6 DEF TakeRow, CorrectRow, RowFrame
      <3>2. QED
        BY <1>0, <2>2, <2>3, <3>1, KeepsUp
    <2>7. QED
      BY <2>1, <2>4, <2>5, <2>6
  <1>4. CASE Review
    <2>1. PICK e \in Evidence :
             /\ CandFrame(e) /\ cands'[e].link = cands[e].link
             /\ cands[e].status # "none" /\ cands'[e].status # "none"
      BY <1>4, ReviewMoves
    <2>2. UNCHANGED <<canon, wk, intake>>
      BY <1>4, ReviewMoves
    <2>3. Facts(k)' = Facts(k) /\ Pending(k)' = Pending(k)
      BY <2>2 DEF Facts, Pending
    <2>4. Supporters(k)' \subseteq Supporters(k)
      BY <2>1 DEF Supporters, CandFrame
    <2>5. QED
      BY <1>0, <2>2, <2>3, <2>4, KeepsUp
  <1>5. CASE UNCHANGED vars
    <2>1. UNCHANGED <<canon, cands, wk, intake>>
      BY <1>5 DEF vars
    <2>2. Facts(k)' = Facts(k) /\ Pending(k)' = Pending(k) /\ Supporters(k)' = Supporters(k)
      BY <2>1 DEF Facts, Pending, Supporters
    <2>3. QED
      BY <1>0, <2>1, <2>2, KeepsUp
  <1>6. QED
    BY <1>1, <1>2, <1>3, <1>4, <1>5 DEF Next

-----------------------------------------------------------------------------
(* What is forgotten, and what is served *)

\* What a command excuses stays excused, and what the user speaks of is added to it.
LEMMA HistoryGrows ==
    ASSUME TypeOK, JobsOK, IntakesOK, CommandsOK, [Next]_vars, NEW c \in Commands,
           cmd[c].pc # "idle"
    PROVE  since[c] \subseteq since'[c] /\ crossed[c] \subseteq crossed'[c]
  <1>1. ASSUME NEW w \in Workers, Extraction(w)
        PROVE  UNCHANGED history
    BY <1>1, ExtractionMoves
  <1>2. ASSUME NEW i \in Intakes, Chat(i)
        PROVE  UNCHANGED history \/ \E k \in Keys : Spoke({k})
    BY <1>2, ChatMoves DEF StateFact, ReadFact, LoseFact, StoreFact
  <1>3. ASSUME NEW d \in Commands, Telegram(d)
        PROVE  since[c] \subseteq since'[c] /\ crossed[c] \subseteq crossed'[c]
    <2>1. UNCHANGED history \/ MatchAll(d)
      BY <1>3, TelegramMoves DEF GoOn, TakeCand, TakeRow, CorrectRow
    <2>2. QED
      BY <2>1 DEF MatchAll, history
  <1>4. CASE Review
    BY <1>4, ReviewMoves DEF Spoke
  <1>5. CASE UNCHANGED vars
    BY <1>5 DEF vars, history
  <1>6. QED
    BY <1>1, <1>2, <1>3, <1>4, <1>5 DEF Next, Spoke, history

\* Every command goes on excusing what is still to be written for the user.
LEMMA AwareStep ==
    ASSUME TypeOK, JobsOK, IntakesOK, CommandsOK, \A d \in Commands : Aware(d), [Next]_vars,
           NEW c \in Commands
    PROVE  Aware(c)'
  <1>1. ASSUME cmd' = cmd,
               \A i \in Intakes : Writing(i)' =>
                  \/ Writing(i) /\ intake'[i].key = intake[i].key
                  \/ cmd[c].pc # "idle" => intake'[i].key \in since'[c]
        PROVE  Aware(c)'
    BY <1>1, HistoryGrows DEF Aware, Correcting, Excused
  <1>2. ASSUME NEW w \in Workers, Extraction(w)
        PROVE  Aware(c)'
    BY <1>1, <1>2, ExtractionMoves DEF Writing
  <1>3. ASSUME NEW i \in Intakes, Chat(i)
        PROVE  Aware(c)'
    <2>1. cmd' = cmd /\ \A j \in Intakes \ {i} : intake'[j] = intake[j]
      BY <1>3, ChatMoves
    <2>2. CASE \E k \in Keys : StateFact(i, k)
      <3>1. cmd[c].pc # "idle" => intake'[i].key \in since'[c]
        BY <2>2 DEF StateFact, Spoke
      <3>2. QED
        BY <1>1, <2>1, <3>1 DEF Writing
    <2>3. CASE ReadFact(i)
      <3>1. Writing(i) /\ intake'[i].key = intake[i].key
        BY <2>3 DEF ReadFact, Stating, Writing
      <3>2. QED
        BY <1>1, <2>1, <3>1 DEF Writing
    <2>4. CASE LoseFact(i) \/ \E k \in Keys : StoreFact(i, k)
      <3>1. ~Writing(i)'
        BY <2>4 DEF LoseFact, StoreFact, Writing
      <3>2. QED
        BY <1>1, <2>1, <3>1 DEF Writing
    <2>5. QED
      BY <1>3, <2>2, <2>3, <2>4, ChatMoves
  <1>4. ASSUME NEW d \in Commands, Telegram(d)
        PROVE  Aware(c)'
    <2>1. /\ \A x \in Commands \ {d} : cmd'[x] = cmd[x]
          /\ intake' = intake
      BY <1>4, TelegramMoves
    <2>2. CASE MatchAll(d)
      <3>1. CASE c = d
        <4>1. \A i \in Intakes : Writing(i) => intake[i].key \in Unwritten
          BY DEF Unwritten
        <4>2. \A x \in Commands : Correcting(x) => cmd[x].keys \subseteq Unwritten
          BY DEF Unwritten
        <4>3. crossed'[c] = Unwritten
          BY <2>2, <3>1 DEF MatchAll
        <4>4. QED
          BY <2>1, <3>1, <4>1, <4>2, <4>3 DEF Aware, Writing, Correcting, Excused
      <3>2. CASE c # d
        <4>1. cmd'[c] = cmd[c]
          BY <2>1, <3>2
        <4>2. Correcting(d)' /\ cmd[c].pc # "idle" => cmd'[d].keys \subseteq since'[c]
          BY <2>2 DEF MatchAll, Correcting
        <4>3. cmd[c].pc # "idle" => Excused(c) \subseteq Excused(c)'
          BY HistoryGrows DEF Excused
        <4>4. QED
          BY <2>1, <4>1, <4>2, <4>3 DEF Aware, Writing, Correcting, Excused
      <3>3. QED
        BY <3>1, <3>2
    <2>3. ASSUME SameCommand(d), UNCHANGED history, Correcting(d)' => Correcting(d)
          PROVE  Aware(c)'
      <3>1. cmd'[d].keys = cmd[d].keys /\ cmd[d].pc \notin {"idle", "refused"}
        BY <2>3 DEF SameCommand, Commanded
      <3>2. Excused(c)' = Excused(c)
        BY <2>3 DEF Excused, history
      <3>3. \A x \in Commands : Correcting(x)' => Correcting(x) /\ cmd'[x].keys = cmd[x].keys
        BY <2>1, <2>3, <3>1 DEF Correcting
      <3>4. cmd'[c].pc \notin {"idle", "refused"} => cmd[c].pc \notin {"idle", "refused"}
        BY <2>1, <3>1
      <3>5. \A i \in Intakes : Writing(i)' = Writing(i) /\ intake'[i].key = intake[i].key
        BY <2>1 DEF Writing
      <3>6. Aware(c)
        OBVIOUS
      <3>7. QED
        BY <3>2, <3>3, <3>4, <3>5, <3>6 DEF Aware
    <2>4. CASE GoOn(d)
      BY <2>3, <2>4 DEF GoOn, SameCommand, Correcting
    <2>5. ASSUME NEW e \in Evidence, TakeCand(d, e)
          PROVE  Aware(c)'
      BY <2>3, <2>5 DEF TakeCand, SameCommand, Correcting, history
    <2>6. ASSUME NEW k \in Keys, TakeRow(d, k) \/ CorrectRow(d, k)
          PROVE  Aware(c)'
      BY <2>3, <2>6 DEF TakeRow, CorrectRow, SameCommand, Correcting, history
    <2>7. QED
      BY <1>4, <2>2, <2>4, <2>5, <2>6, TelegramMoves
  <1>5. CASE Review
    BY <1>1, <1>5, ReviewMoves DEF Writing
  <1>6. CASE UNCHANGED vars
    BY <1>1, <1>6 DEF vars, Writing
  <1>7. QED
    BY <1>2, <1>3, <1>4, <1>5, <1>6 DEF Next

\* The rows and candidates a step may take out of "superseded" are excused.
LEMMA SupersededStays ==
    ASSUME TypeOK, JobsOK, IntakesOK, CommandsOK, [Next]_vars, NEW c \in Commands, Aware(c),
           cmd'[c] = cmd[c], cmd[c].pc \notin {"idle", "refused"}, cmd[c].kind = "forget"
    PROVE  /\ \A k \in Keys \ Excused(c) : canon[k].status = "superseded"
                  => canon'[k].status = "superseded"
           /\ \A e \in Evidence \ Instructions : cands[e].status = "superseded" /\ e \notin since'[c]
                  => cands'[e].status = "superseded"
  <1>1. ASSUME NEW w \in Workers, Extraction(w)
        PROVE  /\ \A k \in Keys : canon[k].status = "superseded" => canon'[k].status = "superseded"
               /\ \A e \in Evidence \ Instructions : cands[e].status = "superseded"
                      => cands'[e].status = "superseded"
    <2>1. CountIn(w) \/ Insert(w) \/ Link(w) \/ Quiet(w)
      BY <1>1, ExtractionMoves
    <2>2. CASE CountIn(w)
      BY <2>2 DEF CountIn, RowFrame
    <2>3. CASE Insert(w)
      <3>1. canon[wk[w].key].status # "superseded" /\ RowFrame(wk[w].key) /\ cands' = cands
        BY <2>3 DEF Insert, Exists
      <3>2. QED
        BY <3>1 DEF RowFrame
    <2>4. CASE Link(w)
      <3>1. PICK e \in Evidence :
               /\ CandFrame(e)
               /\ e \notin Instructions => cands'[e].status = cands[e].status \/ cands[e].status = "none"
        BY <2>4 DEF Link
      <3>2. canon' = canon
        BY <2>4 DEF Link
      <3>3. QED
        BY <3>1, <3>2 DEF CandFrame
    <2>5. CASE Quiet(w)
      BY <2>5 DEF Quiet
    <2>6. QED
      BY <2>1, <2>2, <2>3, <2>4, <2>5
  <1>2. ASSUME NEW i \in Intakes, Chat(i)
        PROVE  /\ cands' = cands
               /\ \A k \in Keys \ Excused(c) : canon'[k] = canon[k]
    <2>1. cands' = cands /\ ((\E k \in Keys : StoreFact(i, k)) \/ canon' = canon)
      BY <1>2, ChatMoves DEF StateFact, ReadFact, LoseFact
    <2>2. ASSUME NEW l \in Keys, StoreFact(i, l)
          PROVE  l \in Excused(c) /\ \A k \in Keys \ {l} : canon'[k] = canon[k]
      <3>1. Writing(i) /\ intake[i].key = l
        BY <2>2 DEF StoreFact, Updating, Writing
      <3>2. QED
        BY <2>2, <3>1 DEF Aware, StoreFact, RowFrame
    <2>3. QED
      BY <2>1, <2>2
  <1>3. ASSUME NEW d \in Commands, Telegram(d)
        PROVE  /\ \A k \in Keys \ Excused(c) : canon[k].status = "superseded"
                      => canon'[k].status = "superseded"
               /\ \A e \in Evidence : cands[e].status = "superseded" => cands'[e].status = "superseded"
    <2>1. \/ MatchAll(d) \/ GoOn(d)
          \/ \E e \in Evidence : TakeCand(d, e)
          \/ \E l \in Keys : TakeRow(d, l) \/ CorrectRow(d, l)
      BY <1>3, TelegramMoves
    <2>2. CASE MatchAll(d) \/ GoOn(d)
      BY <2>2 DEF MatchAll, GoOn
    <2>3. ASSUME NEW g \in Evidence, TakeCand(d, g)
          PROVE  /\ canon' = canon
                 /\ \A e \in Evidence : cands[e].status = "superseded" => cands'[e].status = "superseded"
      BY <2>3 DEF TakeCand, CandFrame
    <2>4. ASSUME NEW l \in Keys, TakeRow(d, l)
          PROVE  /\ cands' = cands
                 /\ \A k \in Keys : canon[k].status = "superseded" => canon'[k].status = "superseded"
      BY <2>4 DEF TakeRow, RowFrame
    <2>5. ASSUME NEW l \in Keys, CorrectRow(d, l)
          PROVE  /\ cands' = cands
                 /\ \A k \in Keys \ Excused(c) : canon[k].status = "superseded"
                        => canon'[k].status = "superseded"
      <3>1. cmd[d].pc = "correct" /\ l \in cmd[d].keys
        BY <2>5 DEF CorrectRow
      <3>2. cmd[d].kind = "correct"
        BY <3>1 DEF CommandsOK
      <3>3. l \in Excused(c)
        BY <3>1, <3>2 DEF Aware, Correcting
      <3>4. QED
        BY <2>5, <3>3 DEF CorrectRow, RowFrame
    <2>6. QED
      BY <2>1, <2>2, <2>3, <2>4, <2>5
  <1>4. CASE Review
    <2>1. canon' = canon
      BY <1>4, ReviewMoves
    <2>2. PICK e \in Evidence : CandFrame(e) /\ Spoke({e})
      BY <1>4, ReviewMoves
    <2>3. since'[c] = since[c] \cup {e} /\ \A d \in Evidence \ {e} : cands'[d] = cands[d]
      BY <2>2 DEF Spoke, CandFrame
    <2>4. QED
      BY <2>1, <2>3
  <1>5. CASE UNCHANGED vars
    BY <1>5 DEF vars
  <1>6. QED
    BY <1>1, <1>2, <1>3, <1>4, <1>5 DEF Next

\* What a forgetting has gone through stays superseded.
LEMMA ForgottenStep ==
    ASSUME TypeOK, JobsOK, IntakesOK, CommandsOK, \A d \in Commands : Aware(d) /\ Forgotten(d),
           [Next]_vars, NEW c \in Commands
    PROVE  Forgotten(c)'
  <1>0. Forgotten(c) /\ PlaceOK(c)
    BY DEF CommandsOK, PlaceOK
  <1>s. ASSUME cmd'[c] = cmd[c]
        PROVE  Forgotten(c)'
    <2>1. SUFFICES ASSUME cmd[c].pc \in {"supersede", "audit", "applied"}, cmd[c].kind = "forget", ~cmd[c].threw
                   PROVE  /\ \A k \in cmd[c].keys \ (cmd[c].todo \cup Excused(c)') :
                                canon'[k].status = "superseded"
                          /\ \A e \in cmd[c].cands \ (cmd[c].todo \cup since'[c] \cup Instructions) :
                                cands'[e].status = "superseded"
      BY <1>s DEF Forgotten
    <2>2. cmd[c].keys \subseteq Keys /\ cmd[c].cands \subseteq Evidence
      BY <1>0, <2>1 DEF PlaceOK, CommandOK, Commanded
    <2>3. /\ \A k \in Keys \ Excused(c) : canon[k].status = "superseded"
                 => canon'[k].status = "superseded"
          /\ \A e \in Evidence \ Instructions : cands[e].status = "superseded" /\ e \notin since'[c]
                 => cands'[e].status = "superseded"
      BY <1>s, <2>1, SupersededStays
    <2>h. since[c] \subseteq since'[c] /\ Excused(c) \subseteq Excused(c)'
      BY <2>1, HistoryGrows DEF Excused
    <2>4. /\ \A k \in cmd[c].keys \ (cmd[c].todo \cup Excused(c)) : canon[k].status = "superseded"
          /\ \A e \in cmd[c].cands \ (cmd[c].todo \cup since[c] \cup Instructions) :
                cands[e].status = "superseded"
      BY <1>0, <2>1 DEF Forgotten
    <2>5. QED
      BY <2>2, <2>3, <2>4, <2>h
  <1>1. ASSUME Telegram(c)
        PROVE  Forgotten(c)'
    <2>0. Evidence \cap Keys = {}
      BY CanonicalAssumption
    <2>1. \/ MatchAll(c) \/ GoOn(c)
          \/ \E e \in Evidence : TakeCand(c, e)
          \/ \E l \in Keys : TakeRow(c, l) \/ CorrectRow(c, l)
      BY <1>1, TelegramMoves
    <2>2. CASE MatchAll(c)
      BY <2>2 DEF MatchAll, Forgotten
    <2>3. CASE GoOn(c)
      BY <1>0, <2>3 DEF GoOn, SameCommand, Forgotten, Excused, history
    <2>4. ASSUME SameCommand(c), cmd[c].pc = "supersede"
          PROVE  /\ cmd[c].keys \subseteq Keys /\ cmd[c].cands \subseteq Evidence
                 /\ cmd'[c].kind = cmd[c].kind /\ cmd'[c].keys = cmd[c].keys /\ cmd'[c].cands = cmd[c].cands
      BY <2>4 DEF SameCommand, Commanded
    <2>5. ASSUME NEW g \in Evidence, TakeCand(c, g)
          PROVE  Forgotten(c)'
      <3>1. /\ cmd[c].keys \subseteq Keys /\ cmd[c].cands \subseteq Evidence
            /\ cmd'[c].kind = cmd[c].kind /\ cmd'[c].keys = cmd[c].keys /\ cmd'[c].cands = cmd[c].cands
        BY <2>4, <2>5 DEF TakeCand
      <3>2. /\ cmd[c].pc = "supersede" /\ cmd'[c].todo = cmd[c].todo \ {g} /\ cmd'[c].threw = cmd[c].threw
            /\ canon' = canon /\ since' = since /\ Excused(c)' = Excused(c) /\ cands'[g].status = "superseded"
            /\ \A e \in Evidence \ {g} : cands'[e] = cands[e]
        BY <2>5 DEF TakeCand, CandFrame, Excused, history
      <3>3. g \notin Keys
        BY <2>0
      <3>4. QED
        BY <1>0, <3>1, <3>2, <3>3 DEF Forgotten
    <2>6. ASSUME NEW l \in Keys, TakeRow(c, l)
          PROVE  Forgotten(c)'
      <3>1. /\ cmd[c].keys \subseteq Keys /\ cmd[c].cands \subseteq Evidence
            /\ cmd'[c].kind = cmd[c].kind /\ cmd'[c].keys = cmd[c].keys /\ cmd'[c].cands = cmd[c].cands
        BY <2>4, <2>6 DEF TakeRow
      <3>2. /\ cmd[c].pc = "supersede" /\ cmd'[c].todo = cmd[c].todo \ {l} /\ cmd'[c].threw = cmd[c].threw
            /\ cands' = cands /\ since' = since /\ Excused(c)' = Excused(c) /\ canon'[l].status = "superseded"
            /\ \A k \in Keys \ {l} : canon'[k] = canon[k]
        BY <2>6 DEF TakeRow, RowFrame, Excused, history
      <3>3. l \notin Evidence
        BY <2>0
      <3>4. QED
        BY <1>0, <3>1, <3>2, <3>3 DEF Forgotten
    <2>7. ASSUME NEW l \in Keys, CorrectRow(c, l)
          PROVE  Forgotten(c)'
      <3>1. cmd'[c].kind = "correct"
        BY <1>0, <2>7 DEF CorrectRow, SameCommand, PlaceOK
      <3>2. QED
        BY <3>1 DEF Forgotten
    <2>8. QED
      BY <2>1, <2>2, <2>3, <2>5, <2>6, <2>7
  <1>2. ASSUME NEW d \in Commands \ {c}, Telegram(d)
        PROVE  cmd'[c] = cmd[c]
    BY <1>2, TelegramMoves
  <1>3. ASSUME NEW w \in Workers, Extraction(w)
        PROVE  cmd' = cmd
    BY <1>3, ExtractionMoves
  <1>4. ASSUME NEW i \in Intakes, Chat(i)
        PROVE  cmd' = cmd
    BY <1>4, ChatMoves
  <1>5. CASE Review
    BY <1>s, <1>5, ReviewMoves
  <1>6. CASE UNCHANGED vars
    BY <1>s, <1>6 DEF vars
  <1>7. QED
    BY <1>s, <1>1, <1>2, <1>3, <1>4, <1>5, <1>6 DEF Next

\* What the user has said stays said.
LEMMA SaidStays ==
    ASSUME TypeOK, JobsOK, IntakesOK, CommandsOK, [Next]_vars, NEW k \in Keys, Said(k)
    PROVE  Said(k)'
  <1>1. CASE \E i \in Intakes : intake[i].pc = "stored" /\ intake[i].key = k
    <2>1. PICK i \in Intakes : intake[i].pc = "stored" /\ intake[i].key = k
      BY <1>1
    <2>2. ASSUME NEW j \in Intakes, Chat(j)
          PROVE  intake'[i] = intake[i]
      <3>1. i # j
        BY <2>1, <2>2, ChatMoves DEF StateFact, ReadFact, LoseFact, StoreFact, Stating, Updating
      <3>2. QED
        BY <2>2, <3>1, ChatMoves
    <2>3. ASSUME NEW w \in Workers, Extraction(w)
          PROVE  intake' = intake
      BY <2>3, ExtractionMoves
    <2>4. ASSUME NEW c \in Commands, Telegram(c)
          PROVE  intake' = intake
      BY <2>4, TelegramMoves
    <2>5. intake'[i] = intake[i]
      BY <2>2, <2>3, <2>4, ReviewMoves DEF Next, vars
    <2>6. QED
      BY <2>1, <2>5 DEF Said
  <1>2. CASE \E c \in Commands : cmd[c].pc \in {"audit", "applied", "failed"}
                                 /\ cmd[c].kind = "correct" /\ k \in cmd[c].keys
    <2>1. PICK c \in Commands : /\ cmd[c].pc \in {"audit", "applied", "failed"}
                                /\ cmd[c].kind = "correct" /\ k \in cmd[c].keys
      BY <1>2
    <2>2. ASSUME NEW d \in Commands, Telegram(d)
          PROVE  /\ cmd'[c].pc \in {"audit", "applied", "failed"}
                 /\ cmd'[c].kind = "correct" /\ k \in cmd'[c].keys
      <3>1. CASE d # c
        BY <2>1, <2>2, <3>1, TelegramMoves
      <3>2. CASE d = c
        <4>1. /\ ~MatchAll(c) /\ (\A e \in Evidence : ~TakeCand(c, e))
              /\ (\A l \in Keys : ~TakeRow(c, l) /\ ~CorrectRow(c, l))
          BY <2>1 DEF MatchAll, TakeCand, TakeRow, CorrectRow
        <4>2. GoOn(c)
          BY <2>2, <3>2, <4>1, TelegramMoves
        <4>3. QED
          BY <2>1, <4>2 DEF GoOn, SameCommand
      <3>3. QED
        BY <3>1, <3>2
    <2>3. ASSUME NEW w \in Workers, Extraction(w)
          PROVE  cmd' = cmd
      BY <2>3, ExtractionMoves
    <2>4. ASSUME NEW i \in Intakes, Chat(i)
          PROVE  cmd' = cmd
      BY <2>4, ChatMoves
    <2>5. /\ cmd'[c].pc \in {"audit", "applied", "failed"}
          /\ cmd'[c].kind = "correct" /\ k \in cmd'[c].keys
      BY <2>1, <2>2, <2>3, <2>4, ReviewMoves DEF Next, vars
    <2>6. QED
      BY <2>5 DEF Said
  <1>3. QED
    BY <1>1, <1>2 DEF Said

\* A row is approved only by what the user says.
LEMMA SaidStep ==
    ASSUME TypeOK, JobsOK, IntakesOK, CommandsOK, [Next]_vars, NEW k \in Keys,
           canon[k].status = "approved" => Said(k),
           canon'[k].status = "approved"
    PROVE  Said(k)'
  <1>1. CASE canon[k].status = "approved"
    BY <1>1, SaidStays
  <1>2. CASE canon[k].status # "approved"
    <2>1. ASSUME NEW w \in Workers, Extraction(w)
          PROVE  FALSE
      <3>1. CountIn(w) \/ Insert(w) \/ canon' = canon
        BY <2>1, ExtractionMoves DEF Link, Quiet
      <3>2. wk[w].key \in Keys
        BY DEF JobsOK, Job
      <3>3. QED
        BY <1>2, <3>1, <3>2 DEF CountIn, Insert, RowFrame
    <2>2. ASSUME NEW i \in Intakes, Chat(i)
          PROVE  Said(k)'
      <3>1. PICK l \in Keys : StoreFact(i, l)
        BY <1>2, <2>2, ChatMoves DEF StateFact, ReadFact, LoseFact
      <3>2. k = l
        BY <1>2, <3>1 DEF StoreFact, RowFrame
      <3>3. intake'[i].pc = "stored" /\ intake'[i].key = k
        BY <3>1, <3>2 DEF StoreFact
      <3>4. QED
        BY <3>3 DEF Said
    <2>3. ASSUME NEW c \in Commands, Telegram(c)
          PROVE  Said(k)'
      <3>1. PICK l \in Keys : CorrectRow(c, l)
        <4>1. \/ canon' = canon
              \/ \E l \in Keys : CorrectRow(c, l)
              \/ \E l \in Keys : RowFrame(l) /\ canon'[l].status = "superseded"
          BY <2>3, TelegramMoves DEF MatchAll, GoOn, TakeCand, TakeRow
        <4>2. QED
          BY <1>2, <4>1 DEF RowFrame
      <3>2. k = l
        BY <1>2, <3>1 DEF CorrectRow, RowFrame
      <3>3. cmd'[c].pc = "audit" /\ cmd'[c].kind = "correct" /\ k \in cmd'[c].keys
        BY <3>1, <3>2 DEF CorrectRow, SameCommand, CommandsOK
      <3>4. QED
        BY <3>3 DEF Said
    <2>4. canon' # canon
      BY <1>2
    <2>5. QED
      BY <2>1, <2>2, <2>3, <2>4, ReviewMoves DEF Next, vars
  <1>3. QED
    BY <1>1, <1>2

-----------------------------------------------------------------------------
(* The theorems *)

\* The invariant holds at the start.
LEMMA InitHolds ==
    Init => IInv
  <1> SUFFICES ASSUME Init
               PROVE  IInv
    OBVIOUS
  <1>0. KeyOf \in [Evidence -> Keys] /\ (CHOOSE e \in Evidence : TRUE) \in Evidence
    BY CanonicalAssumption
  <1>1. PICK k0 \in Keys : k0 = KeyOf[CHOOSE e \in Evidence : TRUE]
    BY <1>0
  <1>2. wk = [w \in Workers |-> [pc |-> "queued", at |-> 1, key |-> k0, read |-> NoMetadata]]
    BY <1>1 DEF Init
  <1>3. NoMetadata \in Metadata /\ Blank \in Row
    BY DEF NoMetadata, Metadata, Truths, Blank, Row, Statuses
  <1>4. /\ canon = [k \in Keys |-> Blank]
        /\ cands = [e \in Evidence |-> [status |-> "none", link |-> KeyOf[e]]]
        /\ tries = [w \in Workers |-> MaxTries] /\ batch \in Batches
        /\ intake = [i \in Intakes |-> [pc |-> "idle"]]
        /\ cmd = [c \in Commands |-> [pc |-> "idle"]]
        /\ since = [c \in Commands |-> {}] /\ crossed = [c \in Commands |-> {}]
    BY DEF Init
  <1>5. MaxTries \in Nat \ {0} /\ batch \in [Workers -> Seq(Evidence)]
    BY <1>4, CanonicalAssumption
  <1>6. JobsOK
    <2>1. wk \in [Workers -> Job]
      BY <1>2, <1>3 DEF Job, JobPcs
    <2>2. tries \in [Workers -> 0..MaxTries] /\ \A w \in Workers : tries[w] > 0
      BY <1>4, <1>5
    <2>3. \A w \in Workers : wk[w].pc = "queued" /\ wk[w].at = 1
      BY <1>2
    <2>4. QED
      BY <1>5, <2>1, <2>2, <2>3 DEF JobsOK
  <1>7. IntakesOK
    BY <1>4 DEF IntakesOK
  <1>8. CommandsOK
    BY <1>4 DEF CommandsOK, CommandOK
  <1>9. TypeOK
    <2>1. canon \in [Keys -> Row] /\ \A k \in Keys : canon[k] = Blank
      BY <1>3, <1>4
    <2>2. cands \in [Evidence -> [status : Statuses, link : Keys]]
      BY <1>0, <1>4 DEF Statuses
    <2>3. \A w \in Workers : wk[w].key \in Keys /\ wk[w].read \in Metadata /\ tries[w] \in 0..MaxTries
      BY <1>6 DEF JobsOK, Job
    <2>4. QED
      BY <1>4, <2>1, <2>2, <2>3 DEF TypeOK, Row
  <1>10. ASSUME NEW k \in Keys
         PROVE  Counted(k)
    <2>1. Supporters(k) = {} /\ Facts(k) = {} /\ Pending(k) = {}
      BY <1>2, <1>4 DEF Supporters, Facts, Pending, PendingPcs
    <2>2. canon[k].count = 0
      BY <1>4 DEF Blank
    <2>3. QED
      BY <2>1, <2>2, FS_EmptySet DEF Counted
  <1>11. \A c \in Commands : Aware(c) /\ Forgotten(c)
    BY <1>4 DEF Aware, Forgotten
  <1>12. \A k \in Keys : canon[k].status # "approved"
    BY <1>4 DEF Blank
  <1>13. QED
    BY <1>6, <1>7, <1>8, <1>9, <1>10, <1>11, <1>12 DEF IInv

\* Every step keeps it.
LEMMA StepHolds ==
    IInv /\ [Next]_vars => IInv'
  <1> SUFFICES ASSUME IInv, [Next]_vars
               PROVE  IInv'
    OBVIOUS
  <1>1. TypeOK /\ JobsOK /\ IntakesOK /\ CommandsOK
    BY DEF IInv
  <1>2. TypeOK' /\ JobsOK' /\ IntakesOK' /\ CommandsOK'
    BY <1>1, TypeStep, JobsStep, IntakesStep, CommandsStep
  <1>3. \A k \in Keys : Counted(k)'
    BY <1>1, CountedStep DEF IInv
  <1>4. \A c \in Commands : Aware(c)' /\ Forgotten(c)'
    BY <1>1, AwareStep, ForgottenStep DEF IInv
  <1>5. \A k \in Keys : canon'[k].status = "approved" => Said(k)'
    BY <1>1, SaidStep DEF IInv
  <1>6. QED
    BY <1>2, <1>3, <1>4, <1>5 DEF IInv

\* The inductive invariant: the types; where jobs, intakes and commands stand; the
\* jobs that have been counted in before their candidate is written; the superseded
\* rows of a forgetting that is still at work; and who has spoken of an approved row.
THEOREM Inductive == Spec => []IInv
  <1>1. Init => IInv
    BY InitHolds
  <1>2. IInv /\ [Next]_vars => IInv'
    BY StepHolds
  <1>3. QED
    BY <1>1, <1>2, PTL DEF Spec

\* The types of the variables.
THEOREM TypeCorrect == Spec => []TypeOK
  <1>1. IInv => TypeOK
    BY DEF IInv
  <1>2. QED
    BY <1>1, Inductive, PTL

\* The count of a memory is never less than the candidates that name it and the
\* facts of the chat that are stored in it, however the reads and writes of the
\* extractions, the chat and the commands interleave.
THEOREM EvidenceIsCounted == Spec => []SupportIsCounted
  <1>1. IInv => SupportIsCounted
    <2> SUFFICES ASSUME IInv, NEW k \in Keys
                 PROVE  canon[k].count >=
                          Cardinality({e \in Evidence : cands[e].status # "none" /\ cands[e].link = k}
                              \cup {i \in Intakes : intake[i].pc = "stored" /\ intake[i].key = k})
      BY DEF SupportIsCounted
    <2>1. Counted(k) /\ canon[k].count \in Nat
      BY DEF IInv, TypeOK
    <2>2. /\ IsFiniteSet(Supporters(k)) /\ IsFiniteSet(Facts(k)) /\ IsFiniteSet(Pending(k))
          /\ canon[k].count >= Cardinality(Supporters(k)) + Cardinality(Facts(k)) + Cardinality(Pending(k))
      BY <2>1 DEF Counted
    <2>3. /\ Cardinality(Supporters(k)) \in Nat /\ Cardinality(Facts(k)) \in Nat
          /\ Cardinality(Pending(k)) \in Nat
      BY <2>2, FS_CardinalityType
    <2>4. Cardinality(Supporters(k) \cup Facts(k)) =
            Cardinality(Supporters(k)) + Cardinality(Facts(k)) - Cardinality(Supporters(k) \cap Facts(k))
      BY <2>2, FS_Union
    <2>5. Cardinality(Supporters(k) \cap Facts(k)) \in Nat
      <3>1. (Supporters(k) \cap Facts(k)) \subseteq Facts(k)
        OBVIOUS
      <3>2. QED
        BY <2>2, <3>1, AtMost
    <2>6. canon[k].count >= Cardinality(Supporters(k) \cup Facts(k))
      BY <2>1, <2>2, <2>3, <2>4, <2>5
    <2>7. QED
      BY <2>6 DEF Supporters, Facts
  <1>2. QED
    BY <1>1, Inductive, PTL

\* What a command has reported forgotten is neither served nor looked at until the
\* user states it after the command has matched it; only an instruction file brings its
\* candidate back, and only a fact or a correction that was stated before the command
\* and had not been written when it matched brings its row back.
THEOREM ForgottenStaysForgotten == Spec => []ForgetHolds
  <1>1. IInv => ForgetHolds
    <2> SUFFICES ASSUME IInv, NEW c \in Commands, cmd[c].pc = "applied", cmd[c].kind = "forget"
                 PROVE  /\ \A k \in cmd[c].keys \ (since[c] \cup crossed[c]) : ~Served(k)
                        /\ \A e \in cmd[c].cands \ (since[c] \cup Instructions) : ~Live(e)
      BY DEF ForgetHolds
    <2>1. cmd[c].todo = {} /\ ~cmd[c].threw
      BY DEF IInv, CommandsOK
    <2>2. /\ \A k \in cmd[c].keys \ (since[c] \cup crossed[c]) : canon[k].status = "superseded"
          /\ \A e \in cmd[c].cands \ (since[c] \cup Instructions) : cands[e].status = "superseded"
      BY <2>1 DEF IInv, Forgotten, Excused
    <2>3. QED
      BY <2>2 DEF Served, Live
  <1>2. QED
    BY <1>1, Inductive, PTL

\* What is served as current truth the user has said or corrected; an extraction
\* alone never gets there.
THEOREM ServedIsSaid == Spec => []ServedByUser
  <1>1. IInv => ServedByUser
    BY DEF IInv, ServedByUser, Served, Said
  <1>2. QED
    BY <1>1, Inductive, PTL
=============================================================================
