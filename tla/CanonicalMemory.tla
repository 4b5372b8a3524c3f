--------------------------- MODULE CanonicalMemory ---------------------------
(***************************************************************************)
(* The canonical memories of one twin and the candidate memories that       *)
(* support them.  Three parts of the system write the same rows without a   *)
(* lock or a transaction, each from metadata it read some awaits earlier:   *)
(*   - an extraction in the worker merges what it found in an artifact,     *)
(*   - the chat intake stores what the user has just said,                  *)
(*   - a Telegram command forgets memories or corrects one.                 *)
(* The engineering review sets the status of a candidate.                   *)
(*                                                                         *)
(* A row is named by its canonical key, which is unique in the table.       *)
(* Of the metadata the model keeps the value of currentTruth and the        *)
(* evidence hashes.  The status inside currentTruth is left out: a row is   *)
(* approved only by writes that also set it "active".                       *)
(***************************************************************************)
EXTENDS Naturals, Sequences, FiniteSets

CONSTANTS
    Keys,           \* canonical keys
    Evidence,       \* extracted memories, one per fragment, type and evidence hash
    KeyOf,          \* the canonical key an extracted memory leads to
    ValueOf,        \* the current truth it states, or NoValue
    Instructions,   \* those extracted from agent instruction files
    Values, NoValue,
    Workers, Batches,   \* extraction jobs; the memories each may find, in order
    Intakes, Commands,  \* facts the user states in the chat; Telegram commands
    MaxTries,       \* attempts of an extraction job
    MaxMatches,     \* TELEGRAM_MEMORY_CORRECTION_MAX_MATCHES
    MaxReviews,     \* bound: reviews of candidates
    MaxMishaps      \* bound: database calls that fail

ASSUME CanonicalAssumption ==
    /\ Evidence # {}
    /\ KeyOf \in [Evidence -> Keys]
    /\ ValueOf \in [Evidence -> Values \cup {NoValue}]
    /\ NoValue \notin Values
    /\ Instructions \subseteq Evidence
    /\ \A b \in Batches : b \in [Workers -> Seq(Evidence)]
    /\ Evidence \cap Intakes = {} /\ Evidence \cap Keys = {}
    /\ MaxTries \in Nat \ {0} /\ MaxMatches \in Nat
    /\ MaxReviews \in Nat /\ MaxMishaps \in Nat

VARIABLES
    canon,      \* canonical_memories: status, evidenceCount, value, evidence hashes
    cands,      \* candidate_memories: status, canonicalMemoryId
    batch,      \* what each extraction job finds
    wk, tries,  \* extraction jobs, and the attempts they have left
    intake,     \* intakes of the chat
    cmd,        \* Telegram commands
    since,      \* history: what the user has spoken of since a command matched
    crossed,    \* history: what was stated before a command matched, but not stored yet
    reviews, mishaps    \* how many there may still be

budget == <<reviews, mishaps>>
history == <<since, crossed>>
vars   == <<canon, cands, batch, wk, tries, intake, cmd, history, budget>>

Truths == Values \cup {NoValue}
Metadata == [value : Truths, hashes : SUBSET (Evidence \cup Intakes)]
NoMetadata == [value |-> NoValue, hashes |-> {}]
Statuses == {"none", "candidate", "approved", "rejected", "superseded"}

Blank == [status |-> "none", count |-> 0, value |-> NoValue, hashes |-> {}]

Exists(k) == canon[k].status # "none"
Read(k) == [value |-> canon[k].value, hashes |-> canon[k].hashes]
\* What retrieval and planning are given as current truth.
Served(k) == canon[k].status = "approved" /\ canon[k].value # NoValue
\* What the search of candidates and the commands look at.
Live(e) == cands[e].status \notin {"none", "superseded"}

Init ==
    /\ canon = [k \in Keys |-> Blank]
    /\ cands = [e \in Evidence |-> [status |-> "none", link |-> KeyOf[e]]]
    /\ batch \in Batches
    /\ wk = [w \in Workers |-> [pc |-> "queued", at |-> 1, key |-> KeyOf[CHOOSE e \in Evidence : TRUE],
                                read |-> NoMetadata]]
    /\ tries = [w \in Workers |-> MaxTries]
    /\ intake = [i \in Intakes |-> [pc |-> "idle"]]
    /\ cmd = [c \in Commands |-> [pc |-> "idle"]]
    /\ since = [c \in Commands |-> {}] /\ crossed = [c \in Commands |-> {}]
    /\ reviews = MaxReviews /\ mishaps = MaxMishaps

-----------------------------------------------------------------------------
(* The extraction: upsertCanonicalMemory, then the candidate, for each memory *)

Memory(w) == batch[w][wk[w].at]

WGoto(w, label) == wk' = [wk EXCEPT ![w].pc = label]

\* The job throws; the queue runs it again from its first memory while it has attempts.
Throws(w) ==
    /\ tries' = [tries EXCEPT ![w] = @ - 1]
    /\ wk' = [wk EXCEPT ![w].pc = IF tries[w] > 1 THEN "queued" ELSE "failed",
                        ![w].at = 1, ![w].read = NoMetadata]

ExtractionOnly == UNCHANGED <<batch, intake, cmd, history, budget>>

Start(w) ==
    /\ wk[w].pc = "queued"
    /\ WGoto(w, IF batch[w] = <<>> THEN "done" ELSE "find")
    /\ UNCHANGED <<canon, cands, tries>> /\ ExtractionOnly

FindCanonical(w) ==
    /\ wk[w].pc = "find"
    /\ LET k == KeyOf[Memory(w)] IN
       wk' = [wk EXCEPT ![w].pc = IF Exists(k) THEN "update" ELSE "judge",
                        ![w].key = k,
                        ![w].read = Read(k)]
    /\ UNCHANGED <<canon, cands, tries>> /\ ExtractionOnly

\* The judge takes one of the rows it is shown for the same memory, or it does not,
\* is not sure enough, fails, or is not there.
Judge(w) ==
    /\ wk[w].pc = "judge"
    /\ \/ WGoto(w, "insert")
       \/ \E k \in Keys :
             /\ Exists(k)
             /\ wk' = [wk EXCEPT ![w].pc = "reread", ![w].key = k]
    /\ UNCHANGED <<canon, cands, tries>> /\ ExtractionOnly

Reread(w) ==
    /\ wk[w].pc = "reread"
    /\ wk' = [wk EXCEPT ![w].pc = "update", ![w].read = Read(wk[w].key)]
    /\ UNCHANGED <<canon, cands, tries>> /\ ExtractionOnly

\* mergeCanonicalMemoryMetadata: the truth of the new evidence, or the one read.
Merged(metadata, e) ==
    [value  |-> IF ValueOf[e] = NoValue THEN metadata.value ELSE ValueOf[e],
     hashes |-> metadata.hashes \cup {e}]

\* Mutant: the count is the one that was read with the metadata, plus one.
WriteEvidenceCounted(w) ==
    LET m == Merged(wk[w].read, Memory(w)) IN
    canon' = [canon EXCEPT ![wk[w].key].count = Cardinality(m.hashes),
                           ![wk[w].key].value = m.value, ![wk[w].key].hashes = m.hashes]

\* The row gets the merged metadata; the count is added to in the database and the
\* status is left as it is.
WriteEvidence(w) ==
    LET m == Merged(wk[w].read, Memory(w)) IN
    canon' = [canon EXCEPT ![wk[w].key].count = @ + 1, ![wk[w].key].value = m.value,
                           ![wk[w].key].hashes = m.hashes]

UpdateCanonical(w) ==
    /\ wk[w].pc = "update"
    /\ WriteEvidence(w)
    /\ wk' = [wk EXCEPT ![w].pc = "candidate", ![w].read = NoMetadata]
    /\ UNCHANGED <<cands, tries>> /\ ExtractionOnly

\* Mutant: the status that createCandidateMemory was given is the row's as well.
NewCanonicalAsGiven(e) ==
    LET m == Merged(NoMetadata, e) IN
    [status |-> IF e \in Instructions THEN "approved" ELSE "candidate",
     count |-> 1, value |-> m.value, hashes |-> m.hashes]

\* insertCanonicalMemory
NewCanonical(e) ==
    LET m == Merged(NoMetadata, e) IN
    [status |-> "candidate", count |-> 1, value |-> m.value, hashes |-> m.hashes]

\* Two inserts of one key: the second one throws.
InsertCanonical(w) ==
    /\ wk[w].pc = "insert"
    /\ IF Exists(wk[w].key)
       THEN Throws(w) /\ UNCHANGED canon
       ELSE /\ canon' = [canon EXCEPT ![wk[w].key] = NewCanonical(Memory(w))]
            /\ WGoto(w, "candidate")
            /\ UNCHANGED tries
    /\ UNCHANGED cands /\ ExtractionOnly

FindCandidate(w) ==
    /\ wk[w].pc = "candidate"
    /\ WGoto(w, IF cands[Memory(w)].status = "none" THEN "create" ELSE "revise")
    /\ UNCHANGED <<canon, cands, tries>> /\ ExtractionOnly

\* On to the next memory of the batch.
Stored(w) ==
    wk' = [wk EXCEPT ![w].pc = IF wk[w].at < Len(batch[w]) THEN "find" ELSE "done",
                     ![w].at = IF wk[w].at < Len(batch[w]) THEN @ + 1 ELSE 1]

\* The candidate is unique per fragment, type and evidence hash.
CreateCandidate(w) ==
    /\ wk[w].pc = "create"
    /\ LET e == Memory(w) IN
       IF cands[e].status # "none"
       THEN Throws(w) /\ UNCHANGED cands
       ELSE /\ cands' = [cands EXCEPT ![e] =
                           [status |-> IF e \in Instructions THEN "approved" ELSE "candidate",
                            link |-> wk[w].key]]
            /\ Stored(w)
            /\ UNCHANGED tries
    /\ UNCHANGED canon /\ ExtractionOnly

\* Mutant: a candidate that is found again gets the status of a new one.
RevisedAsNew(w, e) ==
    [status |-> IF e \in Instructions THEN "approved" ELSE "candidate",
     link |-> wk[w].key]

\* A candidate keeps its status, except that an instruction file sets it again.
Revised(w, e) ==
    [status |-> IF e \in Instructions THEN "approved" ELSE cands[e].status,
     link |-> wk[w].key]

ReviseCandidate(w) ==
    /\ wk[w].pc = "revise"
    /\ cands' = [cands EXCEPT ![Memory(w)] = Revised(w, Memory(w))]
    /\ Stored(w)
    /\ UNCHANGED <<canon, tries>> /\ ExtractionOnly

ExtractionFails(w) ==
    /\ wk[w].pc \notin {"queued", "done", "failed"}
    /\ mishaps > 0 /\ mishaps' = mishaps - 1
    /\ Throws(w)
    /\ UNCHANGED <<canon, cands, batch, intake, cmd, history, reviews>>

Extraction(w) ==
    \/ Start(w) \/ FindCanonical(w) \/ Judge(w) \/ Reread(w)
    \/ UpdateCanonical(w) \/ InsertCanonical(w)
    \/ FindCandidate(w) \/ CreateCandidate(w) \/ ReviseCandidate(w)
    \/ ExtractionFails(w)

-----------------------------------------------------------------------------
(* The chat intake: upsertHotProfileMemory, upsertHotEngineeringMemory *)

\* The user has spoken of x: a command that has matched does not bind it any more.
Spoken(x) ==
    /\ since' = [c \in Commands |-> IF cmd[c].pc = "idle" THEN {} ELSE since[c] \cup x]
    /\ UNCHANGED crossed

ChatOnly == UNCHANGED <<cands, batch, wk, tries, cmd, reviews>>

\* A fact is on its way through the intake.
Writing(i) == intake[i].pc \in {"stated", "update", "insert"}

\* The user states a fact in a message; the classifier finds it there some time later.
State(i) ==
    /\ intake[i].pc = "idle"
    /\ \E k \in Keys, v \in Values :
          /\ intake' = [intake EXCEPT ![i] = [pc |-> "stated", key |-> k, value |-> v]]
          /\ Spoken({k})
    /\ UNCHANGED <<canon, mishaps>> /\ ChatOnly

\* The intake reads the row of the fact's key.
TakeFact(i) ==
    /\ intake[i].pc = "stated"
    /\ LET k == intake[i].key IN
       intake' = [intake EXCEPT ![i] = [pc |-> IF Exists(k) THEN "update" ELSE "insert",
                                        key |-> k, value |-> @.value, read |-> Read(k)]]
    /\ UNCHANGED <<canon, history, mishaps>> /\ ChatOnly

IntakeEnds(i, pc) ==
    intake' = [intake EXCEPT ![i] = [pc |-> pc, key |-> @.key, value |-> @.value]]

UpdateHot(i) ==
    /\ intake[i].pc = "update"
    /\ LET r == intake[i] IN
       canon' = [canon EXCEPT ![r.key] =
                   [status |-> "approved", count |-> @.count + 1, value |-> r.value,
                    hashes |-> r.read.hashes \cup {i}]]
    /\ IntakeEnds(i, "stored")
    /\ UNCHANGED <<history, mishaps>> /\ ChatOnly

\* The insert of a key that has come in since the read throws.
InsertHot(i) ==
    /\ intake[i].pc = "insert"
    /\ LET r == intake[i] IN
       IF Exists(r.key)
       THEN IntakeEnds(i, "failed") /\ UNCHANGED canon
       ELSE /\ canon' = [canon EXCEPT ![r.key] =
                           [status |-> "approved", count |-> 1, value |-> r.value,
                            hashes |-> {i}]]
            /\ IntakeEnds(i, "stored")
    /\ UNCHANGED <<history, mishaps>> /\ ChatOnly

\* A call fails, or the classifier does not find the fact.
IntakeFails(i) ==
    /\ Writing(i)
    /\ mishaps > 0 /\ mishaps' = mishaps - 1
    /\ IntakeEnds(i, "failed")
    /\ UNCHANGED <<canon, history>> /\ ChatOnly

Chat(i) == State(i) \/ TakeFact(i) \/ UpdateHot(i) \/ InsertHot(i) \/ IntakeFails(i)

-----------------------------------------------------------------------------
(* Telegram commands: forget (stale is the same) and correct *)

CommandOnly == UNCHANGED <<batch, wk, tries, intake, reviews>>

\* loadTelegramMemoryCorrectionMatches: what the words match, the canonical rows of
\* the candidates among it, and the candidates of those, as far as none of them is
\* superseded.  The model reads them at one moment.
MatchedKeys(es, ks) == {k \in Keys : Exists(k) /\ canon[k].status # "superseded"
                                      /\ (k \in ks \/ \E e \in es : cands[e].link = k)}
MatchedCands(es, ks) == {e \in Evidence : Live(e) /\ (e \in es \/ cands[e].link \in ks)}

\* A correction that has still to be made.
Correcting(d) == cmd[d].pc \in {"supersede", "correct"} /\ cmd[d].kind = "correct"

\* The keys of what the user has stated and the system has not written yet.
Unwritten ==
    {intake[i].key : i \in {j \in Intakes : Writing(j)}}
    \cup UNION {cmd[d].keys : d \in {x \in Commands : Correcting(x)}}

Match(c) ==
    /\ cmd[c].pc = "idle"
    /\ \E kind \in {"forget", "correct"}, v \in Values,
          es \in SUBSET {e \in Evidence : Live(e)}, ks0 \in SUBSET Keys :
          LET ks == MatchedKeys(es, ks0)
              matched == MatchedCands(es, ks)
              refused == \/ ks = {} /\ matched = {}
                         \/ kind = "forget" /\ Cardinality(ks) + Cardinality(matched) > MaxMatches
                         \/ kind = "correct" /\ (Cardinality(ks) # 1
                                                 \/ \E k \in ks : canon[k].value = NoValue)
          IN /\ (kind = "forget" => v = CHOOSE x \in Values : TRUE)
             /\ cmd' = [cmd EXCEPT ![c] =
                          IF refused THEN [pc |-> "refused"]
                          ELSE [pc |-> "supersede", kind |-> kind, value |-> v,
                                keys |-> ks, cands |-> matched,
                                todo |-> matched \cup (IF kind = "forget" THEN ks ELSE {}),
                                read |-> [k \in ks |-> Read(k)], threw |-> FALSE]]
             /\ since' = [d \in Commands |->
                            IF cmd[d].pc = "idle" \/ kind = "forget" \/ refused
                            THEN since[d] ELSE since[d] \cup ks]
             /\ crossed' = [crossed EXCEPT ![c] = Unwritten]
    /\ UNCHANGED <<canon, cands, mishaps>> /\ CommandOnly

Taken(c, x) == cmd' = [cmd EXCEPT ![c].todo = @ \ {x}]

\* The updates of Promise.all, in any order.
SupersedeCandidate(c, e) ==
    /\ cmd[c].pc = "supersede" /\ e \in cmd[c].todo
    /\ cands' = [cands EXCEPT ![e].status = "superseded"]
    /\ Taken(c, e)
    /\ UNCHANGED <<canon, history, mishaps>> /\ CommandOnly

\* The metadata is the one that was read, with the truth made inactive.
SupersedeCanonical(c, k) ==
    /\ cmd[c].pc = "supersede" /\ k \in cmd[c].todo
    /\ canon' = [canon EXCEPT ![k] =
                   [status |-> "superseded", count |-> @.count,
                    value |-> cmd[c].read[k].value, hashes |-> cmd[c].read[k].hashes]]
    /\ Taken(c, k)
    /\ UNCHANGED <<cands, history, mishaps>> /\ CommandOnly

\* One update fails: the command has failed, the others go on.
SupersedeFails(c, x) ==
    /\ cmd[c].pc = "supersede" /\ x \in cmd[c].todo
    /\ mishaps > 0 /\ mishaps' = mishaps - 1
    /\ cmd' = [cmd EXCEPT ![c].todo = @ \ {x}, ![c].threw = TRUE]
    /\ UNCHANGED <<canon, cands, history>> /\ CommandOnly

\* All updates are over: a forgetting ends with its audit, a correction goes on.
Superseded(c) ==
    /\ cmd[c].pc = "supersede" /\ cmd[c].todo = {}
    /\ cmd' = [cmd EXCEPT ![c].pc = IF cmd[c].threw THEN "failed"
                                    ELSE IF cmd[c].kind = "forget" THEN "audit" ELSE "correct"]
    /\ UNCHANGED <<canon, cands, history, mishaps>> /\ CommandOnly

\* correctCanonicalMemory: the new value in the metadata that was read.
Correct(c) ==
    /\ cmd[c].pc = "correct"
    /\ \E k \in cmd[c].keys :
          canon' = [canon EXCEPT ![k] =
                      [status |-> "approved", count |-> @.count,
                       value |-> cmd[c].value, hashes |-> cmd[c].read[k].hashes]]
    /\ cmd' = [cmd EXCEPT ![c].pc = "audit"]
    /\ UNCHANGED <<cands, history, mishaps>> /\ CommandOnly

Audit(c) ==
    /\ cmd[c].pc = "audit"
    /\ cmd' = [cmd EXCEPT ![c].pc = "applied"]
    /\ UNCHANGED <<canon, cands, history, mishaps>> /\ CommandOnly

CommandFails(c) ==
    /\ cmd[c].pc \in {"correct", "audit"}
    /\ mishaps > 0 /\ mishaps' = mishaps - 1
    /\ cmd' = [cmd EXCEPT ![c].pc = "failed"]
    /\ UNCHANGED <<canon, cands, history>> /\ CommandOnly

Telegram(c) ==
    \/ Match(c) \/ Superseded(c) \/ Correct(c) \/ Audit(c) \/ CommandFails(c)
    \/ \E e \in Evidence : SupersedeCandidate(c, e)
    \/ \E k \in Keys : SupersedeCanonical(c, k)
    \/ \E x \in Keys \cup Evidence : SupersedeFails(c, x)

-----------------------------------------------------------------------------
(* applyEngineeringReviewAction *)

ReviewStatus == {"candidate", "approved", "rejected", "superseded"}

Review ==
    /\ reviews > 0 /\ reviews' = reviews - 1
    /\ \E e \in Evidence, s \in ReviewStatus :
          /\ cands[e].status # "none"
          /\ cands' = [cands EXCEPT ![e].status = s]
          /\ Spoken({e})
    /\ UNCHANGED <<canon, batch, wk, tries, intake, cmd, mishaps>>

-----------------------------------------------------------------------------

Next ==
    \/ \E w \in Workers : Extraction(w)
    \/ \E i \in Intakes : Chat(i)
    \/ \E c \in Commands : Telegram(c)
    \/ Review

Spec == Init /\ [][Next]_vars

-----------------------------------------------------------------------------
(* Properties *)

\* The types of the variables.
TypeOK ==
    /\ canon \in [Keys -> [status : Statuses \ {"rejected"}, count : Nat, value : Truths,
                           hashes : SUBSET (Evidence \cup Intakes)]]
    /\ cands \in [Evidence -> [status : Statuses, link : Keys]]
    /\ \A k \in Keys : ~Exists(k) => canon[k] = Blank
    /\ \A w \in Workers : wk[w].key \in Keys /\ wk[w].read \in Metadata
                          /\ tries[w] \in 0..MaxTries
    /\ \A c \in Commands : since[c] \subseteq Keys \cup Evidence
    /\ crossed \in [Commands -> SUBSET Keys]

\* What a memory is counted to rest on is never less than what rests on it: the
\* candidates that name it and the facts stored in it, whoever else wrote the row
\* in between and whatever evidence was dropped from its metadata.
SupportIsCounted ==
    \A k \in Keys :
        canon[k].count >=
            Cardinality({e \in Evidence : cands[e].status # "none" /\ cands[e].link = k}
                        \cup {i \in Intakes : intake[i].pc = "stored" /\ intake[i].key = k})

\* A memory that a command has reported forgotten is not served, and the candidates
\* it matched are not looked at, until the user speaks of it again: an extraction that
\* is under way, or runs later, brings neither back. Instruction files do, and so does
\* what the user had stated before the command and the system had not stored yet.
ForgetHolds ==
    \A c \in Commands : (cmd[c].pc = "applied" /\ cmd[c].kind = "forget") =>
        /\ \A k \in cmd[c].keys \ (since[c] \cup crossed[c]) : ~Served(k)
        /\ \A e \in cmd[c].cands \ (since[c] \cup Instructions) : ~Live(e)

\* A memory is served only if the user has said or corrected it: what is extracted
\* from artifacts alone stays a candidate.
ServedByUser ==
    \A k \in Keys : Served(k) =>
        \/ \E i \in Intakes : intake[i].pc = "stored" /\ intake[i].key = k
        \/ \E c \in Commands : cmd[c].pc \in {"audit", "applied", "failed"}
                               /\ cmd[c].kind = "correct" /\ k \in cmd[c].keys

\* ... a fact that the intake has stored is served, while no command has matched it.
StoredIsServed ==
    \A i \in Intakes : intake[i].pc = "stored" =>
        \/ Served(intake[i].key)
        \/ \E c \in Commands : cmd[c].pc \notin {"idle", "refused"} /\ intake[i].key \in cmd[c].keys

\* ... a correction that has been reported stays until the user speaks of it again.
CorrectionStays ==
    \A c \in Commands : (cmd[c].pc = "applied" /\ cmd[c].kind = "correct") =>
        \A k \in cmd[c].keys \ since[c] : canon[k].value = cmd[c].value

\* ... the hashes of a memory name the candidates that support it.
EvidenceIsListed ==
    \A e \in Evidence : cands[e].status # "none" => e \in canon[cands[e].link].hashes

\* ... no evidence is counted twice.
CountedOnce ==
    \A k \in Keys : canon[k].count <= Cardinality(Evidence) + Cardinality(Intakes)

\* ... no candidate of a forgotten memory is left to be found.
ForgottenLeavesNothing ==
    \A c \in Commands : (cmd[c].pc = "applied" /\ cmd[c].kind = "forget") =>
        \A k \in cmd[c].keys \ since[c], e \in Evidence : cands[e].link = k => ~Live(e)

\* ... what was stated before the command and stored after it does not bring the memory
\* back.
ForgetHoldsStated ==
    \A c \in Commands : (cmd[c].pc = "applied" /\ cmd[c].kind = "forget") =>
        \A k \in cmd[c].keys \ since[c] : ~Served(k)

\* ... what a review has rejected stays rejected until the next review.
RejectedStays ==
    [][reviews' = reviews =>
          \A e \in Evidence : cands[e].status = "rejected" => cands'[e].status # "approved"]_vars

=============================================================================
