--------------------------- MODULE ConnectorStore ---------------------------
(***************************************************************************)
(* What a connector sync does with the content it has fetched.  Every      *)
(* changed content of a connected source becomes a new source artifact,    *)
(* and the earlier artifacts of the source, their memory fragments and     *)
(* their candidate memories are marked as superseded.  Meanwhile each      *)
(* artifact goes through processing, which writes back the metadata it     *)
(* read, creates the fragment and then the candidates.                     *)
(*                                                                         *)
(* The module is one scope of storage-helpers.ts: one account and source.  *)
(* An item is a repository, page or file, or one message; its content is   *)
(* a version, and the hash of a content is its item and version.           *)
(***************************************************************************)
EXTENDS Naturals, FiniteSets

CONSTANTS
    I,          \* items 1..I of the connected source
    V,          \* versions 1..V a content can have
    A,          \* bound: artifacts of one behaviour
    Workers,    \* sync runs of the source that may be executed at one time
    MaxEdits,   \* bound: changes at the source in one behaviour
    MaxFaults,  \* bound: failed calls and lost workers in one behaviour
    Reverts     \* may a content return to an earlier version?

Items    == 1..I
Versions == 1..V
Arts     == 1..A

ASSUME StoreAssumption ==
    /\ I \in Nat \ {0}
    /\ V \in Nat \ {0}
    /\ A \in Nat \ {0}
    /\ IsFiniteSet(Workers)
    /\ MaxEdits \in Nat
    /\ MaxFaults \in Nat
    /\ Reverts \in BOOLEAN

VARIABLES
    content,    \* the version each item has at the provider
    last,       \* how many artifacts were inserted: 1..last
    art,        \* source_artifacts: item, version, metadata.supersededByArtifactId
    frag,       \* memory_fragments of each artifact
    cands,      \* candidate_memories of each artifact
    sync,       \* what each sync run is about
    ppc, psup,  \* the processing of each artifact, and the metadata it holds
    edits, faults

source  == <<content, edits>>
derived == <<frag, cands>>
proc    == <<ppc, psup>>
vars    == <<source, last, art, derived, sync, proc, faults>>

Derived == {"none", "live", "superseded"}
SyncPcs == {"idle", "check", "previous", "insert", "select", "supersede",
            "fragments", "candidates"}
ProcPcs == {"new", "queued", "fragment", "complete", "load", "mark", "extract",
            "final_read", "final_write", "done"}

NoArt  == [item |-> 1, version |-> 1, sup |-> 0]
NoSync == [pc |-> "idle", item |-> 1, version |-> 1, update |-> FALSE, new |-> 0,
           left |-> {}, cur |-> 0]

Inserted == 1..last

Init ==
    /\ content = [i \in Items |-> 1]
    /\ last = 0
    /\ art = [a \in Arts |-> NoArt]
    /\ frag = [a \in Arts |-> "none"]
    /\ cands = [a \in Arts |-> "none"]
    /\ sync = [w \in Workers |-> NoSync]
    /\ ppc = [a \in Arts |-> "new"]
    /\ psup = [a \in Arts |-> 0]
    /\ edits = 0
    /\ faults = 0

\* The content changes at the provider.
Edit(i, v) ==
    /\ edits < MaxEdits
    /\ v # content[i]
    /\ Reverts \/ v = content[i] + 1
    /\ content' = [content EXCEPT ![i] = v]
    /\ edits' = edits + 1
    /\ UNCHANGED <<last, art, derived, sync, proc, faults>>

-----------------------------------------------------------------------------
(* A sync run: storeConnectorArtifact *)

At(w, label) == sync[w].pc = label
Becomes(w, s) == sync' = [sync EXCEPT ![w] = s]
NotStored == <<source, last, art, derived, proc, faults>>

\* The adapter fetches the item.
Fetch(w, i) ==
    /\ At(w, "idle")
    /\ Becomes(w, [NoSync EXCEPT !.pc = "check", !.item = i, !.version = content[i]])
    /\ UNCHANGED NotStored

\* Mutant: only the newest artifact is compared.
UnchangedNewest(w) ==
    /\ last # 0
    /\ art[last].item = sync[w].item
    /\ art[last].version = sync[w].version

\* findUnchangedConnectorArtifact: some artifact of the scope has the hash.
Unchanged(w) ==
    \E a \in Inserted : art[a].item = sync[w].item /\ art[a].version = sync[w].version

\* "content_hash_unchanged"
Skip(w) ==
    /\ At(w, "check")
    /\ Unchanged(w)
    /\ Becomes(w, NoSync)
    /\ UNCHANGED NotStored

Check(w) ==
    /\ At(w, "check")
    /\ ~Unchanged(w)
    /\ Becomes(w, [sync[w] EXCEPT !.pc = "previous"])
    /\ UNCHANGED NotStored

\* Is there an artifact of the scope, of whatever item?
LookPrevious(w) ==
    /\ At(w, "previous")
    /\ Becomes(w, [sync[w] EXCEPT !.pc = "insert", !.update = last # 0])
    /\ UNCHANGED NotStored

\* Mutant: the artifact is inserted and its processing is not queued.
InsertUnqueued(w) ==
    /\ At(w, "insert")
    /\ last < A
    /\ last' = last + 1
    /\ art' = [art EXCEPT ![last + 1] =
                 [item |-> sync[w].item, version |-> sync[w].version, sup |-> 0]]
    /\ Becomes(w, IF sync[w].update THEN [sync[w] EXCEPT !.pc = "select", !.new = last + 1]
                                    ELSE NoSync)
    /\ UNCHANGED <<source, derived, proc, faults>>

\* Mutant: the id of the artifact found before is taken for the new one.
InsertMixedUp(w) ==
    /\ At(w, "insert")
    /\ last < A
    /\ last' = last + 1
    /\ art' = [art EXCEPT ![last + 1] =
                 [item |-> sync[w].item, version |-> sync[w].version, sup |-> 0]]
    /\ ppc' = [ppc EXCEPT ![last + 1] = "queued"]
    /\ Becomes(w, IF sync[w].update THEN [sync[w] EXCEPT !.pc = "select", !.new = last]
                                    ELSE NoSync)
    /\ UNCHANGED <<source, derived, psup, faults>>

\* The payload is stored and the artifact inserted as "queued": from now on the
\* job enqueued at the end, or the reconciler, may process it.
Insert(w) ==
    /\ At(w, "insert")
    /\ last < A
    /\ last' = last + 1
    /\ art' = [art EXCEPT ![last + 1] =
                 [item |-> sync[w].item, version |-> sync[w].version, sup |-> 0]]
    /\ ppc' = [ppc EXCEPT ![last + 1] = "queued"]
    /\ Becomes(w, IF sync[w].update THEN [sync[w] EXCEPT !.pc = "select", !.new = last + 1]
                                    ELSE NoSync)
    /\ UNCHANGED <<source, derived, psup, faults>>

\* Mutant: the new artifact is not left out.
SelectPreviousAll(w) ==
    /\ At(w, "select")
    /\ Becomes(w, [sync[w] EXCEPT !.pc = "supersede", !.left = Inserted])
    /\ UNCHANGED NotStored

\* supersedePreviousConnectorArtifacts reads the ids and the metadata.  (Of the
\* metadata only supersededByArtifactId is modelled, and that is overwritten.)
SelectPrevious(w) ==
    /\ At(w, "select")
    /\ Becomes(w, [sync[w] EXCEPT !.pc = "supersede", !.left = Inserted \ {sync[w].new}])
    /\ UNCHANGED NotStored

SupersedeRow(w, a) ==
    /\ At(w, "supersede")
    /\ a \in sync[w].left
    /\ art' = [art EXCEPT ![a].sup = sync[w].new]
    /\ Becomes(w, [sync[w] EXCEPT !.pc = "fragments", !.left = @ \ {a}, !.cur = a])
    /\ UNCHANGED <<source, last, derived, proc, faults>>

\* The fragment, if there is one by now ...
SupersedeFragment(w) ==
    /\ At(w, "fragments")
    /\ frag' = [frag EXCEPT ![sync[w].cur] = IF @ = "live" THEN "superseded" ELSE @]
    /\ Becomes(w, [sync[w] EXCEPT !.pc = "candidates"])
    /\ UNCHANGED <<source, last, art, cands, proc, faults>>

\* ... and the candidates that exist by now.
SupersedeCandidates(w) ==
    /\ At(w, "candidates")
    /\ cands' = [cands EXCEPT ![sync[w].cur] = IF @ = "live" THEN "superseded" ELSE @]
    /\ Becomes(w, IF sync[w].left = {} THEN NoSync
                  ELSE [sync[w] EXCEPT !.pc = "supersede"])
    /\ UNCHANGED <<source, last, art, frag, proc, faults>>

\* A call fails, or the worker is lost: the run or the item is recorded as
\* failed.  What was written stays written.
SyncFault(w) ==
    /\ ~At(w, "idle")
    /\ faults < MaxFaults
    /\ faults' = faults + 1
    /\ Becomes(w, NoSync)
    /\ UNCHANGED <<source, last, art, derived, proc>>

-----------------------------------------------------------------------------
(* Artifact processing and intelligence, as far as they touch these tables *)

PGoto(a, label) == ppc' = [ppc EXCEPT ![a] = label]
NotRow == <<source, last, sync, faults>>

\* The claim returns the row with its metadata.
ClaimRow(a) ==
    /\ ppc[a] = "queued"
    /\ PGoto(a, "fragment")
    /\ psup' = [psup EXCEPT ![a] = art[a].sup]
    /\ UNCHANGED <<art, derived, NotRow>>

CreateFragment(a) ==
    /\ ppc[a] = "fragment"
    /\ frag' = [frag EXCEPT ![a] = "live"]
    /\ PGoto(a, "complete")
    /\ UNCHANGED <<art, cands, psup, NotRow>>

\* markArtifactCompleted writes the metadata of the claim.
CompleteRow(a) ==
    /\ ppc[a] = "complete"
    /\ art' = [art EXCEPT ![a].sup = psup[a]]
    /\ PGoto(a, "load")
    /\ UNCHANGED <<derived, psup, NotRow>>

LoadContext(a) ==
    /\ ppc[a] = "load"
    /\ psup' = [psup EXCEPT ![a] = art[a].sup]
    /\ PGoto(a, "mark")
    /\ UNCHANGED <<art, derived, NotRow>>

MarkIntelligence(a) ==
    /\ ppc[a] = "mark"
    /\ art' = [art EXCEPT ![a].sup = psup[a]]
    /\ PGoto(a, "extract")
    /\ UNCHANGED <<derived, psup, NotRow>>

PersistCandidates(a) ==
    /\ ppc[a] = "extract"
    /\ cands' = [cands EXCEPT ![a] = "live"]
    /\ PGoto(a, "final_read")
    /\ UNCHANGED <<art, frag, psup, NotRow>>

FinalRead(a) ==
    /\ ppc[a] = "final_read"
    /\ psup' = [psup EXCEPT ![a] = art[a].sup]
    /\ PGoto(a, "final_write")
    /\ UNCHANGED <<art, derived, NotRow>>

FinalWrite(a) ==
    /\ ppc[a] = "final_write"
    /\ art' = [art EXCEPT ![a].sup = psup[a]]
    /\ PGoto(a, "done")
    /\ UNCHANGED <<derived, psup, NotRow>>

-----------------------------------------------------------------------------
SyncStep(w) ==
    \/ Skip(w) \/ Check(w) \/ LookPrevious(w) \/ Insert(w) \/ SelectPrevious(w)
    \/ \E a \in Arts : SupersedeRow(w, a)
    \/ SupersedeFragment(w) \/ SupersedeCandidates(w)

ProcessStep(a) ==
    \/ ClaimRow(a) \/ CreateFragment(a) \/ CompleteRow(a)
    \/ LoadContext(a) \/ MarkIntelligence(a) \/ PersistCandidates(a)
    \/ FinalRead(a) \/ FinalWrite(a)

Next ==
    \/ \E i \in Items, v \in Versions : Edit(i, v)
    \/ \E w \in Workers, i \in Items : Fetch(w, i)
    \/ \E w \in Workers : SyncStep(w) \/ SyncFault(w)
    \/ \E a \in Arts : ProcessStep(a)

Spec == Init /\ [][Next]_vars

\* A connected source is synced again and again, a run goes on until it ends or
\* fails, and a queued artifact is processed in the end (ArtifactPipeline).
Fairness ==
    /\ \A w \in Workers : WF_vars(SyncStep(w))
    /\ \A w \in Workers, i \in Items : SF_vars(Fetch(w, i))
    /\ \A a \in Arts : WF_vars(ProcessStep(a))

FairSpec == Spec /\ Fairness

-----------------------------------------------------------------------------
(* Properties *)

SyncOK ==
    sync \in [Workers ->
        [pc : SyncPcs, item : Items, version : Versions, update : BOOLEAN,
         new : 0..A, left : SUBSET Arts, cur : 0..A]]

\* The tables and what the runs hold: a run that supersedes does so with the
\* artifact of the content it fetched, and only what is in the table.
TypeOK ==
    /\ content \in [Items -> Versions]
    /\ last \in 0..A
    /\ art \in [Arts -> [item : Items, version : Versions, sup : 0..A]]
    /\ frag \in [Arts -> Derived]
    /\ cands \in [Arts -> Derived]
    /\ SyncOK
    /\ \A w \in Workers :
          /\ sync[w].left \subseteq Inserted
          /\ sync[w].cur \in 0..last
          /\ sync[w].new # 0 =>
                /\ art[sync[w].new].item = sync[w].item
                /\ art[sync[w].new].version = sync[w].version
    /\ ppc \in [Arts -> ProcPcs]
    /\ psup \in [Arts -> 0..A]
    /\ edits \in 0..MaxEdits
    /\ faults \in 0..MaxFaults

\* One content is stored and processed once, however often runs fail and are
\* retried and whatever the content was in between.
StoredOnce ==
    \A a, b \in Inserted :
        (art[a].item = art[b].item /\ art[a].version = art[b].version) => a = b

Retired(a) == frag[a] = "superseded" \/ cands[a] = "superseded" \/ art[a].sup # 0

\* A source that was imported is never without an artifact that search may use.
AlwaysServed == last # 0 => \E a \in Inserted : ~Retired(a)

Current(i) == {a \in Inserted : art[a].item = i /\ art[a].version = content[i]}
Found(a) == frag[a] = "live" /\ cands[a] = "live"

\* When the content stops changing, its memories are found in the end and stay,
\* unless its artifact was retired before the content came back.
CurrentIsServed ==
    \A i \in Items : <>[](\E a \in Current(i) : Found(a) \/ Retired(a))

\* The same without exception.
CurrentIsFound == \A i \in Items : <>[](\E a \in Current(i) : Found(a))

\* The memories of a content that is no longer the current one are retired in
\* the end.
StaleIsRetired ==
    \A a \in Arts :
        <>[]((a \in Inserted /\ art[a].version # content[art[a].item]) =>
                (frag[a] # "live" /\ cands[a] # "live"))

\* An artifact that was marked as superseded stays marked.
SupersededStays == [][\A a \in Arts : art[a].sup # 0 => art'[a].sup # 0]_vars

\* A run that finds nothing new leaves no superseded content unmarked behind.
UnchangedIsSettled ==
    [][\A w \in Workers :
         (At(w, "check") /\ sync'[w].pc = "idle" /\ faults' = faults) =>
             \A a \in Inserted : a # last => art[a].sup # 0]_vars

=============================================================================
