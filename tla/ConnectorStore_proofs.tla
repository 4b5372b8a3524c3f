----------------------- MODULE ConnectorStore_proofs -----------------------
(***************************************************************************)
(* TypeOK is an invariant of ConnectorStore for every number of items,     *)
(* versions, artifacts and sync runs of the source side by side.           *)
(* StoredOnce and AlwaysServed are invariants when the runs of a source    *)
(* follow each other (OneRun): two at one time compare with the table      *)
(* before either has inserted, and each supersedes what the other stored.  *)
(***************************************************************************)
EXTENDS ConnectorStore, TLAPS

\* A run holds an id that was inserted, and nothing has become of the artifacts
\* that were not.
Known ==
    /\ \A w \in Workers : sync[w].new \in 0..last
    /\ \A a \in Arts : a > last =>
          ppc[a] = "new" /\ psup[a] = 0 /\ frag[a] = "none" /\ cands[a] = "none"

IInv == TypeOK /\ Known

\* The sync runs of the source follow each other.
OneRun == \A v, w \in Workers : v = w

\* A run that is about to insert has found its content in no artifact.
Compared == \A w \in Workers : sync[w].pc \in {"previous", "insert"} => ~Unchanged(w)

Superseding == {"select", "supersede", "fragments", "candidates"}

\* The newest artifact is not superseded, by what is written or by metadata that
\* will be written back, and the run that supersedes spares it.
NewestServes ==
    /\ last # 0 => ~Retired(last) /\ psup[last] = 0
    /\ \A w \in Workers : sync[w].pc \in Superseding =>
          /\ last # 0 /\ sync[w].new = last
          /\ sync[w].pc # "select" => last \notin sync[w].left
          /\ sync[w].pc \in {"fragments", "candidates"} => sync[w].cur # last

OneRunInv == IInv /\ Compared /\ StoredOnce /\ NewestServes

-----------------------------------------------------------------------------
(* Types *)

LEMMA InitHolds == Init => OneRunInv
  <1> SUFFICES ASSUME Init PROVE OneRunInv
    OBVIOUS
  <1>1. 0 \in 0..A /\ NoArt \in [item : Items, version : Versions, sup : 0..A]
    BY StoreAssumption DEF NoArt, Items, Versions
  <1>2. NoSync \in [pc : SyncPcs, item : Items, version : Versions, update : BOOLEAN,
                    new : 0..A, left : SUBSET Arts, cur : 0..A]
    BY StoreAssumption DEF NoSync, SyncPcs, Items, Versions
  <1>3. SyncOK
    BY <1>2 DEF Init, SyncOK
  <1>4. TypeOK
    BY <1>1, <1>3, StoreAssumption DEF Init, TypeOK, NoSync, Derived, ProcPcs, Items, Versions
  <1>5. Known
    BY StoreAssumption DEF Init, Known, NoSync
  <1>6. Compared /\ StoredOnce /\ NewestServes
    BY StoreAssumption DEF Init, Compared, StoredOnce, NewestServes, NoSync, Superseding, Inserted
  <1> QED
    BY <1>4, <1>5, <1>6 DEF OneRunInv, IInv

\* What a run becomes when it changes nothing else.
LEMMA RunType ==
    ASSUME IInv, NEW w \in Workers, NEW r \in [pc : SyncPcs, item : Items, version : Versions,
                 update : BOOLEAN, new : 0..A, left : SUBSET Arts, cur : 0..A],
           Becomes(w, r), UNCHANGED NotStored,
           r.left \subseteq Inserted, r.cur \in 0..last, r.new \in 0..last,
           r.new # 0 => art[r.new].item = r.item /\ art[r.new].version = r.version
    PROVE  IInv'
  <1>1. SyncOK'
    BY DEF IInv, TypeOK, SyncOK, Becomes
  <1>2. \A v \in Workers : sync'[v] = IF v = w THEN r ELSE sync[v]
    BY DEF IInv, TypeOK, SyncOK, Becomes
  <1>3. Known'
    BY <1>2 DEF IInv, Known, NotStored, derived, proc
  <1>4. TypeOK'
    BY <1>1, <1>2 DEF IInv, TypeOK, NotStored, source, derived, proc, Inserted
  <1> QED
    BY <1>3, <1>4 DEF IInv

LEMMA IdleRun ==
    /\ NoSync \in [pc : SyncPcs, item : Items, version : Versions, update : BOOLEAN,
                   new : 0..A, left : SUBSET Arts, cur : 0..A]
    /\ NoSync.pc = "idle" /\ NoSync.new = 0 /\ NoSync.cur = 0 /\ NoSync.left = {}
  BY StoreAssumption DEF NoSync, SyncPcs, Items, Versions

LEMMA FetchType ==
    ASSUME IInv, NEW w \in Workers, NEW i \in Items, Fetch(w, i)
    PROVE  IInv'
  <1> DEFINE r == [NoSync EXCEPT !.pc = "check", !.item = i, !.version = content[i]]
  <1>1. r \in [pc : SyncPcs, item : Items, version : Versions, update : BOOLEAN,
               new : 0..A, left : SUBSET Arts, cur : 0..A]
    BY IdleRun DEF IInv, TypeOK, SyncPcs
  <1>2. r.left = {} /\ r.cur = 0 /\ r.new = 0
    BY DEF NoSync
  <1>3. 0 \in 0..last
    BY DEF IInv, TypeOK
  <1> HIDE DEF r
  <1> QED
    BY <1>1, <1>2, <1>3, RunType DEF Fetch, r

LEMMA ReadType ==
    ASSUME IInv, NEW w \in Workers,
           Skip(w) \/ Check(w) \/ LookPrevious(w) \/ SelectPrevious(w)
    PROVE  IInv'
  <1> DEFINE S == [pc : SyncPcs, item : Items, version : Versions, update : BOOLEAN,
                   new : 0..A, left : SUBSET Arts, cur : 0..A]
             r1 == [sync[w] EXCEPT !.pc = "previous"]
             r2 == [sync[w] EXCEPT !.pc = "insert", !.update = last # 0]
             r3 == [sync[w] EXCEPT !.pc = "supersede", !.left = Inserted \ {sync[w].new}]
  <1>1. sync[w] \in S /\ sync[w].left \subseteq Inserted /\ sync[w].cur \in 0..last
        /\ sync[w].new \in 0..last
        /\ (sync[w].new # 0 => art[sync[w].new].item = sync[w].item
                               /\ art[sync[w].new].version = sync[w].version)
    BY DEF IInv, TypeOK, SyncOK, Known
  <1>2. Inserted \subseteq Arts /\ 0 \in 0..last
    BY StoreAssumption DEF IInv, TypeOK, Inserted, Arts
  <1>3. r1 \in S /\ r2 \in S /\ r3 \in S
    BY <1>1, <1>2 DEF SyncPcs
  <1>4. r1.new = sync[w].new /\ r2.new = sync[w].new /\ r3.new = sync[w].new
        /\ r1.left = sync[w].left /\ r2.left = sync[w].left
        /\ r3.left = Inserted \ {sync[w].new}
        /\ r1.cur = sync[w].cur /\ r2.cur = sync[w].cur /\ r3.cur = sync[w].cur
        /\ r1.item = sync[w].item /\ r2.item = sync[w].item /\ r3.item = sync[w].item
        /\ r1.version = sync[w].version /\ r2.version = sync[w].version
        /\ r3.version = sync[w].version
    BY <1>1
  <1>5. \E r \in S : (r = NoSync \/ r = r1 \/ r = r2 \/ r = r3) /\ Becomes(w, r) /\ UNCHANGED NotStored
    BY <1>3, IdleRun DEF Skip, Check, LookPrevious, SelectPrevious
  <1>6. PICK r \in S : (r = NoSync \/ r = r1 \/ r = r2 \/ r = r3) /\ Becomes(w, r) /\ UNCHANGED NotStored
    BY <1>5
  <1>7. r.left \subseteq Inserted /\ r.cur \in 0..last /\ r.new \in 0..last
        /\ (r.new # 0 => art[r.new].item = r.item /\ art[r.new].version = r.version)
    <2> HIDE DEF r1, r2, r3
    <2> QED
      BY <1>1, <1>2, <1>4, <1>6, IdleRun
  <1> HIDE DEF r1, r2, r3
  <1> QED
    BY <1>6, <1>7, RunType

LEMMA InsertFacts ==
    ASSUME IInv, NEW w \in Workers, Insert(w)
    PROVE  /\ last' = last + 1 /\ last' \in Arts /\ last \in Nat
           /\ art'[last'] = [item |-> sync[w].item, version |-> sync[w].version, sup |-> 0]
           /\ \A a \in Arts : a # last' => art'[a] = art[a]
           /\ ppc' = [ppc EXCEPT ![last'] = "queued"]
           /\ sync[w].pc = "insert"
           /\ sync'[w].pc \in {"idle", "select"}
           /\ sync'[w].pc = "select" => sync'[w].new = last'
           /\ \A v \in Workers : v # w => sync'[v] = sync[v]
  BY StoreAssumption DEF IInv, TypeOK, SyncOK, Insert, Becomes, At, Arts, NoSync

LEMMA InsertType ==
    ASSUME IInv, NEW w \in Workers, Insert(w)
    PROVE  IInv'
  <1> DEFINE S == [pc : SyncPcs, item : Items, version : Versions, update : BOOLEAN,
                   new : 0..A, left : SUBSET Arts, cur : 0..A]
             n == last + 1
             r1 == [sync[w] EXCEPT !.pc = "select", !.new = n]
  <1>1. sync[w] \in S /\ sync[w].left \subseteq Inserted /\ sync[w].cur \in 0..last
    BY DEF IInv, TypeOK, SyncOK
  <1>2. n \in Arts /\ n \in 0..A /\ last' = n /\ last \in Nat
    <2>1. last' = n /\ last < A /\ last \in 0..A
      BY DEF Insert, IInv, TypeOK
    <2> QED
      BY <2>1, StoreAssumption DEF Arts
  <1>3. r1 \in S
    BY <1>1, <1>2 DEF SyncPcs
  <1>4. r1.new = n /\ r1.left = sync[w].left /\ r1.cur = sync[w].cur
        /\ r1.item = sync[w].item /\ r1.version = sync[w].version
    BY <1>1
  <1>5. PICK r \in S : (r = NoSync \/ r = r1) /\ Becomes(w, r)
    BY <1>3, IdleRun DEF Insert
  <1>6. SyncOK' /\ \A v \in Workers : sync'[v] = IF v = w THEN r ELSE sync[v]
    BY <1>5 DEF IInv, TypeOK, SyncOK, Becomes
  <1> HIDE DEF r1
  <1>7. /\ r.left \subseteq Inserted' /\ r.cur \in 0..last' /\ r.new \in 0..last'
        /\ r.new # 0 => art'[r.new].item = r.item /\ art'[r.new].version = r.version
    <2>1. Inserted \subseteq Inserted' /\ 0..last \subseteq 0..last'
      BY <1>2 DEF Inserted
    <2> QED
      <3>1. CASE r = NoSync
        BY <1>2, <3>1, IdleRun
      <3>2. CASE r = r1
        <4>1. r.left \subseteq Inserted /\ r.cur \in 0..last /\ r.new = n
              /\ r.item = sync[w].item /\ r.version = sync[w].version
          BY <1>1, <1>4, <3>2
        <4>2. n \in 0..last' /\ n = last'
          BY <1>2
        <4>3. art'[n].item = sync[w].item /\ art'[n].version = sync[w].version
          <5>1. art'[last'] = [item |-> sync[w].item, version |-> sync[w].version, sup |-> 0]
            BY InsertFacts
          <5>2. art'[n] = [item |-> sync[w].item, version |-> sync[w].version, sup |-> 0]
            BY <4>2, <5>1
          <5> QED
            BY <5>2
        <4> QED
          BY <2>1, <4>1, <4>2, <4>3
      <3> QED
        BY <1>5, <3>1, <3>2
  <1>8. \A v \in Workers : v # w =>
            /\ sync[v].left \subseteq Inserted' /\ sync[v].cur \in 0..last' /\ sync[v].new \in 0..last'
            /\ sync[v].new # 0 => /\ art'[sync[v].new].item = sync[v].item
                                  /\ art'[sync[v].new].version = sync[v].version
    <2> SUFFICES ASSUME NEW v \in Workers, v # w
                 PROVE  /\ sync[v].left \subseteq Inserted' /\ sync[v].cur \in 0..last' /\ sync[v].new \in 0..last'
                        /\ sync[v].new # 0 => /\ art'[sync[v].new].item = sync[v].item
                                              /\ art'[sync[v].new].version = sync[v].version
      OBVIOUS
    <2>1. sync[v].left \subseteq Inserted /\ sync[v].cur \in 0..last /\ sync[v].new \in 0..last
          /\ (sync[v].new # 0 => art[sync[v].new].item = sync[v].item
                                 /\ art[sync[v].new].version = sync[v].version)
      BY DEF IInv, TypeOK, Known
    <2>2. sync[v].left \subseteq Inserted' /\ sync[v].cur \in 0..last' /\ sync[v].new \in 0..last'
      BY <1>2, <2>1 DEF Inserted
    <2>3. sync[v].new # 0 => sync[v].new \in Arts /\ sync[v].new # last'
      <3>1. last < A /\ last \in 0..A /\ last' = last + 1
        BY DEF Insert, IInv, TypeOK
      <3> QED
        BY <2>1, <3>1, StoreAssumption DEF Arts
    <2> QED
      BY <2>1, <2>2, <2>3, InsertFacts
  <1>9. art' \in [Arts -> [item : Items, version : Versions, sup : 0..A]]
    BY <1>1, <1>2, StoreAssumption DEF IInv, TypeOK, Insert
  <1>10. ppc' \in [Arts -> ProcPcs]
    BY <1>2 DEF IInv, TypeOK, Insert, ProcPcs
  <1>11. TypeOK'
    BY <1>2, <1>6, <1>7, <1>8, <1>9, <1>10, SMTT(30) DEF IInv, TypeOK, Insert, source, derived
  <1>12. \A a \in Arts : a > last' =>
            ppc'[a] = "new" /\ psup'[a] = 0 /\ frag'[a] = "none" /\ cands'[a] = "none"
    BY <1>2 DEF IInv, TypeOK, Known, Insert, derived, Arts
  <1>13. Known'
    BY <1>6, <1>7, <1>8, <1>12 DEF Known
  <1> QED
    BY <1>11, <1>13 DEF IInv

LEMMA SupersedeType ==
    ASSUME IInv, NEW w \in Workers,
           \/ \E a \in Arts : SupersedeRow(w, a)
           \/ SupersedeFragment(w) \/ SupersedeCandidates(w)
    PROVE  IInv'
  <1> DEFINE S == [pc : SyncPcs, item : Items, version : Versions, update : BOOLEAN,
                   new : 0..A, left : SUBSET Arts, cur : 0..A]
  <1>1. sync[w] \in S /\ sync[w].left \subseteq Inserted /\ sync[w].cur \in 0..last
        /\ sync[w].new \in 0..last
        /\ (sync[w].new # 0 => art[sync[w].new].item = sync[w].item
                               /\ art[sync[w].new].version = sync[w].version)
    BY DEF IInv, TypeOK, SyncOK, Known
  <1>2. Inserted \subseteq Arts /\ 0 \in 0..last /\ last \in Nat /\ 0..last \subseteq 0..A
    BY StoreAssumption DEF IInv, TypeOK, Inserted, Arts
  <1>3. PICK r \in S :
            /\ Becomes(w, r)
            /\ r.left \subseteq Inserted /\ r.cur \in 0..last
            /\ r = NoSync \/ (r.new = sync[w].new /\ r.item = sync[w].item
                               /\ r.version = sync[w].version)
    <2>1. CASE \E a \in Arts : SupersedeRow(w, a)
      <3>1. PICK a \in Arts : SupersedeRow(w, a)
        BY <2>1
      <3> DEFINE r1 == [sync[w] EXCEPT !.pc = "fragments", !.left = @ \ {a}, !.cur = a]
      <3>2. a \in Inserted /\ a \in 0..last
        <4>1. a \in Inserted
          BY <1>1, <3>1 DEF SupersedeRow
        <4> QED
          BY <1>2, <4>1 DEF Inserted
      <3>3. r1 \in S /\ r1.left = sync[w].left \ {a} /\ r1.cur = a /\ r1.new = sync[w].new
            /\ r1.item = sync[w].item /\ r1.version = sync[w].version
        BY <1>1, <1>2, <3>2 DEF SyncPcs
      <3>4. Becomes(w, r1)
        BY <3>1 DEF SupersedeRow
      <3> HIDE DEF r1
      <3> QED
        BY <1>1, <3>2, <3>3, <3>4
    <2>2. CASE SupersedeFragment(w)
      <3> DEFINE r1 == [sync[w] EXCEPT !.pc = "candidates"]
      <3>1. r1 \in S /\ r1.left = sync[w].left /\ r1.cur = sync[w].cur /\ r1.new = sync[w].new
            /\ r1.item = sync[w].item /\ r1.version = sync[w].version
        BY <1>1 DEF SyncPcs
      <3> QED
        BY <1>1, <2>2, <3>1 DEF SupersedeFragment
    <2>3. CASE SupersedeCandidates(w)
      <3> DEFINE r1 == [sync[w] EXCEPT !.pc = "supersede"]
      <3>1. r1 \in S /\ r1.left = sync[w].left /\ r1.cur = sync[w].cur /\ r1.new = sync[w].new
            /\ r1.item = sync[w].item /\ r1.version = sync[w].version
        BY <1>1 DEF SyncPcs
      <3> QED
        BY <1>1, <1>2, <2>3, <3>1, IdleRun DEF SupersedeCandidates
    <2> QED
      BY <2>1, <2>2, <2>3
  <1>4. /\ UNCHANGED <<source, last, proc, faults>>
        /\ \A a \in Arts : art'[a].item = art[a].item /\ art'[a].version = art[a].version
        /\ art' \in [Arts -> [item : Items, version : Versions, sup : 0..A]]
    <2>1. art \in [Arts -> [item : Items, version : Versions, sup : 0..A]] /\ sync[w].new \in 0..A
      BY <1>1 DEF IInv, TypeOK
    <2>2. CASE \E a \in Arts : SupersedeRow(w, a)
      <3>1. PICK a \in Arts : SupersedeRow(w, a)
        BY <2>2
      <3>2. art' = [art EXCEPT ![a].sup = sync[w].new]
            /\ UNCHANGED <<source, last, derived, proc, faults>>
        BY <3>1 DEF SupersedeRow
      <3> QED
        BY <2>1, <3>2
    <2>3. CASE SupersedeFragment(w) \/ SupersedeCandidates(w)
      BY <2>1, <2>3 DEF SupersedeFragment, SupersedeCandidates
    <2> QED
      BY <2>2, <2>3
  <1>5. frag' \in [Arts -> Derived] /\ cands' \in [Arts -> Derived]
    <2>1. CASE SupersedeFragment(w)
      BY <2>1 DEF IInv, TypeOK, SupersedeFragment, Derived
    <2>3. CASE \E a \in Arts : SupersedeRow(w, a)
      BY <2>3 DEF IInv, TypeOK, SupersedeRow, derived
    <2>2. CASE SupersedeCandidates(w)
      BY <2>2 DEF IInv, TypeOK, SupersedeCandidates, Derived
    <2> QED
      BY <2>1, <2>2, <2>3
  <1>6. \A a \in Arts : (frag[a] = "none" => frag'[a] = "none")
                        /\ (cands[a] = "none" => cands'[a] = "none")
    BY DEF IInv, TypeOK, SupersedeRow, SupersedeFragment, SupersedeCandidates, derived
  <1>7. SyncOK' /\ \A v \in Workers : sync'[v] = IF v = w THEN r ELSE sync[v]
    BY <1>3 DEF IInv, TypeOK, SyncOK, Becomes
  <1>8. \A v \in Workers :
            /\ sync'[v].left \subseteq Inserted' /\ sync'[v].cur \in 0..last' /\ sync'[v].new \in 0..last'
            /\ sync'[v].new # 0 => /\ art'[sync'[v].new].item = sync'[v].item
                                   /\ art'[sync'[v].new].version = sync'[v].version
    <2> SUFFICES ASSUME NEW v \in Workers
                 PROVE  /\ sync'[v].left \subseteq Inserted /\ sync'[v].cur \in 0..last /\ sync'[v].new \in 0..last
                        /\ sync'[v].new # 0 => /\ art'[sync'[v].new].item = sync'[v].item
                                               /\ art'[sync'[v].new].version = sync'[v].version
      BY <1>4 DEF Inserted
    <2>1. sync[v].left \subseteq Inserted /\ sync[v].cur \in 0..last /\ sync[v].new \in 0..last
          /\ (sync[v].new # 0 => art[sync[v].new].item = sync[v].item
                                 /\ art[sync[v].new].version = sync[v].version)
      BY DEF IInv, TypeOK, Known
    <2>2. sync'[v].left \subseteq Inserted /\ sync'[v].cur \in 0..last /\ sync'[v].new \in 0..last
          /\ (sync'[v].new # 0 => art[sync'[v].new].item = sync'[v].item
                                  /\ art[sync'[v].new].version = sync'[v].version)
      BY <1>1, <1>2, <1>3, <1>7, <2>1, IdleRun
    <2>3. sync'[v].new # 0 => sync'[v].new \in Arts
      BY <1>2, <2>2 DEF Arts
    <2> QED
      BY <1>4, <2>2, <2>3
  <1>9. TypeOK'
    BY <1>4, <1>5, <1>7, <1>8 DEF IInv, TypeOK, source, proc
  <1>10. Known'
    BY <1>4, <1>6, <1>8 DEF IInv, Known, proc
  <1> QED
    BY <1>9, <1>10 DEF IInv

LEMMA FaultType ==
    ASSUME IInv, NEW w \in Workers, SyncFault(w)
    PROVE  IInv'
  <1>1. \A v \in Workers : sync'[v] = IF v = w THEN NoSync ELSE sync[v]
    BY DEF IInv, TypeOK, SyncOK, SyncFault, Becomes
  <1>2. SyncOK'
    BY IdleRun DEF IInv, TypeOK, SyncOK, SyncFault, Becomes
  <1>3. faults' \in 0..MaxFaults
    BY StoreAssumption DEF IInv, TypeOK, SyncFault
  <1>4. TypeOK'
    BY <1>1, <1>2, <1>3, IdleRun DEF IInv, TypeOK, SyncFault, source, derived, proc, Inserted
  <1>5. Known'
    BY <1>1, IdleRun DEF IInv, TypeOK, Known, SyncFault, derived, proc
  <1> QED
    BY <1>4, <1>5 DEF IInv

LEMMA EditType ==
    ASSUME IInv, NEW i \in Items, NEW v \in Versions, Edit(i, v)
    PROVE  IInv'
  <1>1. content' \in [Items -> Versions] /\ edits' \in 0..MaxEdits
    BY StoreAssumption DEF IInv, TypeOK, Edit
  <1>2. TypeOK'
    BY <1>1 DEF IInv, TypeOK, SyncOK, Edit, derived, proc, Inserted
  <1>3. Known'
    BY DEF IInv, Known, Edit, derived, proc
  <1> QED
    BY <1>2, <1>3 DEF IInv

\* Processing writes one artifact that was inserted; of the row only the mark.
LEMMA ProcessFacts ==
    ASSUME IInv, NEW a \in Arts, ProcessStep(a)
    PROVE  /\ a <= last
           /\ UNCHANGED NotRow
           /\ \A b \in Arts : art'[b].item = art[b].item /\ art'[b].version = art[b].version
           /\ \A b \in Arts : b # a => /\ art'[b] = art[b] /\ ppc'[b] = ppc[b] /\ psup'[b] = psup[b]
                                       /\ frag'[b] = frag[b] /\ cands'[b] = cands[b]
           /\ art'[a].sup \in {art[a].sup, psup[a]} /\ psup'[a] \in {art[a].sup, psup[a]}
           /\ frag'[a] \in {frag[a], "live"} /\ cands'[a] \in {cands[a], "live"}
           /\ ppc'[a] \in ProcPcs
           /\ art' \in [Arts -> [item : Items, version : Versions, sup : 0..A]]
           /\ ppc' \in [Arts -> ProcPcs] /\ psup' \in [Arts -> 0..A]
           /\ frag' \in [Arts -> Derived] /\ cands' \in [Arts -> Derived]
  <1>1. a <= last
    BY DEF IInv, TypeOK, Known, Arts, ProcessStep, ClaimRow, CreateFragment, CompleteRow, LoadContext,
           MarkIntelligence, PersistCandidates, FinalRead, FinalWrite
  <1>2. CASE ClaimRow(a) \/ LoadContext(a) \/ FinalRead(a)
    BY <1>1, <1>2 DEF IInv, TypeOK, ClaimRow, LoadContext, FinalRead, PGoto, ProcPcs, derived, NotRow
  <1>3. CASE CompleteRow(a) \/ MarkIntelligence(a) \/ FinalWrite(a)
    <2>1. /\ art' = [art EXCEPT ![a].sup = psup[a]]
          /\ UNCHANGED <<frag, cands, psup, NotRow>>
          /\ \E l \in ProcPcs : ppc' = [ppc EXCEPT ![a] = l]
      BY <1>3 DEF CompleteRow, MarkIntelligence, FinalWrite, PGoto, ProcPcs, derived
    <2>2. art \in [Arts -> [item : Items, version : Versions, sup : 0..A]] /\ psup[a] \in 0..A
          /\ ppc \in [Arts -> ProcPcs]
      BY DEF IInv, TypeOK
    <2>3. /\ art' \in [Arts -> [item : Items, version : Versions, sup : 0..A]]
          /\ \A b \in Arts : art'[b].item = art[b].item /\ art'[b].version = art[b].version
          /\ \A b \in Arts : b # a => art'[b] = art[b]
          /\ art'[a].sup = psup[a]
      BY <2>1, <2>2
    <2>4. ppc' \in [Arts -> ProcPcs] /\ \A b \in Arts : b # a => ppc'[b] = ppc[b]
      BY <2>1, <2>2
    <2> QED
      BY <1>1, <2>1, <2>3, <2>4 DEF IInv, TypeOK
  <1>4. CASE CreateFragment(a) \/ PersistCandidates(a)
    BY <1>1, <1>4 DEF IInv, TypeOK, CreateFragment, PersistCandidates, PGoto, ProcPcs, Derived, derived, NotRow
  <1> QED
    BY <1>2, <1>3, <1>4 DEF ProcessStep

LEMMA ProcessType ==
    ASSUME IInv, NEW a \in Arts, ProcessStep(a)
    PROVE  IInv'
  <1> USE ProcessFacts
  <1>1. UNCHANGED NotRow
    OBVIOUS
  <1>2. \A w \in Workers : sync[w].new # 0 => sync[w].new \in Arts
    BY StoreAssumption DEF IInv, TypeOK, SyncOK, Arts
  <1>3. TypeOK'
    BY <1>1, <1>2 DEF IInv, TypeOK, SyncOK, NotRow, source, Inserted
  <1>4. Known'
    BY <1>1 DEF IInv, TypeOK, Known, NotRow, Arts
  <1> QED
    BY <1>3, <1>4 DEF IInv

LEMMA StepHolds == IInv /\ [Next]_vars => IInv'
  <1> SUFFICES ASSUME IInv, [Next]_vars PROVE IInv'
    OBVIOUS
  <1>1. CASE UNCHANGED vars
    BY <1>1 DEF IInv, TypeOK, SyncOK, Known, Inserted, vars, source, derived, proc
  <1>2. CASE \E i \in Items, v \in Versions : Edit(i, v)
    BY <1>2, EditType
  <1>3. CASE \E w \in Workers, i \in Items : Fetch(w, i)
    BY <1>3, FetchType
  <1>4. CASE \E w \in Workers : SyncStep(w) \/ SyncFault(w)
    BY <1>4, ReadType, InsertType, SupersedeType, FaultType DEF SyncStep
  <1>5. CASE \E a \in Arts : ProcessStep(a)
    BY <1>5, ProcessType
  <1> QED
    BY <1>1, <1>2, <1>3, <1>4, <1>5 DEF Next

-----------------------------------------------------------------------------
(* One artifact per content *)

\* The contents that are in the table.
LEMMA OneRunCompares ==
    ASSUME OneRun, OneRunInv, [Next]_vars
    PROVE  Compared' /\ StoredOnce'
  <1> USE DEF OneRunInv
  <1> DEFINE Same == /\ last' = last
                     /\ \A a \in Arts : art'[a].item = art[a].item /\ art'[a].version = art[a].version
  <1>0. Inserted \subseteq Arts /\ last \in Nat
    BY StoreAssumption DEF IInv, TypeOK, Inserted, Arts
  <1>1. ASSUME Same PROVE StoredOnce' /\ Inserted' = Inserted
    BY <1>0, <1>1 DEF StoredOnce, Inserted
  <1>2. ASSUME Same, UNCHANGED sync PROVE Compared'
    BY <1>0, <1>2 DEF Compared, Unchanged, Inserted
  <1>3. CASE UNCHANGED vars
    BY <1>1, <1>2, <1>3 DEF vars
  <1>4. CASE \E i \in Items, v \in Versions : Edit(i, v)
    BY <1>1, <1>2, <1>4 DEF Edit
  <1>5. CASE \E a \in Arts : ProcessStep(a)
    <2>1. Same /\ UNCHANGED sync
      BY <1>5, ProcessFacts DEF NotRow
    <2> QED
      BY <1>1, <1>2, <2>1
  <1>6. ASSUME NEW w \in Workers, (\E i \in Items : Fetch(w, i)) \/ SyncStep(w) \/ SyncFault(w)
        PROVE  Compared' /\ StoredOnce'
    <2>0. sync \in [Workers -> [pc : SyncPcs, item : Items, version : Versions, update : BOOLEAN,
                                new : 0..A, left : SUBSET Arts, cur : 0..A]]
      BY DEF IInv, TypeOK, SyncOK
    <2>1. ASSUME Same, sync'[w].pc \notin {"previous", "insert"} PROVE Compared'
      BY <2>1 DEF Compared, OneRun
    <2>2. ASSUME Same, sync'[w].item = sync[w].item, sync'[w].version = sync[w].version,
                 ~Unchanged(w)
          PROVE  Compared'
      BY <1>0, <2>2 DEF Compared, OneRun, Unchanged, Inserted
    <2>3. CASE (\E i \in Items : Fetch(w, i)) \/ Skip(w) \/ SelectPrevious(w) \/ SyncFault(w)
      <3>1. Same /\ sync'[w].pc \notin {"previous", "insert"}
        <4>1. UNCHANGED <<last, art>>
          BY <2>3 DEF Fetch, Skip, SelectPrevious, SyncFault, NotStored
        <4>2. CASE \E i \in Items : Fetch(w, i)
          BY <2>0, <4>1, <4>2, IdleRun DEF Fetch, Becomes
        <4>3. CASE Skip(w) \/ SyncFault(w)
          BY <2>0, <4>1, <4>3, IdleRun DEF Skip, SyncFault, Becomes
        <4>4. CASE SelectPrevious(w)
          BY <2>0, <4>1, <4>4 DEF SelectPrevious, Becomes
        <4> QED
          BY <2>3, <4>2, <4>3, <4>4
      <3> QED
        BY <1>1, <2>1, <3>1
    <2>4. CASE Check(w) \/ LookPrevious(w)
      <3>1. Same /\ sync'[w].item = sync[w].item /\ sync'[w].version = sync[w].version /\ ~Unchanged(w)
        BY <2>0, <2>4, ZenonT(30) DEF Check, LookPrevious, Becomes, NotStored, At, Compared
      <3> QED
        BY <1>1, <2>2, <3>1
    <2>5. CASE (\E a \in Arts : SupersedeRow(w, a)) \/ SupersedeFragment(w) \/ SupersedeCandidates(w)
      <3>1. art \in [Arts -> [item : Items, version : Versions, sup : 0..A]]
        BY DEF IInv, TypeOK
      <3>2. CASE \E a \in Arts : SupersedeRow(w, a)
        <4>1. PICK a \in Arts : SupersedeRow(w, a)
          BY <3>2
        <4>2. last' = last /\ art' = [art EXCEPT ![a].sup = sync[w].new]
          BY <4>1 DEF SupersedeRow
        <4>3. Same
          BY <3>1, <4>2
        <4>4. sync'[w].pc \notin {"previous", "insert"}
          BY <2>0, <4>1 DEF SupersedeRow, Becomes
        <4> QED
          BY <1>1, <2>1, <4>3, <4>4
      <3>3. CASE SupersedeFragment(w) \/ SupersedeCandidates(w)
        <4>1. Same
          BY <3>3 DEF SupersedeFragment, SupersedeCandidates
        <4>2. sync'[w].pc \notin {"previous", "insert"}
          BY <2>0, <3>3, IdleRun DEF SupersedeFragment, SupersedeCandidates, Becomes
        <4> QED
          BY <1>1, <2>1, <4>1, <4>2
      <3> QED
        BY <2>5, <3>2, <3>3
    <2>6. CASE Insert(w)
      <3>1. /\ last' = last + 1 /\ last' \in Arts
            /\ art'[last'] = [item |-> sync[w].item, version |-> sync[w].version, sup |-> 0]
            /\ \A a \in Arts : a # last' => art'[a] = art[a]
            /\ sync'[w].pc \in {"idle", "select"}
        BY <2>6, InsertFacts
      <3>2. ~Unchanged(w)
        BY <2>6 DEF Compared, Insert, At
      <3>3. Inserted' = Inserted \cup {last'} /\ last' \notin Inserted
        BY <1>0, <3>1 DEF Inserted
      <3>4. \A a \in Inserted : art'[a] = art[a]
        BY <1>0, <3>1, <3>3
      <3>5. \A a \in Inserted : ~(art[a].item = sync[w].item /\ art[a].version = sync[w].version)
        BY <3>2 DEF Unchanged
      <3>6. StoredOnce'
        BY <3>1, <3>3, <3>4, <3>5 DEF StoredOnce
      <3>7. Compared'
        BY <3>1 DEF Compared, OneRun
      <3> QED
        BY <3>6, <3>7
    <2> QED
      BY <1>6, <2>3, <2>4, <2>5, <2>6 DEF SyncStep
  <1> QED
    BY <1>3, <1>4, <1>5, <1>6 DEF Next

-----------------------------------------------------------------------------
(* The newest artifact is served *)

LEMMA OneRunServes ==
    ASSUME OneRun, OneRunInv, [Next]_vars
    PROVE  NewestServes'
  <1> USE DEF OneRunInv
  <1>0. /\ last # 0 => last \in Arts
        /\ last \in Nat
    BY StoreAssumption DEF IInv, TypeOK, Arts
  <1>1. CASE UNCHANGED vars \/ \E i \in Items, v \in Versions : Edit(i, v)
    BY <1>1 DEF NewestServes, Retired, Edit, vars, derived, proc, source
  <1>2. CASE \E a \in Arts : ProcessStep(a)
    <2>1. PICK a \in Arts : ProcessStep(a)
      BY <1>2
    <2>2. last # 0 => ~Retired(last)' /\ psup'[last] = 0
      <3> SUFFICES ASSUME last # 0 PROVE ~Retired(last)' /\ psup'[last] = 0
        OBVIOUS
      <3>1. last \in Arts /\ art[last].sup = 0 /\ psup[last] = 0
            /\ frag[last] # "superseded" /\ cands[last] # "superseded"
        BY <1>0 DEF NewestServes, Retired
      <3>2. art'[last].sup = 0 /\ psup'[last] = 0
            /\ frag'[last] # "superseded" /\ cands'[last] # "superseded" /\ last' = last
        <4>1. CASE a = last
          BY <2>1, <3>1, <4>1, ProcessFacts DEF NotRow
        <4>2. CASE a # last
          BY <2>1, <3>1, <4>2, ProcessFacts DEF NotRow
        <4> QED
          BY <4>1, <4>2
      <3> QED
        BY <3>2 DEF Retired
    <2>3. last' = last /\ sync' = sync
      BY <2>1, ProcessFacts DEF NotRow
    <2> QED
      BY <2>2, <2>3 DEF NewestServes, Retired
  <1>3. ASSUME NEW w \in Workers, (\E i \in Items : Fetch(w, i)) \/ SyncStep(w) \/ SyncFault(w)
        PROVE  NewestServes'
    <2>0. sync \in [Workers -> [pc : SyncPcs, item : Items, version : Versions, update : BOOLEAN,
                                new : 0..A, left : SUBSET Arts, cur : 0..A]]
      BY DEF IInv, TypeOK, SyncOK
    <2>1. CASE (\E i \in Items : Fetch(w, i)) \/ Skip(w) \/ Check(w) \/ LookPrevious(w) \/ SyncFault(w)
      <3>1. sync'[w].pc \notin Superseding /\ UNCHANGED <<last, art, frag, cands, psup>>
        <4>1. UNCHANGED <<last, art, frag, cands, psup>>
          BY <2>1 DEF Fetch, Skip, Check, LookPrevious, SyncFault, NotStored, derived, proc
        <4>2. CASE \E i \in Items : Fetch(w, i)
          BY <2>0, <4>1, <4>2, IdleRun DEF Fetch, Becomes, Superseding
        <4>3. CASE Skip(w) \/ SyncFault(w)
          BY <2>0, <4>1, <4>3, IdleRun DEF Skip, SyncFault, Becomes, Superseding
        <4>4. CASE Check(w) \/ LookPrevious(w)
          <5>1. sync'[w].pc \in {"previous", "insert"}
            BY <2>0, <4>4 DEF Check, LookPrevious, Becomes
          <5> QED
            BY <4>1, <5>1 DEF Superseding
        <4> QED
          BY <2>1, <4>2, <4>3, <4>4
      <3> QED
        BY <3>1 DEF NewestServes, Retired, OneRun
    <2>2. CASE Insert(w)
      <3>1. /\ last' = last + 1 /\ last' \in Arts
            /\ art'[last'] = [item |-> sync[w].item, version |-> sync[w].version, sup |-> 0]
            /\ sync'[w].pc \in {"idle", "select"}
            /\ sync'[w].pc = "select" => sync'[w].new = last'
        BY <2>2, InsertFacts
      <3>2. psup'[last'] = 0 /\ frag'[last'] = "none" /\ cands'[last'] = "none"
        BY <1>0, <2>2, <3>1 DEF IInv, Known, Insert, derived
      <3> QED
        <4>1. art'[last'].sup = 0 /\ last' # 0
          BY <1>0, <3>1
        <4>2. ~Retired(last)'
          BY <3>2, <4>1 DEF Retired
        <4>3. sync'[w].pc \in Superseding => sync'[w].pc = "select" /\ sync'[w].new = last'
          BY <3>1 DEF Superseding
        <4> QED
          BY <3>2, <4>1, <4>2, <4>3 DEF NewestServes, OneRun
    <2>3. CASE SelectPrevious(w)
      <3>1. /\ sync'[w].pc = "supersede" /\ sync'[w].new = sync[w].new
            /\ sync'[w].left = Inserted \ {sync[w].new}
            /\ sync[w].pc = "select"
            /\ UNCHANGED <<last, art, frag, cands, psup>>
        BY <2>0, <2>3 DEF SelectPrevious, Becomes, NotStored, derived, proc, At
      <3> QED
        BY <3>1 DEF NewestServes, Retired, OneRun, Superseding
    <2>4. ASSUME NEW a \in Arts, SupersedeRow(w, a) PROVE NewestServes'
      <3>1. /\ sync'[w].pc = "fragments" /\ sync'[w].new = sync[w].new
            /\ sync'[w].left \subseteq sync[w].left /\ sync'[w].cur = a
            /\ sync[w].pc = "supersede" /\ a \in sync[w].left
            /\ UNCHANGED <<last, frag, cands, psup>>
        BY <2>0, <2>4 DEF SupersedeRow, Becomes, derived, proc, At
      <3>2. a # last
        BY <3>1 DEF NewestServes, Superseding
      <3>3. last # 0 => art'[last] = art[last]
        BY <1>0, <2>4, <3>2 DEF SupersedeRow, IInv, TypeOK
      <3> QED
        BY <3>1, <3>2, <3>3 DEF NewestServes, Retired, OneRun, Superseding
    <2>5. CASE SupersedeFragment(w) \/ SupersedeCandidates(w)
      <3>1. /\ sync[w].pc \in {"fragments", "candidates"}
            /\ UNCHANGED <<last, art, psup>>
            /\ \/ sync'[w].pc = "candidates" /\ sync'[w].cur = sync[w].cur
               \/ sync'[w].pc \in {"idle", "supersede"}
            /\ sync'[w].pc # "idle" => sync'[w].new = sync[w].new /\ sync'[w].left = sync[w].left
        BY <2>0, <2>5 DEF SupersedeFragment, SupersedeCandidates, Becomes, derived, proc, At, NoSync
      <3>2. sync[w].cur # last
        BY <3>1 DEF NewestServes, Superseding
      <3>3. last # 0 => frag'[last] = frag[last] /\ cands'[last] = cands[last]
        BY <1>0, <2>5, <3>2 DEF SupersedeFragment, SupersedeCandidates, IInv, TypeOK
      <3> QED
        BY <3>1, <3>2, <3>3 DEF NewestServes, Retired, OneRun, Superseding
    <2> QED
      BY <1>3, <2>1, <2>2, <2>3, <2>4, <2>5 DEF SyncStep
  <1> QED
    BY <1>1, <1>2, <1>3 DEF Next

-----------------------------------------------------------------------------
(* The theorems *)

\* The inductive invariant of any number of runs of one source.
THEOREM Inductive == Spec => []IInv
  <1>1. Init => IInv
    BY InitHolds DEF OneRunInv
  <1> QED
    BY <1>1, StepHolds, PTL DEF Spec

\* The tables, and what runs and processing hold, keep their types, and a run
\* supersedes with the artifact of the content that it fetched.
THEOREM TypeCorrect == Spec => []TypeOK
  <1>1. IInv => TypeOK
    BY DEF IInv
  <1> QED
    BY Inductive, <1>1, PTL

\* The inductive invariant of runs that follow each other.
THEOREM OneRunInductive ==
    ASSUME OneRun PROVE Spec => []OneRunInv
  <1>1. OneRunInv /\ [Next]_vars => OneRunInv'
    <2> SUFFICES ASSUME OneRunInv, [Next]_vars PROVE OneRunInv'
      OBVIOUS
    <2>1. IInv'
      BY StepHolds DEF OneRunInv
    <2> QED
      BY <2>1, OneRunCompares, OneRunServes DEF OneRunInv
  <1> QED
    BY <1>1, InitHolds, PTL DEF Spec

\* When the runs of a source follow each other, one content is stored once, however
\* often they fail and whatever the content was in between (storeConnectorArtifact).
THEOREM ContentIsStoredOnce ==
    ASSUME OneRun PROVE Spec => []StoredOnce
  <1>1. OneRunInv => StoredOnce
    BY DEF OneRunInv
  <1> QED
    BY OneRunInductive, <1>1, PTL

\* When the runs of a source follow each other, one that was imported always has an
\* artifact that is not superseded (supersedePreviousConnectorArtifacts), although
\* processing writes back metadata that it read before.
THEOREM SourceIsServed ==
    ASSUME OneRun PROVE Spec => []AlwaysServed
  <1>1. OneRunInv => AlwaysServed
    <2> SUFFICES ASSUME OneRunInv, last # 0 PROVE \E a \in Inserted : ~Retired(a)
      BY DEF AlwaysServed
    <2>1. last \in Inserted
      BY DEF OneRunInv, IInv, TypeOK, Inserted
    <2> QED
      BY <2>1 DEF OneRunInv, NewestServes
  <1> QED
    BY OneRunInductive, <1>1, PTL
=============================================================================
