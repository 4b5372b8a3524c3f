----------------------- MODULE ConnectorSync_proofs -----------------------
(***************************************************************************)
(* What holds of the sync of an account for every number of slots, passes, *)
(* requests, runs, attempts, failed calls and crashes.                     *)
(*                                                                         *)
(* TypeOK is not inductive: a slot gives its job another attempt, so it    *)
(* must have the job alone (Held), the job must have one left (Jobs), and  *)
(* nobody may enqueue a run that is being executed (Promising).  On that   *)
(* rest two results: OneScheduledRun, by what a pass knows when it inserts *)
(* (Creating), and CursorIsHonest, by what a slot has still to store of    *)
(* what it will write as the cursor (Fetched).                             *)
(***************************************************************************)
EXTENDS ConnectorSync, WellFoundedInduction, TLAPS

\* A slot that executes a run has its job, and has it alone.
Held ==
    /\ \A w \in Slots : slot[w].pc # "idle" =>
           slot[w].run \in Runs /\ job[slot[w].run].state = "active"
    /\ \A v, w \in Slots : (/\ slot[v].pc # "idle" /\ slot[w].pc # "idle"
                            /\ slot[v].run = slot[w].run) => v = w

\* A run that has been inserted is enqueued by the one who inserted it, once.
Promised(r) == r \in Runs /\ run[r].status # "none" /\ job[r].state = "absent"
Promising ==
    /\ \A p \in Passes : pass[p].pc = "enqueue" => Promised(pass[p].run)
    /\ \A u \in Users : user[u].pc = "enqueue" => Promised(user[u].run)
    /\ \A p, q \in Passes : (/\ pass[p].pc = "enqueue" /\ pass[q].pc = "enqueue"
                             /\ pass[p].run = pass[q].run) => p = q
    /\ \A u, v \in Users : (/\ user[u].pc = "enqueue" /\ user[v].pc = "enqueue"
                            /\ user[u].run = user[v].run) => u = v
    /\ \A p \in Passes, u \in Users :
           (pass[p].pc = "enqueue" /\ user[u].pc = "enqueue") => pass[p].run # user[u].run

\* Jobs follow the rows, and one that is executed has an attempt left.
Jobs ==
    \A r \in Runs :
        /\ job[r].state \in {"waiting", "active"} => job[r].attempts < MaxAttempts
        /\ run[r].status = "none" => job[r].state = "absent"
        /\ run[r].status \in {"completed", "failed"} => r \in ended

IInv == TypeOK /\ Held /\ Promising /\ Jobs

SlotRecs == [pc : SlotPcs, run : Runs \cup {0}, since : 0..now, batch : SUBSET (1..now),
             upto : 0..now, left : SUBSET {"account", "source"}]
RunRecs == [status : RunStatus, target : Targets \cup {0}, scheduled : BOOLEAN]
JobRecs == [state : {"absent", "waiting", "active", "completed", "failed"},
            attempts : 0..MaxAttempts, stalled : BOOLEAN]
PassRecs == [pc : {"idle", "find", "create", "enqueue"}, todo : SUBSET Targets,
             run : Runs \cup {0}]
UserRecs == [pc : {"idle", "insert", "enqueue", "done"}, target : Targets \cup {0},
             run : Runs \cup {0}]

-----------------------------------------------------------------------------
(* Helpers *)

LEMMA LeastExists ==
    ASSUME NEW S \in SUBSET Nat, S # {}
    PROVE  \E x \in S : \A y \in S : x <= y
  <1>1. IsWellFoundedOn(OpToRel(<, Nat), Nat)
    BY NatLessThanWellFounded
  <1> DEFINE Less == OpToRel(<, Nat)
  <1>2. \A x, y \in Nat : y < x => <<y, x>> \in Less
    BY DEF OpToRel
  <1>3. IsWellFoundedOn(Less, Nat)
    BY <1>1
  <1> HIDE DEF Less
  <1>4. PICK x \in S : \A y \in S : ~(<<y, x>> \in Less)
    BY <1>3, WFMin
  <1>5. x \in Nat /\ \A y \in S : y \in Nat /\ ~(y < x)
    BY <1>2, <1>4
  <1>6. \A y \in S : x <= y
    BY <1>5
  <1> QED
    BY <1>6

LEMMA MinFacts ==
    ASSUME NEW S \in SUBSET Nat, S # {}
    PROVE  Min(S) \in S /\ \A y \in S : Min(S) <= y
  <1>1. \E x \in S : \A y \in S : x =< y
    BY LeastExists
  <1> QED
    BY <1>1 DEF Min

LEMMA MaxFacts ==
    ASSUME NEW n \in Nat, NEW S \in SUBSET (0..n), S # {}
    PROVE  Max(S) \in S /\ \A y \in S : y <= Max(S)
  <1> DEFINE D == {k \in Nat : \A y \in S : y <= k}
  <1>1. n \in D
    OBVIOUS
  <1>2. PICK m \in D : \A k \in D : m <= k
    BY <1>1, LeastExists
  <1>3. m \in S
    <2>1. SUFFICES ASSUME m \notin S PROVE FALSE
      OBVIOUS
    <2>2. m # 0
      <3>1. PICK y \in S : y \in 0..n /\ y <= m
        BY <1>2
      <3>2. y # m
        BY <2>1
      <3> QED
        BY <3>1, <3>2
    <2>3. m - 1 \in D
      BY <1>2, <2>1, <2>2
    <2> QED
      BY <1>2, <2>3
  <1>4. \E x \in S : \A y \in S : x >= y
    BY <1>2, <1>3
  <1>5. Max(S) \in S /\ \A y \in S : Max(S) >= y
    BY <1>4 DEF Max
  <1> QED
    BY <1>5

LEMMA Types ==
    TypeOK <=> /\ now \in 0..T /\ home \in [Items -> Targets \cup {0}] /\ imported \subseteq 1..now
               /\ account \in [status : {"connected", "paused", "error"}, due : BOOLEAN,
                               cursor : 0..now]
               /\ cursor \in [Targets -> 0..now] /\ ended \subseteq Runs
               /\ run \in [Runs -> RunRecs] /\ job \in [Runs -> JobRecs]
               /\ slot \in [Slots -> SlotRecs] /\ pass \in [Passes -> PassRecs]
               /\ user \in [Users -> UserRecs]
               /\ patches \in 0..MaxPatches /\ faults \in 0..MaxFaults /\ crashes \in 0..MaxCrashes
               /\ skipped \subseteq 1..now /\ overtaken \subseteq Passes /\ raced \subseteq Runs
  BY DEF TypeOK, SlotRecs, RunRecs, JobRecs, PassRecs, UserRecs

LEMMA Constants ==
    /\ T \in Nat /\ R \in Nat /\ MaxFaults \in Nat /\ MaxCrashes \in Nat /\ MaxPatches \in Nat
    /\ Page \in Nat \ {0} /\ MaxAttempts \in Nat \ {0}
    /\ Targets \subseteq Nat /\ 0 \notin Runs
  BY SyncAssumption DEF Targets, Runs

\* What an empty value of each kind is.
LEMMA Empties ==
    ASSUME now \in Nat
    PROVE  Idle \in SlotRecs /\ NoRun \in RunRecs /\ NoJob \in JobRecs /\ IdlePass \in PassRecs
  BY Constants DEF Idle, SlotRecs, SlotPcs, NoRun, RunRecs, RunStatus, NoJob, JobRecs, IdlePass, PassRecs

-----------------------------------------------------------------------------
(* Steps *)

LEMMA InitHolds == Init => IInv
  <1> SUFFICES ASSUME Init PROVE IInv
    OBVIOUS
  <1>1. /\ now \in 0..T /\ home \in [Items -> Targets \cup {0}] /\ imported \subseteq 1..now
        /\ account \in [status : {"connected", "paused", "error"}, due : BOOLEAN, cursor : 0..now]
        /\ cursor \in [Targets -> 0..now] /\ ended \subseteq Runs
    BY Constants DEF Init
  <1>2. run \in [Runs -> RunRecs] /\ job \in [Runs -> JobRecs]
    BY Constants DEF Init, RunRecs, JobRecs, NoRun, NoJob, RunStatus
  <1>3. slot \in [Slots -> SlotRecs] /\ pass \in [Passes -> PassRecs] /\ user \in [Users -> UserRecs]
    BY Constants DEF Init, SlotRecs, SlotPcs, Idle, PassRecs, IdlePass, UserRecs
  <1>4. /\ patches \in 0..MaxPatches /\ faults \in 0..MaxFaults /\ crashes \in 0..MaxCrashes
        /\ skipped \subseteq 1..now /\ overtaken \subseteq Passes /\ raced \subseteq Runs
    BY Constants DEF Init
  <1>5. TypeOK
    BY <1>1, <1>2, <1>3, <1>4, Types
  <1>6. Held /\ Promising /\ Jobs
    BY DEF Init, Held, Promising, Jobs, Idle, IdlePass, NoRun, NoJob
  <1> QED
    BY <1>5, <1>6 DEF IInv

\* A slot goes on with its run.
LEMMA InsideHolds ==
    ASSUME IInv, NEW w \in Slots, slot[w].pc # "idle",
           slot'[w].pc # "idle", slot'[w].run = slot[w].run,
           \A v \in Slots : v # w => slot'[v] = slot[v],
           UNCHANGED <<job, pass, user>>,
           \A r \in Runs : run'[r].status = "none" => run[r].status = "none",
           \A r \in Runs : run'[r].status \in {"completed", "failed"} => r \in ended'
    PROVE  Held' /\ Promising' /\ Jobs'
  <1>1. \A v \in Slots : slot'[v].run = slot[v].run /\ (slot'[v].pc # "idle" <=> slot[v].pc # "idle")
    OBVIOUS
  <1>2. Held'
    BY <1>1 DEF IInv, Held
  <1>3. \A r : Promised(r) => Promised(r)'
    BY DEF Promised
  <1>4. Promising'
    BY <1>3 DEF IInv, Promising
  <1>5. Jobs'
    BY DEF IInv, Jobs
  <1> QED
    BY <1>2, <1>4, <1>5

\* The records a slot passes through.
LEMMA SlotMoves ==
    ASSUME IInv, NEW w \in Slots,
           SlotStep(w) \/ TryFault(w)
    PROVE  Return(w) \/
           (/\ slot[w].pc # "idle" /\ slot'[w].pc # "idle" /\ slot'[w].run = slot[w].run
            /\ \A v \in Slots : v # w => slot'[v] = slot[v]
            /\ UNCHANGED <<job, pass, user>>)
  <1>1. slot \in [Slots -> SlotRecs]
    BY Types DEF IInv
  <1>2. CASE MarkProcessing(w) \/ RecordStarted(w) \/ FailRun(w) \/ FailAccount(w)
    BY <1>1, <1>2 DEF MarkProcessing, RecordStarted, FailRun, FailAccount, At, Goto, NotSlot, SlotRecs
  <1>3. CASE Load(w)
    BY <1>1, <1>3 DEF Load, At, NotSlot, SlotRecs
  <1>4. CASE Fetch(w)
    <2> DEFINE b == Newest(Newer(w))
               m == Max0(Newer(w) \cup {slot[w].since})
    <2>1. slot[w].pc = "fetch" /\ UNCHANGED <<job, pass, user>>
      BY <1>4 DEF Fetch, At, NotSlot
    <2>2. \E label \in {"complete", "store"} :
              slot' = [slot EXCEPT ![w].pc = label, ![w].batch = b, ![w].upto = m]
      BY <1>4 DEF Fetch
    <2> HIDE DEF b, m
    <2> QED
      BY <1>1, <2>1, <2>2 DEF SlotRecs
  <1>5. CASE \E t \in Items : Store(w, t) \/ StoreFails(w, t)
    BY <1>1, <1>5 DEF Store, StoreFails, Stored, At, NotSlot, SlotRecs
  <1>6. CASE Complete(w)
    BY <1>1, <1>6 DEF Complete, At, NotSlot, SlotRecs
  <1>7. CASE \E part \in {"account", "source"} : StampPart(w, part)
    BY <1>1, <1>7 DEF StampPart, At, NotSlot, SlotRecs
  <1>8. CASE TryFault(w)
    BY <1>1, <1>8 DEF TryFault, InTry, Idle, NotSlot, SlotRecs
  <1> QED
    BY <1>2, <1>3, <1>4, <1>5, <1>6, <1>7, <1>8 DEF SlotStep

\* What they do to the rows of the runs.
LEMMA RunMoves ==
    ASSUME IInv, NEW w \in Slots,
           SlotStep(w) \/ TryFault(w)
    PROVE  /\ run' \in [Runs -> RunRecs] /\ ended' \subseteq Runs
           /\ \A r \in Runs : run'[r].status = "none" => run[r].status = "none"
           /\ \A r \in Runs : run'[r].status \in {"completed", "failed"} => r \in ended'
  <1>1. run \in [Runs -> RunRecs] /\ ended \subseteq Runs
        /\ \A r \in Runs : run[r].status \in {"completed", "failed"} => r \in ended
    BY Types DEF IInv, Jobs
  <1>2. CASE UNCHANGED <<run, ended>>
    BY <1>1, <1>2
  <1> DEFINE x == slot[w].run
  <1>3. ASSUME NEW st \in {"processing", "completed", "failed"}, x \in Runs,
               run' = [run EXCEPT ![x].status = st],
               ended \subseteq ended', ended' \subseteq Runs, st # "processing" => x \in ended'
        PROVE  /\ run' \in [Runs -> RunRecs] /\ ended' \subseteq Runs
               /\ \A r \in Runs : run'[r].status = "none" => run[r].status = "none"
               /\ \A r \in Runs : run'[r].status \in {"completed", "failed"} => r \in ended'
    BY <1>1, <1>3 DEF RunRecs, RunStatus
  <1>4. slot[w].pc # "idle" => x \in Runs
    BY DEF IInv, Held
  <1>5. CASE MarkProcessing(w)
    BY <1>1, <1>3, <1>4, <1>5 DEF MarkProcessing, SetRun, At
  <1>6. CASE Complete(w)
    BY <1>1, <1>3, <1>4, <1>6 DEF Complete, EndRun, SetRun, At
  <1>7. CASE FailRun(w)
    BY <1>1, <1>3, <1>4, <1>7 DEF FailRun, EndRun, SetRun, At
  <1>8. CASE RecordStarted(w) \/ Load(w) \/ Fetch(w) \/ FailAccount(w) \/ Return(w) \/ TryFault(w)
    BY <1>2, <1>8 DEF RecordStarted, Load, Fetch, FailAccount, Return, TryFault, tables
  <1>9. CASE \E t \in Items : Store(w, t) \/ StoreFails(w, t)
    BY <1>2, <1>9 DEF Store, StoreFails, tables
  <1>10. CASE \E part \in {"account", "source"} : StampPart(w, part)
    BY <1>2, <1>10 DEF StampPart
  <1> QED
    BY <1>5, <1>6, <1>7, <1>8, <1>9, <1>10 DEF SlotStep

\* What a slot takes from the provider, and from the batch it has fetched.
LEMMA FetchFacts ==
    ASSUME TypeOK, NEW w \in Slots
    PROVE  /\ Newer(w) \in SUBSET (1..now) /\ Newest(Newer(w)) \in SUBSET (1..now)
           /\ Max0(Newer(w) \cup {slot[w].since}) \in 0..now
           /\ \A t \in Newer(w) : t <= Max0(Newer(w) \cup {slot[w].since})
           /\ Newer(w) = {} => Max0(Newer(w) \cup {slot[w].since}) = slot[w].since
           /\ slot[w].run \in Runs => Start(TargetOf(w)) \in 0..now
  <1> DEFINE S == Newer(w) \cup {slot[w].since}
  <1>1. now \in Nat /\ slot[w].since \in 0..now
    BY Types, Constants DEF SlotRecs
  <1>2. Newer(w) \in SUBSET (1..now)
    BY DEF Newer
  <1>3. Newest(Newer(w)) \in SUBSET (1..now)
    BY <1>2 DEF Newest
  <1>4. S \in SUBSET (0..now) /\ S # {}
    BY <1>1, <1>2
  <1>5. Max(S) \in S /\ \A y \in S : y <= Max(S)
    BY <1>1, <1>4, MaxFacts
  <1>6. Max0(S) = Max(S)
    BY <1>4 DEF Max0
  <1>7. ASSUME slot[w].run \in Runs PROVE Start(TargetOf(w)) \in 0..now
    <2>1. account.cursor \in 0..now /\ \A s \in Targets : cursor[s] \in 0..now
      BY Types
    <2>2. TargetOf(w) \in Targets \cup {0}
      BY <1>7, Types DEF RunRecs, TargetOf
    <2> QED
      BY <2>1, <2>2 DEF Start
  <1> QED
    BY <1>2, <1>3, <1>4, <1>5, <1>6, <1>7

LEMMA BatchFacts ==
    ASSUME TypeOK, NEW w \in Slots, NEW t \in Items, t = Min0(slot[w].batch)
    PROVE  t \in slot[w].batch /\ t \in 1..now
  <1>1. slot[w].batch \in SUBSET (1..now) /\ now \in Nat
    BY Types, Constants DEF SlotRecs
  <1>2. t # 0
    BY Constants DEF Items
  <1>3. slot[w].batch # {} /\ t = Min(slot[w].batch)
    BY <1>2 DEF Min0
  <1> QED
    BY <1>1, <1>3, MinFacts

\* What a slot does to the tables, and the record it leaves.
LEMMA SlotTypes ==
    ASSUME IInv, NEW w \in Slots,
           SlotStep(w) \/ TryFault(w)
    PROVE  TypeOK'
  <1>1. UNCHANGED NotSlot
    BY DEF SlotStep, MarkProcessing, RecordStarted, Load, Fetch, Store, StoreFails, Complete, StampPart,
           FailRun, FailAccount, Return, TryFault
  <1>2. TypeOK /\ slot \in [Slots -> SlotRecs] /\ now \in Nat /\ (slot[w].pc # "idle" => slot[w].run \in Runs)
    BY Types, Constants DEF IInv, Held
  <1>3. slot' \in [Slots -> SlotRecs]
    <2>11. ASSUME NEW rec \in SlotRecs, slot' = [slot EXCEPT ![w] = rec]
           PROVE  slot' \in [Slots -> SlotRecs]
      BY <1>2, <2>11
    <2>12. /\ slot[w].since \in 0..now /\ slot[w].batch \in SUBSET (1..now)
           /\ slot[w].upto \in 0..now /\ slot[w].left \in SUBSET {"account", "source"}
      BY <1>2 DEF SlotRecs
    <2>1. CASE MarkProcessing(w) \/ RecordStarted(w) \/ FailRun(w) \/ FailAccount(w)
      BY <1>2, <2>1 DEF MarkProcessing, RecordStarted, FailRun, FailAccount, Goto, SlotRecs, SlotPcs
    <2>2. CASE Load(w)
      <3>1. Start(TargetOf(w)) \in 0..now
        BY <1>2, <2>2, FetchFacts DEF Load, At
      <3>2. slot' = [slot EXCEPT ![w] = [slot[w] EXCEPT !.pc = "fetch", !.since = Start(TargetOf(w))]]
        BY <1>2, <2>2 DEF Load
      <3>3. [slot[w] EXCEPT !.pc = "fetch", !.since = Start(TargetOf(w))] \in SlotRecs
        BY <1>2, <3>1 DEF SlotRecs, SlotPcs
      <3> QED
        BY <2>11, <3>2, <3>3
    <2>3. CASE Fetch(w)
      <3> DEFINE pc == IF Newer(w) = {} THEN "complete" ELSE "store"
                 m == Max0(Newer(w) \cup {slot[w].since})
      <3>1. pc \in SlotPcs /\ Newest(Newer(w)) \in SUBSET (1..now) /\ m \in 0..now
        BY <1>2, FetchFacts DEF SlotPcs
      <3>2. slot' = [slot EXCEPT ![w] = [slot[w] EXCEPT !.pc = pc, !.batch = Newest(Newer(w)), !.upto = m]]
        BY <1>2, <2>3 DEF Fetch
      <3> HIDE DEF pc, m
      <3>3. [slot[w] EXCEPT !.pc = pc, !.batch = Newest(Newer(w)), !.upto = m] \in SlotRecs
        BY <1>2, <3>1 DEF SlotRecs
      <3> QED
        BY <2>11, <3>2, <3>3
    <2>4. CASE \E t \in Items : Store(w, t) \/ StoreFails(w, t)
      BY <1>2, <2>4 DEF Store, StoreFails, Stored, SlotRecs, SlotPcs
    <2>5. CASE Complete(w)
      <3> DEFINE left == {"account"} \cup (IF TargetOf(w) = 0 THEN {} ELSE {"source"})
      <3>1. slot' = [slot EXCEPT ![w] = [slot[w] EXCEPT !.pc = "stamp", !.left = left]]
        BY <1>2, <2>5 DEF Complete
      <3>2. left \in SUBSET {"account", "source"}
        OBVIOUS
      <3> HIDE DEF left
      <3>3. [slot[w] EXCEPT !.pc = "stamp", !.left = left] \in SlotRecs
        BY <1>2, <3>2 DEF SlotRecs, SlotPcs
      <3> QED
        BY <2>11, <3>1, <3>3
    <2>6. CASE \E part \in {"account", "source"} : StampPart(w, part)
      <3>1. PICK part \in {"account", "source"} : StampPart(w, part)
        BY <2>6
      <3> DEFINE pc == IF slot[w].left = {part} THEN "audit" ELSE "stamp"
                 left == slot[w].left \ {part}
      <3>2. slot' = [slot EXCEPT ![w] = [slot[w] EXCEPT !.pc = pc, !.left = left]]
        BY <1>2, <3>1 DEF StampPart
      <3>3. pc \in SlotPcs /\ left \in SUBSET {"account", "source"}
        BY <2>12 DEF SlotPcs
      <3> HIDE DEF pc, left
      <3>4. [slot[w] EXCEPT !.pc = pc, !.left = left] \in SlotRecs
        BY <1>2, <3>3 DEF SlotRecs
      <3> QED
        BY <2>11, <3>2, <3>4
    <2>7. CASE Return(w)
      BY <1>2, <2>7, Empties DEF Return
    <2>8. CASE TryFault(w)
      <3>1. slot' = [slot EXCEPT ![w] = [Idle EXCEPT !.pc = "fail_run", !.run = slot[w].run]]
        BY <2>8 DEF TryFault
      <3>3. [Idle EXCEPT !.pc = "fail_run", !.run = slot[w].run] \in SlotRecs
        BY <1>2, <2>8, Empties DEF SlotRecs, SlotPcs, TryFault, InTry
      <3> QED
        BY <2>11, <3>1, <3>3
    <2> QED
      BY <2>1, <2>2, <2>3, <2>4, <2>5, <2>6, <2>7, <2>8 DEF SlotStep
  <1>4. imported' \subseteq 1..now
    <2>1. imported \subseteq 1..now
      BY <1>2, Types
    <2>2. CASE UNCHANGED imported
      BY <2>1, <2>2
    <2>3. ASSUME NEW t \in Items, Store(w, t) PROVE imported' \subseteq 1..now
      BY <1>2, <2>1, <2>3, BatchFacts DEF Store
    <2> QED
      BY <2>2, <2>3 DEF SlotStep, MarkProcessing, RecordStarted, Load, Fetch, StoreFails, Complete, StampPart,
           FailRun, FailAccount, Return, TryFault, stored
  <1>5. /\ account' \in [status : {"connected", "paused", "error"}, due : BOOLEAN, cursor : 0..now]
        /\ cursor' \in [Targets -> 0..now]
    <2>1. /\ account \in [status : {"connected", "paused", "error"}, due : BOOLEAN, cursor : 0..now]
          /\ cursor \in [Targets -> 0..now]
      BY <1>2, Types
    <2>2. CASE UNCHANGED <<account, cursor>>
      BY <2>1, <2>2
    <2>3. ASSUME NEW parts, Stamp(w, parts)
          PROVE  /\ account' \in [status : {"connected", "paused", "error"}, due : BOOLEAN, cursor : 0..now]
                 /\ cursor' \in [Targets -> 0..now]
      <3>1. slot[w].upto \in 0..now
        BY <1>2 DEF SlotRecs
      <3> QED
        BY <2>1, <2>3, <3>1 DEF Stamp
    <2>4. CASE FailAccount(w)
      BY <2>1, <2>4 DEF FailAccount
    <2> QED
      BY <2>2, <2>3, <2>4 DEF SlotStep, MarkProcessing, RecordStarted, Load, Fetch, Store, StoreFails, Complete,
           StampPart, FailRun, Return, TryFault, tables
  <1>6. job' \in [Runs -> JobRecs]
    <2>1. job \in [Runs -> JobRecs]
      BY <1>2, Types
    <2>2. CASE Return(w)
      BY <2>1, <2>2 DEF Return, JobRecs
    <2>3. CASE ~Return(w)
      BY <2>1, <2>3, SlotMoves
    <2> QED
      BY <2>2, <2>3
  <1>7. faults' \in 0..MaxFaults
    <2>1. faults \in 0..MaxFaults
      BY <1>2, Types
    <2>2. faults' = faults \/ (faults < MaxFaults /\ faults' = faults + 1)
      BY DEF SlotStep, MarkProcessing, RecordStarted, Load, Fetch, Store, StoreFails, Complete, StampPart,
           FailRun, FailAccount, Return, TryFault
    <2> QED
      BY <2>1, <2>2, Constants
  <1>10. skipped' \subseteq 1..now
    <2>1. skipped \subseteq 1..now
      BY <1>2, Types
    <2>2. CASE UNCHANGED skipped
      BY <2>1, <2>2
    <2>3. CASE Load(w)
      <3>1. Elsewhere(TargetOf(w)) \subseteq 1..now
        <4>1. account.cursor \in 0..now
          BY <1>2, Types
        <4> QED
          BY <1>2, <4>1 DEF Elsewhere
      <3> QED
        BY <2>1, <2>3, <3>1 DEF Load
    <2>4. CASE Fetch(w)
      <3>1. Newer(w) \subseteq 1..now
        BY <1>2, FetchFacts
      <3> QED
        BY <2>1, <2>4, <3>1 DEF Fetch
    <2>5. ASSUME NEW t \in Items, StoreFails(w, t) PROVE skipped' \subseteq 1..now
      BY <1>2, <2>1, <2>5, BatchFacts DEF StoreFails
    <2> QED
      BY <2>2, <2>3, <2>4, <2>5 DEF SlotStep, MarkProcessing, RecordStarted, Store, Complete, StampPart,
           FailRun, FailAccount, Return, TryFault, stored
  <1>8. /\ now \in 0..T /\ home \in [Items -> Targets \cup {0}] /\ pass \in [Passes -> PassRecs]
        /\ user \in [Users -> UserRecs] /\ patches \in 0..MaxPatches /\ crashes \in 0..MaxCrashes
        /\ UNCHANGED <<now, home, pass, user, patches, crashes>> /\ SlotRecs' = SlotRecs
        /\ overtaken \subseteq Passes /\ raced \subseteq Runs /\ UNCHANGED <<overtaken, raced>>
    BY <1>1, <1>2, Types DEF NotSlot, provider, races, SlotRecs
  <1>9. run' \in [Runs -> RunRecs] /\ ended' \subseteq Runs
    BY RunMoves
  <1> QED
    BY <1>3, <1>4, <1>5, <1>6, <1>7, <1>8, <1>9, <1>10 DEF TypeOK, SlotRecs, RunRecs, JobRecs, PassRecs, UserRecs

LEMMA SlotHolds ==
    ASSUME IInv, NEW w \in Slots,
           SlotStep(w) \/ TryFault(w)
    PROVE  IInv'
  <1>1. TypeOK'
    BY SlotTypes
  <1>2. CASE ~Return(w)
    BY <1>1, <1>2, SlotMoves, RunMoves, InsideHolds DEF IInv
  <1>3. CASE Return(w)
    <2> DEFINE x == slot[w].run
    <2>1. slot[w].pc # "idle" /\ x \in Runs
      BY <1>3 DEF Return, IInv, Held
    <2>2. /\ slot' = [slot EXCEPT ![w] = Idle] /\ job' = [job EXCEPT ![x].state = "completed"]
          /\ UNCHANGED <<run, ended, pass, user>>
      BY <1>3 DEF Return, tables, NotSlot
    <2>3. slot \in [Slots -> SlotRecs] /\ job \in [Runs -> JobRecs] /\ job[x].state = "active"
      BY <2>1, Types DEF IInv, Held
    <2>4. /\ \A v \in Slots : v # w => slot'[v] = slot[v]
          /\ slot'[w].pc = "idle"
          /\ \A r \in Runs : r # x => job'[r] = job[r]
          /\ job'[x].state = "completed"
      BY <2>1, <2>2, <2>3 DEF Idle, JobRecs
    <2>5. Held'
      BY <2>1, <2>4 DEF IInv, Held
    <2>6. \A r : Promised(r) => Promised(r)'
      BY <2>1, <2>2, <2>3, <2>4 DEF Promised
    <2>7. Promising'
      BY <2>2, <2>6 DEF IInv, Promising
    <2>8. Jobs'
      BY <2>2, <2>3, <2>4 DEF IInv, Jobs
    <2> QED
      BY <1>1, <2>5, <2>7, <2>8 DEF IInv
  <1> QED
    BY <1>2, <1>3

LEMMA TakeHolds ==
    ASSUME IInv, NEW w \in Slots, NEW x \in Runs, Take(w, x)
    PROVE  IInv'
  <1> DEFINE rec == [Idle EXCEPT !.pc = "mark", !.run = x]
  <1>1. /\ slot[w].pc = "idle" /\ job[x].state = "waiting"
        /\ slot' = [slot EXCEPT ![w] = rec] /\ job' = [job EXCEPT ![x].state = "active"]
        /\ UNCHANGED <<stored, tables, faults, NotSlot>>
    BY DEF Take, At
  <1>2. slot \in [Slots -> SlotRecs] /\ job \in [Runs -> JobRecs] /\ now \in Nat
    BY Types, Constants DEF IInv
  <1>3. rec \in SlotRecs /\ rec.pc = "mark" /\ rec.run = x
    BY <1>2, Empties DEF SlotRecs, SlotPcs
  <1> HIDE DEF rec
  <1>4. slot' \in [Slots -> SlotRecs] /\ job' \in [Runs -> JobRecs]
    BY <1>1, <1>2, <1>3 DEF JobRecs
  <1>5. TypeOK'
    BY <1>1, <1>4, Types DEF IInv, TypeOK, SlotRecs, JobRecs, stored, races, tables, NotSlot, provider
  <1>6. /\ \A v \in Slots : v # w => slot'[v] = slot[v]
        /\ slot'[w].pc = "mark" /\ slot'[w].run = x
        /\ \A r \in Runs : r # x => job'[r] = job[r]
        /\ job'[x].state = "active" /\ job'[x].attempts = job[x].attempts
    BY <1>1, <1>2, <1>3 DEF JobRecs
  <1>7. Held'
    BY <1>1, <1>6 DEF IInv, Held
  <1>8. \A r : Promised(r) => Promised(r)'
    BY <1>1, <1>6 DEF Promised, tables
  <1>9. Promising'
    BY <1>1, <1>8 DEF IInv, Promising, NotSlot
  <1>10. Jobs'
    BY <1>1, <1>6 DEF IInv, Jobs, tables
  <1> QED
    BY <1>5, <1>7, <1>9, <1>10 DEF IInv

LEMMA ThrowHolds ==
    ASSUME IInv, NEW w \in Slots, ThrowFault(w)
    PROVE  IInv'
  <1> DEFINE x == slot[w].run
             n == job[x].attempts + 1
             st == IF n < MaxAttempts THEN "waiting" ELSE "failed"
             rec == [job[x] EXCEPT !.attempts = n, !.state = st]
  <1>1. /\ slot[w].pc # "idle" /\ x \in Runs
        /\ slot' = [slot EXCEPT ![w] = Idle] /\ job' = [job EXCEPT ![x] = rec]
        /\ faults < MaxFaults /\ faults' = faults + 1
        /\ UNCHANGED <<stored, tables, NotSlot>>
    BY DEF ThrowFault, IInv, Held
  <1>2. /\ slot \in [Slots -> SlotRecs] /\ job \in [Runs -> JobRecs] /\ now \in Nat
        /\ faults \in 0..MaxFaults /\ MaxFaults \in Nat /\ MaxAttempts \in Nat
    BY Types, Constants DEF IInv
  <1>3. job[x].state = "active" /\ job[x].attempts < MaxAttempts
    BY <1>1 DEF IInv, Held, Jobs
  <1>4. /\ rec \in JobRecs /\ rec.state \in {"waiting", "failed"}
        /\ rec.state = "waiting" => rec.attempts < MaxAttempts
    <2>1. n \in 0..MaxAttempts /\ st \in {"waiting", "failed"} /\ (st = "waiting" => n < MaxAttempts)
      BY <1>1, <1>2, <1>3 DEF JobRecs
    <2>2. job[x] \in JobRecs
      BY <1>1, <1>2
    <2> HIDE DEF n, st
    <2> QED
      BY <2>1, <2>2 DEF JobRecs
  <1> HIDE DEF rec
  <1>5. slot' \in [Slots -> SlotRecs] /\ job' \in [Runs -> JobRecs] /\ faults' \in 0..MaxFaults
    BY <1>1, <1>2, <1>4, Empties
  <1>6. TypeOK'
    BY <1>1, <1>5, Types DEF IInv, TypeOK, SlotRecs, JobRecs, stored, races, tables, NotSlot, provider
  <1>7. /\ \A v \in Slots : v # w => slot'[v] = slot[v]
        /\ slot'[w].pc = "idle"
        /\ \A r \in Runs : r # x => job'[r] = job[r]
        /\ job'[x] = rec
    BY <1>1, <1>2 DEF Idle
  <1>8. Held'
    BY <1>1, <1>7 DEF IInv, Held
  <1>9. \A r : Promised(r) => Promised(r)'
    BY <1>1, <1>3, <1>7 DEF Promised, tables
  <1>10. Promising'
    BY <1>1, <1>9 DEF IInv, Promising, NotSlot
  <1>11. Jobs'
    BY <1>1, <1>3, <1>4, <1>7 DEF IInv, Jobs, tables
  <1> QED
    BY <1>6, <1>8, <1>10, <1>11 DEF IInv

\* A run is enqueued: its job was absent, so no slot has it and nobody else adds it.
LEMMA EnqueueHolds ==
    ASSUME IInv, NEW x \in Runs, Promised(x), Enqueue(x), UNCHANGED <<run, ended, slot>>,
           \/ /\ UNCHANGED user
              /\ \E p \in Passes : /\ pass[p].pc = "enqueue" /\ pass[p].run = x
                                   /\ pass'[p].pc # "enqueue"
                                   /\ \A q \in Passes : q # p => pass'[q] = pass[q]
           \/ /\ UNCHANGED pass
              /\ \E u \in Users : /\ user[u].pc = "enqueue" /\ user[u].run = x
                                  /\ user'[u].pc # "enqueue"
                                  /\ \A v \in Users : v # u => user'[v] = user[v]
    PROVE  Held' /\ Promising' /\ Jobs' /\ job' \in [Runs -> JobRecs]
  <1>1. job \in [Runs -> JobRecs] /\ job' = [job EXCEPT ![x] = [NoJob EXCEPT !.state = "waiting"]]
    BY Types DEF IInv, Enqueue
  <1>2. /\ [NoJob EXCEPT !.state = "waiting"] \in JobRecs
        /\ [NoJob EXCEPT !.state = "waiting"].state = "waiting"
        /\ [NoJob EXCEPT !.state = "waiting"].attempts = 0
    <2>1. NoJob \in JobRecs
      BY Constants DEF NoJob, JobRecs
    <2>2. NoJob.attempts = 0
      BY DEF NoJob
    <2> QED
      BY <2>1, <2>2 DEF JobRecs
  <1>3. /\ job' \in [Runs -> JobRecs] /\ \A r \in Runs : r # x => job'[r] = job[r]
        /\ job'[x].state = "waiting" /\ job'[x].attempts = 0
    BY <1>1, <1>2
  <1>4. job[x].state = "absent" /\ run[x].status # "none"
    BY DEF Promised
  <1>5. Held'
    BY <1>3, <1>4 DEF IInv, Held
  <1>6. Jobs'
    BY <1>3, <1>4, Constants DEF IInv, Jobs
  <1>7. \A r : r # x /\ Promised(r) => Promised(r)'
    BY <1>3 DEF Promised
  <1>8. Promising'
    BY <1>7 DEF IInv, Promising
  <1> QED
    BY <1>3, <1>5, <1>6, <1>8

\* A run is inserted: its row was free, so it has no job and nobody adds one.
LEMMA InsertHolds ==
    ASSUME IInv, NEW x \in Runs, NEW s \in Targets \cup {0}, NEW b \in BOOLEAN, NewRun(x, s, b),
           UNCHANGED <<job, ended, slot>>,
           \/ /\ UNCHANGED user
              /\ \E p \in Passes : /\ pass[p].pc # "enqueue" /\ pass'[p].run = x
                                   /\ \A q \in Passes : q # p => pass'[q] = pass[q]
           \/ /\ UNCHANGED pass
              /\ \E u \in Users : /\ user[u].pc # "enqueue" /\ user'[u].run = x
                                  /\ \A v \in Users : v # u => user'[v] = user[v]
    PROVE  Held' /\ Promising' /\ Jobs' /\ run' \in [Runs -> RunRecs]
  <1> DEFINE rec == [status |-> "queued", target |-> s, scheduled |-> b]
  <1>1. run \in [Runs -> RunRecs] /\ run' = [run EXCEPT ![x] = rec] /\ run[x].status = "none"
    BY Types DEF IInv, NewRun, NoRun
  <1>2. rec \in RunRecs /\ rec.status = "queued"
    BY DEF RunRecs, RunStatus
  <1> HIDE DEF rec
  <1>3. /\ run' \in [Runs -> RunRecs] /\ \A r \in Runs : r # x => run'[r] = run[r]
        /\ run'[x].status = "queued"
    BY <1>1, <1>2
  <1>4. job[x].state = "absent"
    BY <1>1 DEF IInv, Jobs
  <1>5. Held'
    BY DEF IInv, Held
  <1>6. Jobs'
    BY <1>3, <1>4 DEF IInv, Jobs
  <1>7. /\ \A r : Promised(r) => r # x /\ Promised(r)'
        /\ Promised(x)'
    BY <1>1, <1>3, <1>4 DEF Promised
  <1>8. Promising'
    BY <1>7 DEF IInv, Promising
  <1> QED
    BY <1>3, <1>5, <1>6, <1>8

\* What leaves slots, runs and jobs alone, and enqueues nothing.
LEMMA QuietHolds ==
    ASSUME Held /\ Promising /\ Jobs, UNCHANGED <<run, job, slot, ended>>,
           \A p \in Passes : pass'[p] = pass[p] \/ pass'[p].pc # "enqueue",
           \A u \in Users : user'[u] = user[u] \/ user'[u].pc # "enqueue"
    PROVE  Held' /\ Promising' /\ Jobs'
  <1>1. Held' /\ Jobs'
    BY DEF Held, Jobs
  <1>2. \A r : Promised(r) => Promised(r)'
    BY DEF Promised
  <1>3. Promising'
    BY <1>2 DEF Promising
  <1> QED
    BY <1>1, <1>3

LEMMA UserHolds ==
    ASSUME IInv, NEW u \in Users,
           (\E s \in Targets \cup {0} : RequestRead(u, s)) \/ RequestStep(u)
    PROVE  IInv'
  <1>1. user \in [Users -> UserRecs] /\ faults \in 0..MaxFaults /\ MaxFaults \in Nat
    BY Types, Constants DEF IInv
  <1>2. UNCHANGED NotUser
    BY DEF RequestRead, RequestStep, RequestInsert, RequestEnqueue
  <1>3. ASSUME run' \in [Runs -> RunRecs], job' \in [Runs -> JobRecs], user' \in [Users -> UserRecs],
               faults' \in 0..MaxFaults
        PROVE  TypeOK'
    BY <1>2, <1>3, Types DEF IInv, TypeOK, NotUser, stored, races, provider, SlotRecs, RunRecs, JobRecs, UserRecs
  <1>4. ASSUME NEW s \in Targets \cup {0}, RequestRead(u, s) PROVE IInv'
    <2>1. user' = [user EXCEPT ![u].pc = "insert", ![u].target = s] /\ UNCHANGED <<run, job, faults>>
      BY <1>4 DEF RequestRead
    <2>2. user' \in [Users -> UserRecs]
      BY <1>1, <2>1 DEF UserRecs
    <2>3. user'[u].pc = "insert" /\ \A v \in Users : v # u => user'[v] = user[v]
      BY <1>1, <2>1 DEF UserRecs
    <2>4. TypeOK'
      BY <1>1, <1>3, <2>1, <2>2, Types DEF IInv
    <2> QED
      BY <1>2, <2>1, <2>3, <2>4, QuietHolds DEF IInv, NotUser
  <1>5. ASSUME NEW r \in Runs, NewRun(r, user[u].target, FALSE),
               user' = [user EXCEPT ![u].pc = "enqueue", ![u].run = r],
               RequestInsert(u)
        PROVE  IInv'
    <2>1. user[u].pc = "insert" /\ user[u].target \in Targets \cup {0} /\ UNCHANGED <<job, faults>>
      BY <1>1, <1>5 DEF RequestInsert, UserRecs
    <2>2. user' \in [Users -> UserRecs] /\ user'[u].run = r /\ \A v \in Users : v # u => user'[v] = user[v]
      BY <1>1, <1>5 DEF UserRecs
    <2>3. Held' /\ Promising' /\ Jobs' /\ run' \in [Runs -> RunRecs]
      BY <1>2, <1>5, <2>1, <2>2, InsertHolds DEF NotUser
    <2> QED
      BY <1>1, <1>3, <2>1, <2>2, <2>3, Types DEF IInv
  <1>6. CASE RequestEnqueue(u)
    <2>1. user[u].pc = "enqueue" /\ user' = [user EXCEPT ![u].pc = "done"] /\ UNCHANGED run
      BY <1>6 DEF RequestEnqueue
    <2>2. /\ user' \in [Users -> UserRecs] /\ user'[u].pc = "done"
          /\ \A v \in Users : v # u => user'[v] = user[v]
      BY <1>1, <2>1 DEF UserRecs
    <2>3. Promised(user[u].run) /\ user[u].run \in Runs
      BY <2>1 DEF IInv, Promising, Promised
    <2>4. CASE Enqueue(user[u].run) /\ UNCHANGED faults
      <3>1. Held' /\ Promising' /\ Jobs' /\ job' \in [Runs -> JobRecs]
        BY <1>2, <2>1, <2>2, <2>3, <2>4, EnqueueHolds DEF NotUser
      <3> QED
        BY <1>1, <1>3, <2>1, <2>2, <2>4, <3>1, Types DEF IInv
    <2>5. CASE EnqueueFails
      <3>1. UNCHANGED job /\ faults' \in 0..MaxFaults
        BY <1>1, <2>5 DEF EnqueueFails
      <3> QED
        BY <1>2, <1>3, <2>1, <2>2, <3>1, QuietHolds, Types DEF IInv, NotUser
    <2> QED
      BY <1>6, <2>4, <2>5 DEF RequestEnqueue
  <1> QED
    BY <1>4, <1>5, <1>6 DEF RequestStep, RequestInsert

LEMMA PassFacts ==
    ASSUME TypeOK, NEW p \in Passes
    PROVE  /\ NextTarget(p) \in Targets \cup {0}
           /\ Rest(p) \in PassRecs /\ Rest(p).pc \in {"idle", "find"}
  <1>1. pass[p] \in PassRecs /\ pass[p].todo \in SUBSET Targets /\ Targets \subseteq Nat
    BY Types, Constants DEF PassRecs
  <1>2. NextTarget(p) \in Targets \cup {0}
    BY <1>1, MinFacts DEF NextTarget, Min0
  <1>3. IdlePass \in PassRecs /\ IdlePass.pc = "idle"
    BY DEF IdlePass, PassRecs
  <1> DEFINE d == pass[p].todo \ {NextTarget(p)}
  <1>4. d \in SUBSET Targets
    BY <1>1
  <1>5. Rest(p) = IdlePass \/ Rest(p) = [pass[p] EXCEPT !.pc = "find", !.todo = d]
    BY DEF Rest
  <1> HIDE DEF d
  <1>6. [pass[p] EXCEPT !.pc = "find", !.todo = d] \in PassRecs
        /\ [pass[p] EXCEPT !.pc = "find", !.todo = d].pc = "find"
    BY <1>1, <1>4 DEF PassRecs
  <1> QED
    BY <1>2, <1>3, <1>5, <1>6

LEMMA PassHolds ==
    ASSUME IInv, NEW p \in Passes, Scan(p) \/ PassStep(p)
    PROVE  IInv'
  <1>1. pass \in [Passes -> PassRecs] /\ faults \in 0..MaxFaults /\ MaxFaults \in Nat
    BY Types, Constants DEF IInv
  <1>2. UNCHANGED NotPass
    BY DEF Scan, PassStep, SkipActive, FindNone, CreateRun, EnqueueRun
  <1>11. overtaken' \subseteq Passes /\ raced' \subseteq Runs
    <2>1. overtaken \subseteq Passes /\ raced \subseteq Runs
      BY Types DEF IInv
    <2>2. CASE Scan(p) \/ SkipActive(p) \/ EnqueueRun(p)
      BY <2>1, <2>2 DEF Scan, SkipActive, EnqueueRun, races
    <2>3. CASE FindNone(p)
      BY <2>1, <2>3 DEF FindNone
    <2>4. CASE CreateRun(p)
      BY <2>1, <2>4 DEF CreateRun, Behind
    <2> QED
      BY <2>2, <2>3, <2>4 DEF PassStep
  <1>3. ASSUME run' \in [Runs -> RunRecs], job' \in [Runs -> JobRecs], pass' \in [Passes -> PassRecs],
               faults' \in 0..MaxFaults
        PROVE  TypeOK'
    BY <1>2, <1>3, <1>11, Types DEF IInv, TypeOK, NotPass, stored, provider, SlotRecs, RunRecs, JobRecs, PassRecs
  <1>4. ASSUME NEW rec \in PassRecs, rec.pc # "enqueue", pass' = [pass EXCEPT ![p] = rec],
               UNCHANGED <<run, job>>, faults' \in 0..MaxFaults
        PROVE  IInv'
    <2>1. /\ pass' \in [Passes -> PassRecs] /\ pass'[p] = rec
          /\ \A q \in Passes : q # p => pass'[q] = pass[q]
      BY <1>1, <1>4
    <2>2. TypeOK'
      BY <1>3, <1>4, <2>1, Types DEF IInv
    <2> QED
      BY <1>2, <1>4, <2>1, <2>2, QuietHolds DEF IInv, NotPass
  <1>5. IdlePass \in PassRecs /\ IdlePass.pc = "idle"
    BY DEF IdlePass, PassRecs
  <1>6. CASE Scan(p)
    <2> DEFINE rec == [IdlePass EXCEPT !.pc = "find", !.todo = Targets]
    <2>1. rec \in PassRecs /\ rec.pc = "find"
      BY <1>5 DEF PassRecs
    <2>2. pass' = [pass EXCEPT ![p] = rec] /\ UNCHANGED <<run, job, faults>>
      BY <1>6 DEF Scan
    <2> QED
      BY <1>1, <1>4, <2>1, <2>2
  <1>7. CASE SkipActive(p)
    BY <1>1, <1>4, <1>7, PassFacts DEF SkipActive, IInv
  <1>8. CASE FindNone(p)
    <2>1. pass' = [pass EXCEPT ![p] = [pass[p] EXCEPT !.pc = "create"]] /\ UNCHANGED <<run, job, faults>>
      BY <1>8 DEF FindNone
    <2>2. [pass[p] EXCEPT !.pc = "create"] \in PassRecs /\ [pass[p] EXCEPT !.pc = "create"].pc = "create"
      BY <1>1 DEF PassRecs
    <2> QED
      BY <1>1, <1>4, <2>1, <2>2
  <1>9. ASSUME NEW r \in Runs, NewRun(r, NextTarget(p), TRUE), CreateRun(p),
               pass' = [pass EXCEPT ![p].pc = "enqueue", ![p].run = r]
        PROVE  IInv'
    <2>1. pass[p].pc = "create" /\ NextTarget(p) \in Targets \cup {0} /\ UNCHANGED <<job, faults>>
      BY <1>9, PassFacts DEF CreateRun, IInv
    <2>2. /\ pass' \in [Passes -> PassRecs] /\ pass'[p].run = r
          /\ \A q \in Passes : q # p => pass'[q] = pass[q]
      BY <1>1, <1>9 DEF PassRecs
    <2>3. Held' /\ Promising' /\ Jobs' /\ run' \in [Runs -> RunRecs]
      BY <1>2, <1>9, <2>1, <2>2, InsertHolds DEF NotPass
    <2> QED
      BY <1>1, <1>3, <2>1, <2>2, <2>3, Types DEF IInv
  <1>10. CASE EnqueueRun(p)
    <2>1. pass[p].pc = "enqueue" /\ UNCHANGED run
      BY <1>10 DEF EnqueueRun
    <2>2. Promised(pass[p].run) /\ pass[p].run \in Runs
      BY <2>1 DEF IInv, Promising, Promised
    <2>3. CASE Enqueue(pass[p].run) /\ pass' = [pass EXCEPT ![p] = Rest(p)] /\ UNCHANGED faults
      <3>1. /\ pass' \in [Passes -> PassRecs] /\ pass'[p].pc # "enqueue"
            /\ \A q \in Passes : q # p => pass'[q] = pass[q]
        BY <1>1, <2>3, PassFacts DEF IInv
      <3>2. Held' /\ Promising' /\ Jobs' /\ job' \in [Runs -> JobRecs]
        BY <1>2, <2>1, <2>2, <2>3, <3>1, EnqueueHolds DEF NotPass
      <3> QED
        BY <1>1, <1>3, <2>1, <2>3, <3>1, <3>2, Types DEF IInv
    <2>4. CASE EnqueueFails /\ pass' = [pass EXCEPT ![p] = IdlePass]
      <3>1. UNCHANGED job /\ faults' \in 0..MaxFaults
        BY <1>1, <2>4 DEF EnqueueFails
      <3> QED
        BY <1>4, <1>5, <2>1, <2>4, <3>1
    <2> QED
      BY <1>10, <2>3, <2>4 DEF EnqueueRun
  <1> QED
    BY <1>6, <1>7, <1>8, <1>9, <1>10 DEF PassStep, CreateRun

LEMMA WorldHolds ==
    ASSUME IInv, \/ \E s \in Targets : Appear(s)
                 \/ BecomesDue
                 \/ \E status \in {"connected", "paused"} : Patch(status)
    PROVE  IInv'
  <1>1. UNCHANGED <<imported, skipped, overtaken, raced, run, job, slot, pass, user, ended, cursor,
                    faults, crashes>>
    BY DEF Appear, BecomesDue, Patch, stored, races, tables
  <1>2. Held' /\ Promising' /\ Jobs'
    BY <1>1, QuietHolds DEF IInv
  <1>3. TypeOK /\ T \in Nat /\ now \in 0..T
    BY Types, Constants DEF IInv
  <1>4. ASSUME NEW s \in Targets, Appear(s) PROVE TypeOK'
    <2>1. now < T /\ now' = now + 1 /\ home' = [home EXCEPT ![now + 1] = s] /\ UNCHANGED <<account, patches>>
      BY <1>4 DEF Appear, tables
    <2>2. now' \in 0..T /\ 0..now \subseteq 0..now' /\ 1..now \subseteq 1..now'
      BY <1>3, <2>1
    <2>3. home' \in [Items -> Targets \cup {0}]
      BY <1>3, <2>1, Types
    <2>4. imported' \subseteq 1..now' /\ skipped' \subseteq 1..now'
      BY <1>1, <1>3, <2>2, Types
    <2>5. account' \in [status : {"connected", "paused", "error"}, due : BOOLEAN, cursor : 0..now']
      <3>1. account \in [status : {"connected", "paused", "error"}, due : BOOLEAN, cursor : 0..now]
        BY <1>3, Types
      <3> QED
        BY <2>1, <2>2, <3>1
    <2>6. cursor' \in [Targets -> 0..now']
      <3>1. cursor \in [Targets -> 0..now]
        BY <1>3, Types
      <3> QED
        BY <1>1, <2>2, <3>1
    <2>7. slot' \in [Slots -> SlotRecs']
      <3>1. SlotRecs \subseteq SlotRecs'
        BY <2>2 DEF SlotRecs
      <3> QED
        BY <1>1, <1>3, <3>1, Types
    <2> QED
      BY <1>1, <1>3, <2>1, <2>2, <2>3, <2>4, <2>5, <2>6, <2>7, Types DEF TypeOK, SlotRecs
  <1>5. ASSUME BecomesDue PROVE TypeOK'
    <2>1. account \in [status : {"connected", "paused", "error"}, due : BOOLEAN, cursor : 0..now]
      BY <1>3, Types
    <2> QED
      BY <1>1, <1>3, <1>5, <2>1 DEF BecomesDue, TypeOK, provider
  <1>6. ASSUME NEW status \in {"connected", "paused"}, Patch(status) PROVE TypeOK'
    <2>1. patches' \in 0..MaxPatches
      BY <1>3, <1>6, Types, Constants DEF Patch
    <2> QED
      BY <1>1, <1>3, <1>6, <2>1 DEF Patch, TypeOK, provider
  <1> QED
    BY <1>2, <1>4, <1>5, <1>6 DEF IInv

LEMMA CrashHolds ==
    ASSUME IInv, Crash
    PROVE  IInv'
  <1>1. /\ crashes < MaxCrashes /\ crashes' = crashes + 1
        /\ job' = [r \in Runs |-> Recovered(job[r])]
        /\ slot' = [w \in Slots |-> Idle] /\ pass' = [p \in Passes |-> IdlePass]
        /\ UNCHANGED <<provider, stored, tables, user, races, patches, faults>>
    BY DEF Crash
  <1>2. job \in [Runs -> JobRecs] /\ now \in Nat /\ crashes \in 0..MaxCrashes /\ MaxCrashes \in Nat
    BY Types, Constants DEF IInv
  <1>3. ASSUME NEW r \in Runs
        PROVE  /\ Recovered(job[r]) \in JobRecs
               /\ Recovered(job[r]).attempts = job[r].attempts
               /\ Recovered(job[r]).state = "waiting" => job[r].state \in {"waiting", "active"}
               /\ Recovered(job[r]).state # "active"
               /\ Recovered(job[r]).state = "absent" <=> job[r].state = "absent"
    <2>1. job[r] \in JobRecs
      BY <1>2, <1>3
    <2> QED
      BY <2>1 DEF Recovered, JobRecs
  <1>4. job' \in [Runs -> JobRecs] /\ crashes' \in 0..MaxCrashes
    BY <1>1, <1>2, <1>3
  <1>5. slot' \in [Slots -> SlotRecs] /\ pass' \in [Passes -> PassRecs]
    BY <1>1, <1>2, Empties
  <1>6. TypeOK'
    BY <1>1, <1>4, <1>5, Types DEF IInv, TypeOK, SlotRecs, JobRecs, PassRecs, stored, races, tables, provider
  <1>7. Held'
    BY <1>1 DEF Held, Idle
  <1>8. \A r : Promised(r) => Promised(r)'
    BY <1>1, <1>3 DEF Promised, tables
  <1>9. Promising'
    BY <1>1, <1>8 DEF IInv, Promising, IdlePass
  <1>10. Jobs'
    BY <1>1, <1>3 DEF IInv, Jobs, tables
  <1> QED
    BY <1>6, <1>7, <1>9, <1>10 DEF IInv

-----------------------------------------------------------------------------
\* Slots, passes and requests keep to what IInv says, in any order, with any
\* number of failed calls and crashes.
THEOREM Inductive == Spec => []IInv
  <1>1. IInv /\ [Next]_vars => IInv'
    <2> SUFFICES ASSUME IInv, [Next]_vars PROVE IInv'
      OBVIOUS
    <2>1. CASE UNCHANGED vars
      <3>1. TypeOK'
        BY <2>1 DEF IInv, TypeOK, vars, provider, stored, races, tables
      <3>2. Held' /\ Promising' /\ Jobs'
        BY <2>1, QuietHolds DEF IInv, vars, tables
      <3> QED
        BY <3>1, <3>2 DEF IInv
    <2>2. ASSUME NEW w \in Slots, SlotStep(w) \/ TryFault(w) PROVE IInv'
      BY <2>2, SlotHolds
    <2>3. ASSUME NEW w \in Slots, NEW r \in Runs, Take(w, r) PROVE IInv'
      BY <2>3, TakeHolds
    <2>4. ASSUME NEW p \in Passes, Scan(p) \/ PassStep(p) PROVE IInv'
      BY <2>4, PassHolds
    <2>5. ASSUME NEW u \in Users, (\E s \in Targets \cup {0} : RequestRead(u, s)) \/ RequestStep(u)
          PROVE  IInv'
      BY <2>5, UserHolds
    <2>6. ASSUME NEW w \in Slots, ThrowFault(w) PROVE IInv'
      BY <2>6, ThrowHolds
    <2> QED
      BY <2>1, <2>2, <2>3, <2>4, <2>5, <2>6, WorldHolds, CrashHolds DEF Next
  <1> QED
    BY <1>1, InitHolds, PTL DEF Spec

\* Every record of the sync keeps to its type: no run, no batch and no cursor
\* is ahead of the provider, and no job is given more attempts than there are.
THEOREM TypeCorrect == Spec => []TypeOK
  <1>1. IInv => TypeOK
    BY DEF IInv
  <1> QED
    BY <1>1, Inductive, PTL

-----------------------------------------------------------------------------
(* Scheduled runs *)

\* The runs of the scheduler that are active, without those it raced.
Alone(s) == Scheduled(s) \ raced

\* A pass that is about to insert a run has found none that is active, and there is
\* still none unless another pass has overtaken it.
Creating ==
    \A p \in Passes \ overtaken : pass[p].pc = "create" => Alone(NextTarget(p)) = {}

SInv == OneScheduledRun /\ Creating

LEMMA NextTargetFacts ==
    ASSUME NEW p \in Passes, pass'[p].todo = pass[p].todo
    PROVE  NextTarget(p)' = NextTarget(p)
  BY DEF NextTarget

\* Nothing joins the scheduled runs of a source, and no pass begins to create.
LEMMA FewerHolds ==
    ASSUME SInv, UNCHANGED raced, overtaken \subseteq overtaken',
           \A s : Scheduled(s)' \subseteq Scheduled(s),
           \A p \in Passes : pass'[p] = pass[p] \/ pass'[p].pc # "create"
    PROVE  SInv'
  <1>1. \A s : Alone(s)' \subseteq Alone(s)
    BY DEF Alone
  <1>2. OneScheduledRun'
    BY DEF SInv, OneScheduledRun
  <1>3. ASSUME NEW p \in Passes \ overtaken', pass'[p].pc = "create"
        PROVE  Alone(NextTarget(p))' = {}
    <2>1. pass'[p] = pass[p] /\ p \notin overtaken
      BY <1>3
    <2>2. NextTarget(p)' = NextTarget(p) /\ Alone(NextTarget(p)) = {}
      BY <1>3, <2>1, NextTargetFacts DEF SInv, Creating
    <2>3. ASSUME NEW r \in Alone(NextTarget(p))' PROVE FALSE
      BY <1>1, <2>2, <2>3 DEF Alone, Scheduled
    <2> QED
      BY <2>3
  <1> QED
    BY <1>2, <1>3 DEF SInv, Creating

\* What a step does to the rows, besides inserting one.
LEMMA OldRuns ==
    ASSUME IInv, NEW w \in Slots, SlotStep(w) \/ TryFault(w)
    PROVE  \A s : Scheduled(s)' \subseteq Scheduled(s)
  <1> DEFINE x == slot[w].run
  <1>1. run \in [Runs -> RunRecs] /\ (slot[w].pc # "idle" => x \in Runs /\ job[x].state = "active")
    BY Types DEF IInv, Held
  <1>2. ASSUME NEW r \in Runs, r \notin ended, run[r].status # "none"
        PROVE  run[r].status \in {"queued", "processing"}
    BY <1>1, <1>2 DEF IInv, Jobs, RunRecs, RunStatus
  <1>3. CASE UNCHANGED <<run, ended>>
    BY <1>3 DEF Scheduled
  <1>4. ASSUME NEW st \in {"processing", "completed", "failed"}, x \in Runs, run[x].status # "none",
               run' = [run EXCEPT ![x].status = st], ended \subseteq ended'
        PROVE  \A s : Scheduled(s)' \subseteq Scheduled(s)
    <2>1. \A r \in Runs : run'[r] = IF r = x THEN [run[x] EXCEPT !.status = st] ELSE run[r]
      BY <1>1, <1>4
    <2>2. run'[x].scheduled = run[x].scheduled /\ run'[x].target = run[x].target
      BY <1>1, <1>4 DEF RunRecs
    <2>3. ASSUME NEW s, NEW r \in Runs \ ended', run'[r].scheduled, run'[r].target = s,
                 run'[r].status \in {"queued", "processing"}
          PROVE  r \in Scheduled(s)
      BY <1>2, <1>4, <2>1, <2>2, <2>3 DEF Scheduled
    <2> QED
      BY <2>3 DEF Scheduled
  <1>5. slot[w].pc # "idle" => run[x].status # "none"
    BY <1>1 DEF IInv, Jobs
  <1>6. CASE MarkProcessing(w)
    BY <1>1, <1>4, <1>5, <1>6 DEF MarkProcessing, SetRun, At
  <1>7. CASE Complete(w)
    BY <1>1, <1>4, <1>5, <1>7 DEF Complete, EndRun, SetRun, At
  <1>8. CASE FailRun(w)
    BY <1>1, <1>4, <1>5, <1>8 DEF FailRun, EndRun, SetRun, At
  <1>9. CASE RecordStarted(w) \/ Load(w) \/ Fetch(w) \/ FailAccount(w) \/ Return(w) \/ TryFault(w)
    BY <1>3, <1>9 DEF RecordStarted, Load, Fetch, FailAccount, Return, TryFault, tables
  <1>10. CASE \E t \in Items : Store(w, t) \/ StoreFails(w, t)
    BY <1>3, <1>10 DEF Store, StoreFails, tables
  <1>11. CASE \E part \in {"account", "source"} : StampPart(w, part)
    BY <1>3, <1>11 DEF StampPart
  <1> QED
    BY <1>6, <1>7, <1>8, <1>9, <1>10, <1>11 DEF SlotStep

LEMMA ScheduledHolds ==
    ASSUME IInv, SInv, [Next]_vars
    PROVE  SInv'
  <1>1. ASSUME UNCHANGED <<run, ended, pass, races>> PROVE SInv'
    <2>1. \A s : Scheduled(s)' \subseteq Scheduled(s)
      BY <1>1 DEF Scheduled
    <2> QED
      BY <1>1, <2>1, FewerHolds DEF races
  <1>2. ASSUME NEW w \in Slots, SlotStep(w) \/ TryFault(w) PROVE SInv'
    <2>1. UNCHANGED <<pass, raced, overtaken>>
      BY <1>2 DEF SlotStep, MarkProcessing, RecordStarted, Load, Fetch, Store, StoreFails, Complete, StampPart,
             FailRun, FailAccount, Return, TryFault, NotSlot, races
    <2> QED
      BY <1>2, <2>1, OldRuns, FewerHolds
  <1>3. ASSUME NEW w \in Slots, (\E r \in Runs : Take(w, r)) \/ ThrowFault(w) PROVE SInv'
    BY <1>1, <1>3 DEF Take, ThrowFault, tables, NotSlot
  <1>4. ASSUME (\E s \in Targets : Appear(s)) \/ BecomesDue
               \/ \E status \in {"connected", "paused"} : Patch(status)
        PROVE  SInv'
    BY <1>1, <1>4 DEF Appear, BecomesDue, Patch, tables
  <1>5. CASE Crash
    <2>1. \A s : Scheduled(s)' \subseteq Scheduled(s)
      BY <1>5 DEF Crash, tables, Scheduled
    <2>2. (\A p \in Passes : pass'[p].pc # "create") /\ UNCHANGED <<raced, overtaken>>
      BY <1>5 DEF Crash, IdlePass, races
    <2> QED
      BY <2>1, <2>2, FewerHolds
  <1>6. run \in [Runs -> RunRecs] /\ pass \in [Passes -> PassRecs]
    BY Types DEF IInv
  <1>7. ASSUME NEW u \in Users, (\E s \in Targets \cup {0} : RequestRead(u, s)) \/ RequestStep(u)
        PROVE  SInv'
    <2>1. CASE (\E s \in Targets \cup {0} : RequestRead(u, s)) \/ RequestEnqueue(u)
      BY <1>1, <2>1 DEF RequestRead, RequestEnqueue, NotUser
    <2>2. ASSUME NEW r \in Runs, NewRun(r, user[u].target, FALSE), UNCHANGED NotUser PROVE SInv'
      <3>1. /\ \A q \in Runs : q # r => run'[q] = run[q]
            /\ ~run'[r].scheduled /\ UNCHANGED <<ended, pass, raced, overtaken>>
        BY <1>6, <2>2 DEF NewRun, NotUser, races
      <3>2. \A s : Scheduled(s)' \subseteq Scheduled(s)
        BY <3>1 DEF Scheduled
      <3> QED
        BY <3>1, <3>2, FewerHolds
    <2> QED
      BY <1>7, <2>1, <2>2 DEF RequestStep, RequestInsert
  <1>8. ASSUME NEW p \in Passes, Scan(p) \/ SkipActive(p) \/ EnqueueRun(p) PROVE SInv'
    <2>1. UNCHANGED <<run, ended, raced, overtaken>>
      BY <1>8 DEF Scan, SkipActive, EnqueueRun, NotPass, races
    <2>2. \A s : Scheduled(s)' \subseteq Scheduled(s)
      BY <2>1 DEF Scheduled
    <2>3. ASSUME NEW q \in Passes PROVE pass'[q] = pass[q] \/ pass'[q].pc # "create"
      <3> DEFINE first == [IdlePass EXCEPT !.pc = "find", !.todo = Targets]
      <3>1. first.pc = "find" /\ IdlePass.pc = "idle" /\ Rest(p).pc \in {"idle", "find"}
        BY PassFacts DEF IInv, IdlePass
      <3>2. \/ pass' = [pass EXCEPT ![p] = first] \/ pass' = [pass EXCEPT ![p] = Rest(p)]
            \/ pass' = [pass EXCEPT ![p] = IdlePass]
        BY <1>8 DEF Scan, SkipActive, EnqueueRun
      <3> HIDE DEF first
      <3> QED
        BY <1>6, <3>1, <3>2
    <2> QED
      BY <2>1, <2>2, <2>3, FewerHolds
  <1>9. ASSUME NEW p \in Passes, FindNone(p) PROVE SInv'
    <2>1. /\ UNCHANGED <<run, ended, raced>> /\ ~Active(NextTarget(p))
          /\ pass' = [pass EXCEPT ![p].pc = "create"] /\ overtaken' = overtaken \ {p}
      BY <1>9 DEF FindNone, NotPass
    <2>2. \A s : Alone(s)' = Alone(s) /\ Scheduled(s)' = Scheduled(s)
      BY <2>1 DEF Alone, Scheduled
    <2>3. Alone(NextTarget(p)) = {}
      BY <2>1 DEF Alone, Scheduled, Active
    <2>4. ASSUME NEW q \in Passes PROVE NextTarget(q)' = NextTarget(q)
      <3>1. pass'[q].todo = pass[q].todo
        BY <1>6, <2>1 DEF PassRecs
      <3> QED
        BY <3>1, NextTargetFacts
    <2>5. ASSUME NEW q \in Passes \ overtaken', pass'[q].pc = "create"
          PROVE  Alone(NextTarget(q))' = {}
      <3>1. Alone(NextTarget(q)) = {}
        <4>1. CASE q = p
          BY <2>3, <4>1
        <4>2. CASE q # p
          <5>1. pass'[q] = pass[q] /\ q \notin overtaken
            BY <1>6, <2>1, <2>5, <4>2
          <5> QED
            BY <2>5, <5>1 DEF SInv, Creating
        <4> QED
          BY <4>1, <4>2
      <3>2. ASSUME NEW r \in Alone(NextTarget(q))' PROVE r \in Alone(NextTarget(q))
        BY <2>1, <2>4, <3>2 DEF Alone, Scheduled
      <3> QED
        BY <3>1, <3>2
    <2>6. OneScheduledRun'
      BY <2>1, <2>2 DEF SInv, OneScheduledRun
    <2> QED
      BY <2>5, <2>6 DEF SInv, Creating
  <1>10. ASSUME NEW p \in Passes, NEW r \in Runs, pass[p].pc = "create", NewRun(r, NextTarget(p), TRUE),
                pass' = [pass EXCEPT ![p].pc = "enqueue", ![p].run = r],
                raced' = IF p \in overtaken THEN raced \cup {r} ELSE raced,
                overtaken' = overtaken \cup Behind(p), UNCHANGED NotPass
         PROVE  SInv'
    <2>1. p \notin overtaken => Alone(NextTarget(p)) = {}
      BY <1>10 DEF SInv, Creating
    <2>2. /\ \A q \in Runs : q # r => run'[q] = run[q]
          /\ run'[r].target = NextTarget(p) /\ UNCHANGED ended
      BY <1>6, <1>10 DEF NewRun, NotPass
    <2>3. ASSUME NEW s, NEW k \in Alone(s)'
          PROVE  k \in Alone(s) \/ (k = r /\ s = NextTarget(p) /\ p \notin overtaken)
      BY <1>10, <2>2, <2>3 DEF Alone, Scheduled
    <2>4. OneScheduledRun'
      <3>1. ASSUME NEW s \in Targets, NEW k \in Alone(s)', NEW l \in Alone(s)' PROVE k = l
        BY <2>1, <2>3, <3>1 DEF SInv, OneScheduledRun, Alone
      <3> QED
        BY <3>1 DEF OneScheduledRun, Alone
    <2>5. ASSUME NEW q \in Passes \ overtaken', pass'[q].pc = "create"
          PROVE  Alone(NextTarget(q))' = {}
      <3>1. pass'[p].pc = "enqueue" /\ q # p
        BY <1>6, <1>10, <2>5 DEF PassRecs
      <3>2. pass'[q] = pass[q] /\ q \notin overtaken
        BY <1>6, <1>10, <2>5, <3>1
      <3>3. NextTarget(q)' = NextTarget(q) /\ NextTarget(q) # NextTarget(p)
        BY <1>10, <2>5, <3>1, <3>2, NextTargetFacts DEF Behind
      <3>4. Alone(NextTarget(q)) = {}
        BY <2>5, <3>2 DEF SInv, Creating
      <3>5. ASSUME NEW k \in Alone(NextTarget(q))' PROVE k \in Alone(NextTarget(q))
        BY <1>10, <2>2, <3>3, <3>5 DEF Alone, Scheduled
      <3> QED
        BY <3>4, <3>5
    <2> QED
      BY <2>4, <2>5 DEF SInv, Creating
  <1>11. CASE UNCHANGED vars
    BY <1>1, <1>11 DEF vars, tables
  <1> QED
    BY <1>2, <1>3, <1>4, <1>5, <1>7, <1>8, <1>9, <1>10, <1>11 DEF Next, PassStep, CreateRun

\* Of the runs of the scheduler a source has one at a time, however many passes
\* overlap: save a run that a pass inserted after another had overtaken it, requests,
\* crashes, lost enqueues and jobs that are executed again make no second one.
THEOREM ScheduledOnce == Spec => []OneScheduledRun
  <1>1. Init => SInv
    BY DEF Init, SInv, OneScheduledRun, Scheduled, Creating, NoRun, IdlePass
  <1>2. IInv /\ SInv /\ [Next]_vars => SInv'
    BY ScheduledHolds
  <1>3. SInv => OneScheduledRun
    BY DEF SInv
  <1> QED
    BY <1>1, <1>2, <1>3, Inductive, PTL DEF Spec

-----------------------------------------------------------------------------
(* The cursor *)

\* All of a target that u has passed was imported or skipped.
Passed(s, u) == \A t \in 1..now : (home[t] = s /\ t <= u) => t \in imported \cup skipped

\* What a slot starts from was, and what it will write as the cursor was, except for
\* the rest of its batch.
Fetched(w) ==
    slot[w].pc # "idle" =>
        /\ Passed(TargetOf(w), slot[w].since)
        /\ \A t \in 1..now : (home[t] = TargetOf(w) /\ t <= slot[w].upto) =>
               t \in imported \cup skipped \cup slot[w].batch
        /\ slot[w].pc # "store" => slot[w].batch = {}
        /\ slot[w].left # {} => slot[w].pc = "stamp"

CInv ==
    /\ \A t \in 1..now : home[t] \in Targets
    /\ \A s \in Targets : Passed(s, Own(s))
    /\ \A w \in Slots : Fetched(w)

\* A run keeps its target as long as a slot has it.
LEMMA TargetKept ==
    ASSUME IInv, [Next]_vars, NEW w \in Slots, slot[w].pc # "idle", slot'[w].run = slot[w].run
    PROVE  TargetOf(w)' = TargetOf(w)
  <1> DEFINE x == slot[w].run
  <1>1. run \in [Runs -> RunRecs] /\ x \in Runs /\ run[x].status # "none"
    BY Types DEF IInv, Held, Jobs
  <1>2. SUFFICES run'[x].target = run[x].target
    BY DEF TargetOf
  <1>3. ASSUME NEW r \in Runs, NEW s, NEW b, NewRun(r, s, b) PROVE run'[x].target = run[x].target
    BY <1>1, <1>3 DEF NewRun, NoRun
  <1>4. ASSUME NEW r, NEW st, run' = [run EXCEPT ![r].status = st]
        PROVE  run'[x].target = run[x].target
    BY <1>1, <1>4 DEF RunRecs
  <1>5. CASE UNCHANGED run
    BY <1>5
  <1>6. ASSUME NEW v \in Slots, SlotStep(v) \/ TryFault(v) \/ ThrowFault(v) \/ \E r \in Runs : Take(v, r)
        PROVE  run'[x].target = run[x].target
    BY <1>4, <1>5, <1>6 DEF SlotStep, MarkProcessing, RecordStarted, Load, Fetch, Store, StoreFails,
       Complete, StampPart, FailRun, FailAccount, Return, TryFault, ThrowFault, Take, SetRun, EndRun,
       tables
  <1>7. ASSUME NEW u \in Users, (\E s \in Targets \cup {0} : RequestRead(u, s)) \/ RequestStep(u)
        PROVE  run'[x].target = run[x].target
    BY <1>3, <1>5, <1>7 DEF RequestRead, RequestStep, RequestInsert, RequestEnqueue
  <1>8. ASSUME NEW p \in Passes, Scan(p) \/ PassStep(p) PROVE run'[x].target = run[x].target
    BY <1>3, <1>5, <1>8 DEF Scan, PassStep, SkipActive, FindNone, CreateRun, EnqueueRun
  <1>9. CASE \/ \E s \in Targets : Appear(s)
             \/ BecomesDue
             \/ \E status \in {"connected", "paused"} : Patch(status)
             \/ Crash
             \/ UNCHANGED vars
    BY <1>5, <1>9 DEF Appear, BecomesDue, Patch, Crash, vars, tables
  <1> QED
    BY <1>6, <1>7, <1>8, <1>9 DEF Next

\* A step of the worker is right when the record it leaves is, and the cursors.
LEMMA SlotFetched ==
    ASSUME IInv, CInv, [Next]_vars, NEW w \in Slots, UNCHANGED <<now, home>>,
           imported \subseteq imported', skipped \subseteq skipped',
           \A v \in Slots : v # w => slot'[v] = slot[v],
           Fetched(w)',
           \A s \in Targets : Own(s)' = Own(s) \/ Passed(s, Own(s))'
    PROVE  CInv'
  <1>1. ASSUME NEW v \in Slots, v # w PROVE Fetched(v)'
    <2>1. slot'[v] = slot[v] /\ Fetched(v)
      BY <1>1 DEF CInv
    <2>2. CASE slot[v].pc = "idle"
      BY <2>1, <2>2 DEF Fetched
    <2>3. CASE slot[v].pc # "idle"
      <3>1. TargetOf(v)' = TargetOf(v)
        BY <2>1, <2>3, TargetKept
      <3> QED
        BY <2>1, <2>3, <3>1 DEF Fetched, Passed
    <2> QED
      BY <2>2, <2>3
  <1>2. ASSUME NEW s \in Targets PROVE Passed(s, Own(s))'
    <2>1. Passed(s, Own(s))
      BY DEF CInv
    <2> QED
      BY <2>1 DEF Passed
  <1> QED
    BY <1>1, <1>2 DEF CInv

\* Nothing is fetched yet.
LEMMA EmptyFetched ==
    ASSUME now' \in Nat, NEW w \in Slots, slot'[w].since = 0, slot'[w].upto = 0,
           slot'[w].batch = {}, slot'[w].left = {}
    PROVE  Fetched(w)'
  <1>1. \A t \in 1..now' : ~(t <= 0)
    OBVIOUS
  <1> QED
    BY <1>1 DEF Fetched, Passed

LEMMA CursorHoldsInSlot ==
    ASSUME IInv, CInv, NEW w \in Slots, SlotStep(w) \/ TryFault(w)
    PROVE  CInv'
  <1>1. /\ slot \in [Slots -> SlotRecs] /\ now \in Nat /\ cursor \in [Targets -> 0..now]
        /\ account \in [status : {"connected", "paused", "error"}, due : BOOLEAN, cursor : 0..now]
    BY Types, Constants DEF IInv
  <1>2. UNCHANGED <<now, home>> /\ [Next]_vars
    BY DEF SlotStep, MarkProcessing, RecordStarted, Load, Fetch, Store, StoreFails, Complete, StampPart,
           FailRun, FailAccount, Return, TryFault, NotSlot, provider, Next
  <1>14. slot[w].pc # "idle" /\ TargetOf(w) \in Targets \cup {0}
    <2>1. slot[w].pc # "idle"
      BY DEF SlotStep, MarkProcessing, RecordStarted, Load, Fetch, Store, StoreFails, Complete, StampPart,
             FailRun, FailAccount, Return, TryFault, At, InTry
    <2>2. run \in [Runs -> RunRecs] /\ slot[w].run \in Runs
      BY <2>1, Types DEF IInv, Held
    <2> QED
      BY <2>1, <2>2 DEF TargetOf, RunRecs
  <1>3. /\ Passed(TargetOf(w), slot[w].since)
        /\ \A t \in 1..now : (home[t] = TargetOf(w) /\ t <= slot[w].upto) =>
               t \in imported \cup skipped \cup slot[w].batch
        /\ slot[w].pc # "store" => slot[w].batch = {}
        /\ slot[w].left # {} => slot[w].pc = "stamp"
        /\ \A s \in Targets : Passed(s, Own(s))
    BY <1>14 DEF CInv, Fetched
  <1>4. \A v \in Slots : v # w => slot'[v] = slot[v]
    <2>1. CASE Return(w)
      BY <2>1 DEF Return
    <2> QED
      BY <2>1, SlotMoves
  <1>15. slot'[w].pc # "idle" => TargetOf(w)' = TargetOf(w)
    <2>1. CASE Return(w)
      BY <1>1, <2>1 DEF Return, Idle
    <2>2. CASE ~Return(w)
      BY <1>2, <1>14, <2>2, SlotMoves, TargetKept
    <2> QED
      BY <2>1, <2>2
  <1>16. ASSUME UNCHANGED cursor, account'.cursor = account.cursor
         PROVE  \A s \in Targets : Own(s)' = Own(s)
    BY <1>16 DEF Own
  <1>5. CASE MarkProcessing(w) \/ RecordStarted(w) \/ FailRun(w) \/ FailAccount(w)
    <2>1. /\ UNCHANGED <<imported, skipped, cursor>> /\ account'.cursor = account.cursor
          /\ slot[w].pc \notin {"store", "stamp"}
      <3>1. UNCHANGED account \/ account' = [account EXCEPT !.status = "error"]
        BY <1>5 DEF MarkProcessing, RecordStarted, FailRun, FailAccount, tables
      <3>2. account'.cursor = account.cursor
        BY <1>1, <3>1
      <3> QED
        BY <1>5, <3>2 DEF MarkProcessing, RecordStarted, FailRun, FailAccount, At, tables, stored
    <2>2. /\ slot'[w].since = slot[w].since /\ slot'[w].upto = slot[w].upto
          /\ slot'[w].batch = slot[w].batch /\ slot'[w].left = slot[w].left
      BY <1>1, <1>5 DEF MarkProcessing, RecordStarted, FailRun, FailAccount, Goto, SlotRecs
    <2>3. Fetched(w)'
      BY <1>2, <1>3, <1>15, <2>1, <2>2 DEF Fetched, Passed
    <2> QED
      BY <1>2, <1>4, <1>16, <2>1, <2>3, SlotFetched
  <1>6. CASE Load(w)
    <2>1. /\ UNCHANGED <<imported, account, cursor>> /\ slot[w].pc = "load"
          /\ skipped' = skipped \cup Elsewhere(TargetOf(w))
      BY <1>6 DEF Load, At, tables
    <2>2. /\ slot'[w].since = Start(TargetOf(w)) /\ slot'[w].upto = slot[w].upto
          /\ slot'[w].batch = slot[w].batch /\ slot'[w].left = slot[w].left
      BY <1>1, <1>6 DEF Load, SlotRecs
    <2>3. ASSUME NEW t \in 1..now, home[t] = TargetOf(w), t <= Start(TargetOf(w))
          PROVE  t \in imported \cup skipped'
      <3> DEFINE s == TargetOf(w)
      <3>1. s \in Targets
        BY <2>3 DEF CInv
      <3>2. CASE s # 0 /\ cursor[s] = 0
        <4>1. t <= account.cursor
          BY <2>3, <3>2 DEF Start
        <4>2. t \in Elsewhere(s)
          BY <1>1, <2>3, <3>2, <4>1 DEF Elsewhere
        <4> QED
          BY <2>1, <4>2
      <3>3. CASE ~(s # 0 /\ cursor[s] = 0)
        <4>1. Start(s) = Own(s)
          BY <3>3 DEF Start, Own
        <4> QED
          BY <1>3, <2>1, <2>3, <3>1, <4>1 DEF Passed
      <3> QED
        BY <3>2, <3>3
    <2>4. Fetched(w)'
      BY <1>2, <1>3, <1>15, <2>1, <2>2, <2>3 DEF Fetched, Passed
    <2> QED
      BY <1>2, <1>4, <1>16, <2>1, <2>4, SlotFetched
  <1>7. CASE Fetch(w)
    <2> DEFINE m == Max0(Newer(w) \cup {slot[w].since})
    <2>1. /\ UNCHANGED <<imported, account, cursor>> /\ slot[w].pc = "fetch"
          /\ skipped' = skipped \cup (Newer(w) \ Newest(Newer(w)))
      BY <1>7 DEF Fetch, At, tables
    <2>2. /\ slot'[w].since = slot[w].since /\ slot'[w].upto = m
          /\ slot'[w].batch = Newest(Newer(w)) /\ slot'[w].left = slot[w].left
          /\ slot'[w].pc = IF Newer(w) = {} THEN "complete" ELSE "store"
      BY <1>1, <1>7 DEF Fetch, SlotRecs
    <2>3. Newer(w) = {} => Newest(Newer(w)) = {}
      BY DEF Newest
    <2>4. ASSUME NEW t \in 1..now, home[t] = TargetOf(w), t \notin Newer(w)
          PROVE  t \in imported \cup skipped
      <3>1. t <= slot[w].since
        BY <1>1, <2>4 DEF Newer, SlotRecs
      <3> QED
        BY <1>3, <2>4, <3>1 DEF Passed
    <2> HIDE DEF m
    <2>5. ASSUME NEW t \in 1..now, home[t] = TargetOf(w)
          PROVE  t \in imported \cup skipped' \cup Newest(Newer(w))
      <3> DEFINE N == Newer(w)
                 page == Newest(Newer(w))
      <3>1. skipped' = skipped \cup (N \ page) /\ (t \notin N => t \in imported \cup skipped)
        BY <2>1, <2>4, <2>5
      <3> HIDE DEF N, page
      <3>2. t \in imported \cup skipped' \cup page
        BY <3>1
      <3> QED
        BY <3>2 DEF page
    <2>6. Passed(TargetOf(w), slot[w].since)'
      BY <1>2, <1>3, <1>15, <2>1, <2>2 DEF Passed
    <2>7. Fetched(w)'
      BY <1>2, <1>3, <1>15, <2>1, <2>2, <2>3, <2>5 DEF Fetched, Passed
    <2> QED
      BY <1>2, <1>4, <1>16, <2>1, <2>7, SlotFetched
  <1>8. ASSUME NEW t \in Items, Store(w, t) \/ StoreFails(w, t) PROVE CInv'
    <2>1. /\ UNCHANGED <<account, cursor>> /\ slot[w].pc = "store"
          /\ imported \subseteq imported' /\ skipped \subseteq skipped'
          /\ t \in imported' \cup skipped'
      BY <1>8 DEF Store, StoreFails, At, tables
    <2>2. /\ slot'[w].since = slot[w].since /\ slot'[w].upto = slot[w].upto
          /\ slot'[w].batch = slot[w].batch \ {t} /\ slot'[w].left = slot[w].left
          /\ slot'[w].pc = IF slot[w].batch = {t} THEN "complete" ELSE "store"
      BY <1>1, <1>8 DEF Store, StoreFails, Stored, SlotRecs
    <2>3. Fetched(w)'
      BY <1>2, <1>3, <1>15, <2>1, <2>2 DEF Fetched, Passed
    <2> QED
      BY <1>2, <1>4, <1>16, <2>1, <2>3, SlotFetched
  <1>9. CASE Complete(w)
    <2>1. UNCHANGED <<imported, skipped, account, cursor>> /\ slot[w].pc = "complete"
      BY <1>9 DEF Complete, At, stored
    <2>2. /\ slot'[w].since = slot[w].since /\ slot'[w].upto = slot[w].upto
          /\ slot'[w].batch = slot[w].batch /\ slot'[w].pc = "stamp"
      BY <1>1, <1>9 DEF Complete, SlotRecs
    <2>3. Fetched(w)'
      BY <1>2, <1>3, <1>15, <2>1, <2>2 DEF Fetched, Passed
    <2> QED
      BY <1>2, <1>4, <1>16, <2>1, <2>3, SlotFetched
  <1>10. ASSUME slot[w].pc # "store", NEW parts, Stamp(w, parts), UNCHANGED <<imported, skipped>>
         PROVE  \A s \in Targets : Own(s)' = Own(s) \/ Passed(s, Own(s))'
    <2>1. Passed(TargetOf(w), slot[w].upto)
      BY <1>3, <1>10 DEF Passed
    <2>2. UNCHANGED account \/ account'.cursor = slot[w].upto
      BY <1>1, <1>10 DEF Stamp
    <2>3. \A s \in Targets : cursor'[s] = cursor[s] \/ (cursor'[s] = slot[w].upto /\ s = TargetOf(w))
      BY <1>1, <1>10 DEF Stamp
    <2>4. 0 \in Targets => TargetOf(w) = 0
      BY <1>14, SyncAssumption DEF Targets
    <2>5. ASSUME NEW s \in Targets
          PROVE  Own(s)' = Own(s) \/ (Own(s)' = slot[w].upto /\ s = TargetOf(w))
      BY <2>2, <2>3, <2>4 DEF Own
    <2> QED
      BY <1>2, <1>10, <2>1, <2>5 DEF Passed
  <1>11. ASSUME NEW part \in {"account", "source"}, StampPart(w, part) PROVE CInv'
    <2>1. UNCHANGED <<imported, skipped>> /\ slot[w].pc = "stamp" /\ Stamp(w, {part})
      BY <1>11 DEF StampPart, At, stored
    <2>2. /\ slot'[w].since = slot[w].since /\ slot'[w].upto = slot[w].upto
          /\ slot'[w].batch = slot[w].batch /\ slot'[w].left = slot[w].left \ {part}
          /\ slot'[w].pc = IF slot[w].left = {part} THEN "audit" ELSE "stamp"
      BY <1>1, <1>11 DEF StampPart, SlotRecs
    <2>3. Fetched(w)'
      BY <1>2, <1>3, <1>15, <2>1, <2>2 DEF Fetched, Passed
    <2> QED
      BY <1>2, <1>4, <1>10, <2>1, <2>3, SlotFetched
  <1>12. CASE Return(w)
    <2>1. UNCHANGED <<imported, skipped, account, cursor>> /\ slot'[w] = Idle
      BY <1>1, <1>12 DEF Return, tables, stored
    <2>2. Fetched(w)'
      BY <1>1, <1>2, <2>1, EmptyFetched DEF Idle
    <2> QED
      BY <1>2, <1>4, <1>16, <2>1, <2>2, SlotFetched
  <1>13. CASE TryFault(w)
    <2>1. /\ UNCHANGED <<imported, skipped>>
          /\ slot'[w] = [Idle EXCEPT !.pc = "fail_run", !.run = slot[w].run]
      BY <1>1, <1>13 DEF TryFault, stored
    <2>2. Fetched(w)'
      BY <1>1, <1>2, <2>1, EmptyFetched DEF Idle
    <2>3. \A s \in Targets : Own(s)' = Own(s) \/ Passed(s, Own(s))'
      <3>1. PICK parts \in SUBSET slot[w].left : Stamp(w, parts)
        BY <1>13 DEF TryFault
      <3>2. CASE slot[w].left = {}
        BY <1>16, <3>1, <3>2 DEF Stamp
      <3>3. CASE slot[w].left # {}
        BY <1>3, <1>10, <2>1, <3>1, <3>3
      <3> QED
        BY <3>2, <3>3
    <2> QED
      BY <1>2, <1>4, <2>1, <2>2, <2>3, SlotFetched
  <1> QED
    BY <1>5, <1>6, <1>7, <1>8, <1>9, <1>11, <1>12, <1>13 DEF SlotStep

LEMMA CursorHolds ==
    ASSUME IInv, CInv, [Next]_vars
    PROVE  CInv'
  <1>1. now \in Nat /\ now \in 0..T /\ home \in [Items -> Targets \cup {0}] /\ slot \in [Slots -> SlotRecs]
        /\ account \in [status : {"connected", "paused", "error"}, due : BOOLEAN, cursor : 0..now]
        /\ cursor \in [Targets -> 0..now] /\ T \in Nat
    BY Types, Constants DEF IInv
  <1>2. ASSUME UNCHANGED <<now, home, imported, skipped, cursor, slot>>, account'.cursor = account.cursor
        PROVE  CInv'
    <2>1. ASSUME NEW w \in Slots PROVE Fetched(w)'
      <3>1. CASE slot[w].pc = "idle"
        BY <1>2, <3>1 DEF Fetched
      <3>2. CASE slot[w].pc # "idle"
        <4>1. TargetOf(w)' = TargetOf(w)
          BY <1>2, <3>2, TargetKept
        <4> QED
          BY <1>2, <4>1 DEF CInv, Fetched, Passed
      <3> QED
        BY <3>1, <3>2
    <2> QED
      BY <1>2, <2>1 DEF CInv, Passed, Own
  <1>3. ASSUME NEW w \in Slots, SlotStep(w) \/ TryFault(w) PROVE CInv'
    BY <1>3, CursorHoldsInSlot
  <1>4. ASSUME NEW w \in Slots, (\E r \in Runs : Take(w, r)) \/ ThrowFault(w) PROVE CInv'
    <2>1. UNCHANGED <<now, home, imported, skipped, account, cursor>>
      BY <1>4 DEF Take, ThrowFault, tables, NotSlot, provider, stored
    <2>2. PICK rec : /\ rec.since = 0 /\ rec.upto = 0 /\ rec.batch = {} /\ rec.left = {}
                     /\ slot' = [slot EXCEPT ![w] = rec]
      <3>1. CASE ThrowFault(w)
        BY <3>1 DEF ThrowFault, Idle
      <3>2. ASSUME NEW r \in Runs, Take(w, r)
            PROVE  slot' = [slot EXCEPT ![w] = [Idle EXCEPT !.pc = "mark", !.run = r]]
        BY <3>2 DEF Take
      <3>3. \A r : LET rec == [Idle EXCEPT !.pc = "mark", !.run = r]
                   IN  rec.since = 0 /\ rec.upto = 0 /\ rec.batch = {} /\ rec.left = {}
        BY DEF Idle
      <3> QED
        BY <1>4, <3>1, <3>2, <3>3
    <2>3. slot'[w] = rec /\ \A v \in Slots : v # w => slot'[v] = slot[v]
      BY <1>1, <2>2
    <2>4. Fetched(w)'
      BY <1>1, <2>1, <2>2, <2>3, EmptyFetched
    <2>5. \A s \in Targets : Own(s)' = Own(s)
      BY <2>1 DEF Own
    <2> QED
      BY <2>1, <2>3, <2>4, <2>5, SlotFetched
  <1>5. ASSUME NEW s \in Targets, Appear(s) PROVE CInv'
    <2>1. /\ now < T /\ now' = now + 1 /\ home' = [home EXCEPT ![now + 1] = s]
          /\ UNCHANGED <<imported, skipped, account, cursor, slot, run>>
      BY <1>5 DEF Appear, tables, stored
    <2>2. 1..now' = (1..now) \cup {now'} /\ now' \in Items /\ now' \notin 1..now
      BY <1>1, <2>1 DEF Items
    <2>3. \A t \in 1..now' : home'[t] \in Targets
      <3>1. home'[now'] = s /\ \A t \in 1..now : home'[t] = home[t]
        BY <1>1, <2>1, <2>2 DEF Items
      <3> QED
        BY <2>2, <3>1 DEF CInv
    <2>4. \A t \in 1..now : home'[t] = home[t]
      BY <1>1, <2>1, <2>2 DEF Items
    <2>5. ASSUME NEW k, NEW u \in 0..now, Passed(k, u)
          PROVE  \A t \in 1..now' : (home'[t] = k /\ t <= u) => t \in imported \cup skipped
      BY <1>1, <2>1, <2>2, <2>4, <2>5 DEF Passed
    <2>6. ASSUME NEW k \in Targets PROVE Passed(k, Own(k))'
      <3>1. Own(k) \in 0..now /\ Own(k)' = Own(k)
        BY <1>1, <2>1 DEF Own
      <3>2. Passed(k, Own(k))
        BY DEF CInv
      <3>3. \A t \in 1..now' : (home'[t] = k /\ t <= Own(k)) => t \in imported \cup skipped
        BY <2>5, <3>1, <3>2
      <3> QED
        BY <2>1, <3>1, <3>3 DEF Passed
    <2>7. ASSUME NEW w \in Slots PROVE Fetched(w)'
      <3>1. slot[w].since \in 0..now /\ slot[w].upto \in 0..now /\ ~(now' <= slot[w].upto)
        BY <1>1, <2>1 DEF SlotRecs
      <3>2. TargetOf(w)' = TargetOf(w) /\ slot'[w] = slot[w] /\ Fetched(w)
        BY <2>1 DEF TargetOf, CInv
      <3>3. ASSUME slot[w].pc # "idle" PROVE Passed(TargetOf(w), slot[w].since)'
        <4>1. Passed(TargetOf(w), slot[w].since)
          BY <3>2, <3>3 DEF Fetched
        <4>2. \A t \in 1..now' : (home'[t] = TargetOf(w) /\ t <= slot[w].since) =>
                                    t \in imported \cup skipped
          BY <2>5, <3>1, <4>1
        <4> QED
          BY <2>1, <3>2, <4>2 DEF Passed
      <3>4. ASSUME slot[w].pc # "idle", NEW t \in 1..now', home'[t] = TargetOf(w), t <= slot[w].upto
            PROVE  t \in imported \cup skipped \cup slot[w].batch
        <4>1. t \in 1..now /\ home[t] = TargetOf(w)
          BY <2>2, <2>4, <3>1, <3>4
        <4> QED
          BY <3>2, <3>4, <4>1 DEF Fetched
      <3> QED
        BY <2>1, <3>2, <3>3, <3>4 DEF Fetched
    <2> QED
      BY <2>3, <2>6, <2>7 DEF CInv
  <1>6. CASE BecomesDue \/ \E status \in {"connected", "paused"} : Patch(status)
    <2>1. \/ account' = [account EXCEPT !.due = TRUE]
          \/ \E status \in {"connected", "paused"} : account' = [account EXCEPT !.status = status]
      BY <1>6 DEF BecomesDue, Patch
    <2>2. account'.cursor = account.cursor
      BY <1>1, <2>1
    <2> QED
      BY <1>2, <1>6, <2>2 DEF BecomesDue, Patch, provider, stored
  <1>7. CASE Crash
    <2>1. UNCHANGED <<now, home, imported, skipped, account, cursor>> /\ \A w \in Slots : slot'[w] = Idle
      BY <1>7 DEF Crash, tables, provider, stored
    <2>2. \A w \in Slots : Fetched(w)'
      BY <1>1, <2>1, EmptyFetched DEF Idle
    <2> QED
      BY <2>1, <2>2 DEF CInv, Passed, Own
  <1>8. ASSUME NEW u \in Users, (\E s \in Targets \cup {0} : RequestRead(u, s)) \/ RequestStep(u)
        PROVE  CInv'
    BY <1>2, <1>8 DEF RequestRead, RequestStep, RequestInsert, RequestEnqueue, NotUser, provider, stored
  <1>9. ASSUME NEW p \in Passes, Scan(p) \/ PassStep(p) PROVE CInv'
    BY <1>2, <1>9 DEF Scan, PassStep, SkipActive, FindNone, CreateRun, EnqueueRun, NotPass, provider, stored
  <1>10. CASE UNCHANGED vars
    BY <1>2, <1>10 DEF vars, tables, provider, stored
  <1> QED
    BY <1>3, <1>4, <1>5, <1>6, <1>7, <1>8, <1>9, <1>10 DEF Next

\* No cursor passes an item that was neither imported nor skipped, however the runs
\* of the account overlap, fail and are executed again.
THEOREM CursorsAreHonest == Spec => []CursorIsHonest
  <1>1. Init => CInv
    <2> SUFFICES ASSUME Init PROVE CInv
      OBVIOUS
    <2>1. \A t : t \notin 1..now
      BY DEF Init
    <2> QED
      BY <2>1 DEF Init, CInv, Passed, Fetched, Idle
  <1>2. IInv /\ CInv /\ [Next]_vars => CInv'
    BY CursorHolds
  <1>3. CInv => CursorIsHonest
    BY DEF CInv, Passed, CursorIsHonest
  <1> QED
    BY <1>1, <1>2, <1>3, Inductive, PTL DEF Spec

=============================================================================
