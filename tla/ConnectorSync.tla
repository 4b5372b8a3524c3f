---------------------------- MODULE ConnectorSync ----------------------------
(***************************************************************************)
(* When a connected account is synced, and from which cursor.  The         *)
(* scheduler of the worker and the API insert connector_sync_runs rows and *)
(* enqueue a job for each; a slot of the connector worker executes the     *)
(* run: it marks the row, reads account and source, fetches what is newer  *)
(* than the cursor, stores it (see ConnectorStore), and writes the result  *)
(* to the run, the account and the source, one statement each.             *)
(*                                                                         *)
(* One account is modelled.  What appears at the provider is numbered in   *)
(* the order of its timestamps, so a cursor is a number; 0 is no cursor.   *)
(***************************************************************************)
EXTENDS Naturals, FiniteSets, FiniteSetsExt

CONSTANTS
    Sources,     \* connector_sources of the account; {} if it has none
    T,           \* bound: what appears at the provider in one behaviour, 1..T
    R,           \* bound: sync runs of one behaviour, 1..R
    Slots,       \* concurrency slots of the connector worker
    Passes,      \* scheduler passes that may overlap
    Users,       \* sync requests of one behaviour, each used once
    Page,        \* how many of the newest messages one sync can fetch
    Tolerant,    \* is a message that cannot be stored counted and left out?
    MaxAttempts, \* artifactJobOptions.attempts
    MaxFaults,   \* bound: failed calls in one behaviour
    MaxCrashes,  \* bound: crashes of the worker process in one behaviour
    MaxPatches,  \* bound: times the user pauses the account
    QueueFails   \* may a failed call be an enqueue?

Targets == IF Sources = {} THEN {0} ELSE Sources
Items == 1..T
Runs == 1..R

ASSUME SyncAssumption ==
    /\ Sources \subseteq Nat \ {0}
    /\ {T, R, MaxFaults, MaxCrashes, MaxPatches} \subseteq Nat
    /\ {Page, MaxAttempts} \subseteq Nat \ {0}
    /\ {Tolerant, QueueFails} \subseteq BOOLEAN

VARIABLES
    now, home,     \* 1..now have appeared; home[t] is the target they belong to
    imported,      \* what was stored as an artifact
    account,       \* status, nextSyncAt has passed or is null, cursor
    cursor,        \* cursor of each source
    run, job,      \* connector_sync_runs, and their jobs (job id = run id)
    ended,         \* history: the runs that have been completed or failed
    slot, pass, user,
    patches, faults, crashes,
    skipped,       \* history: items a sync did not fetch, or could not store
    overtaken,     \* history: passes with another one's insert since their look-up
    raced          \* history: the runs that such passes inserted

provider == <<now, home>>
stored   == <<imported, skipped>>
tables   == <<account, cursor, run, ended>>
races    == <<overtaken, raced>>
vars     == <<provider, stored, tables, job, slot, pass, user, races, patches, faults, crashes>>

RunStatus == {"none", "queued", "processing", "completed", "failed"}
SlotPcs == {"idle", "mark", "started", "load", "fetch", "store", "complete", "stamp",
            "audit", "fail_run", "fail_account", "fail_audit"}

NoRun == [status |-> "none", target |-> 0, scheduled |-> FALSE]
NoJob == [state |-> "absent", attempts |-> 0, stalled |-> FALSE]
Idle  == [pc |-> "idle", run |-> 0, since |-> 0, batch |-> {}, upto |-> 0, left |-> {}]
IdlePass == [pc |-> "idle", todo |-> {}, run |-> 0]
Min0(S) == IF S = {} THEN 0 ELSE Min(S)
Max0(S) == IF S = {} THEN 0 ELSE Max(S)

Init ==
    /\ now = 0
    /\ home = [t \in Items |-> 0]
    /\ imported = {}
    /\ account = [status |-> "connected", due |-> TRUE, cursor |-> 0]
    /\ cursor = [s \in Targets |-> 0]
    /\ run = [r \in Runs |-> NoRun]
    /\ job = [r \in Runs |-> NoJob]
    /\ ended = {}
    /\ slot = [w \in Slots |-> Idle]
    /\ pass = [p \in Passes |-> IdlePass]
    /\ user = [u \in Users |-> [pc |-> "idle", target |-> 0, run |-> 0]]
    /\ patches = 0
    /\ faults = 0
    /\ crashes = 0
    /\ skipped = {}
    /\ overtaken = {}
    /\ raced = {}

-----------------------------------------------------------------------------
(* The provider, the clock and the user *)

Appear(s) ==
    /\ now < T
    /\ now' = now + 1
    /\ home' = [home EXCEPT ![now + 1] = s]
    /\ UNCHANGED <<stored, tables, job, slot, pass, user, races, patches, faults, crashes>>

\* The cadence of the account has passed since its last sync.
BecomesDue ==
    /\ ~account.due
    /\ account' = [account EXCEPT !.due = TRUE]
    /\ UNCHANGED <<provider, stored, cursor, run, ended, job, slot, pass, user, races>>
    /\ UNCHANGED <<patches, faults, crashes>>

\* handlePatchConnectorAccount
Patch(status) ==
    /\ patches < MaxPatches
    /\ patches' = patches + 1
    /\ account' = [account EXCEPT !.status = status]
    /\ UNCHANGED <<provider, stored, cursor, run, ended, job, slot, pass, user, races>>
    /\ UNCHANGED <<faults, crashes>>

NewRun(r, s, scheduled) ==
    /\ run[r] = NoRun
    /\ \A q \in Runs : q < r => run[q] # NoRun
    /\ run' = [run EXCEPT ![r] =
                 [status |-> "queued", target |-> s, scheduled |-> scheduled]]

Enqueue(r) == job' = [job EXCEPT ![r] = [NoJob EXCEPT !.state = "waiting"]]

EnqueueFails ==
    /\ QueueFails
    /\ faults < MaxFaults
    /\ faults' = faults + 1
    /\ UNCHANGED job

NotUser == <<provider, stored, account, cursor, ended, slot, pass, races, patches, crashes>>

\* handleConnectorAccountSync: the account must be connected (a request may name
\* no source) ...
RequestRead(u, s) ==
    /\ user[u].pc = "idle"
    /\ account.status = "connected"
    /\ user' = [user EXCEPT ![u].pc = "insert", ![u].target = s]
    /\ UNCHANGED <<run, job, faults, NotUser>>

\* ... and a run is inserted, whether or not another one is active.
RequestInsert(u) ==
    /\ user[u].pc = "insert"
    /\ \E r \in Runs :
          /\ NewRun(r, user[u].target, FALSE)
          /\ user' = [user EXCEPT ![u].pc = "enqueue", ![u].run = r]
    /\ UNCHANGED <<job, faults, NotUser>>

\* A failed enqueue is a warning in the response.
RequestEnqueue(u) ==
    /\ user[u].pc = "enqueue"
    /\ \/ Enqueue(user[u].run) /\ UNCHANGED faults
       \/ EnqueueFails
    /\ user' = [user EXCEPT ![u].pc = "done"]
    /\ UNCHANGED <<run, NotUser>>

-----------------------------------------------------------------------------
(* The scheduler: enqueueDueConnectorSyncs *)

NotPass == <<provider, stored, account, cursor, ended, slot, user, patches, crashes>>

Scan(p) ==
    /\ pass[p].pc = "idle"
    /\ account.status = "connected"
    /\ account.due
    /\ pass' = [pass EXCEPT ![p] = [IdlePass EXCEPT !.pc = "find", !.todo = Targets]]
    /\ UNCHANGED <<run, job, faults, races, NotPass>>

\* Mutant: only runs that have not started count as active.
ActiveQueued(s) == \E r \in Runs : run[r].target = s /\ run[r].status = "queued"

\* findActiveConnectorSyncRun
Active(s) ==
    \E r \in Runs : run[r].target = s /\ run[r].status \in {"queued", "processing"}

NextTarget(p) == Min0(pass[p].todo)
Rest(p) == IF pass[p].todo = {NextTarget(p)} THEN IdlePass
           ELSE [pass[p] EXCEPT !.pc = "find", !.todo = @ \ {NextTarget(p)}]

SkipActive(p) ==
    /\ pass[p].pc = "find"
    /\ Active(NextTarget(p))
    /\ pass' = [pass EXCEPT ![p] = Rest(p)]
    /\ UNCHANGED <<run, job, faults, races, NotPass>>

FindNone(p) ==
    /\ pass[p].pc = "find"
    /\ ~Active(NextTarget(p))
    /\ pass' = [pass EXCEPT ![p].pc = "create"]
    /\ overtaken' = overtaken \ {p}
    /\ UNCHANGED <<run, job, faults, raced, NotPass>>

\* The passes that have looked for a run of the same target and found none.
Behind(p) ==
    {q \in Passes \ {p} : pass[q].pc = "create" /\ NextTarget(q) = NextTarget(p)}

CreateRun(p) ==
    /\ pass[p].pc = "create"
    /\ \E r \in Runs :
          /\ NewRun(r, NextTarget(p), TRUE)
          /\ pass' = [pass EXCEPT ![p].pc = "enqueue", ![p].run = r]
          /\ raced' = IF p \in overtaken THEN raced \cup {r} ELSE raced
    /\ overtaken' = overtaken \cup Behind(p)
    /\ UNCHANGED <<job, faults, NotPass>>

\* A failed enqueue ends the pass.
EnqueueRun(p) ==
    /\ pass[p].pc = "enqueue"
    /\ \/ /\ Enqueue(pass[p].run)
          /\ pass' = [pass EXCEPT ![p] = Rest(p)]
          /\ UNCHANGED faults
       \/ /\ EnqueueFails
          /\ pass' = [pass EXCEPT ![p] = IdlePass]
    /\ UNCHANGED <<run, races, NotPass>>

-----------------------------------------------------------------------------
(* The worker: executeConnectorSyncRun *)

Goto(w, label) == slot' = [slot EXCEPT ![w].pc = label]
At(w, label) == slot[w].pc = label
TargetOf(w) == run[slot[w].run].target
NotSlot == <<provider, pass, user, races, patches, crashes>>

SetRun(w, status) == run' = [run EXCEPT ![slot[w].run].status = status]
EndRun(w, status) == SetRun(w, status) /\ ended' = ended \cup {slot[w].run}

Take(w, r) ==
    /\ At(w, "idle")
    /\ job[r].state = "waiting"
    /\ job' = [job EXCEPT ![r].state = "active"]
    /\ slot' = [slot EXCEPT ![w] = [Idle EXCEPT !.pc = "mark", !.run = r]]
    /\ UNCHANGED <<stored, tables, faults, NotSlot>>

\* Mutant: a status no reader of the runs knows.
MarkRunning(w) ==
    /\ At(w, "mark")
    /\ SetRun(w, "running")
    /\ Goto(w, "started")
    /\ UNCHANGED <<stored, account, cursor, ended, job, faults, NotSlot>>

\* markConnectorSyncProcessing, whatever the status of the run is.
MarkProcessing(w) ==
    /\ At(w, "mark")
    /\ SetRun(w, "processing")
    /\ Goto(w, "started")
    /\ UNCHANGED <<stored, account, cursor, ended, job, faults, NotSlot>>

\* recordConnectorSyncStarted: the audit event, still before the try
RecordStarted(w) ==
    /\ At(w, "started")
    /\ Goto(w, "load")
    /\ UNCHANGED <<stored, tables, job, faults, NotSlot>>

\* source?.cursor ?? account.cursor
Start(s) == IF s # 0 /\ cursor[s] # 0 THEN cursor[s] ELSE account.cursor

\* What a source without a cursor leaves out by starting from the account's.
Elsewhere(s) ==
    IF s # 0 /\ cursor[s] = 0 THEN {t \in 1..account.cursor : home[t] = s} ELSE {}

Load(w) ==
    /\ At(w, "load")
    /\ slot' = [slot EXCEPT ![w].pc = "fetch", ![w].since = Start(TargetOf(w))]
    /\ skipped' = skipped \cup Elsewhere(TargetOf(w))
    /\ UNCHANGED <<imported, tables, job, faults, NotSlot>>

\* Newest(S): the newest messages, as many as one sync can fetch.
Newest(S) == {t \in S : Cardinality({n \in S : n > t}) < Page}
Newer(w) == {t \in 1..now : home[t] = TargetOf(w) /\ t > slot[w].since}

\* Without anything new the cursor stays the one the run started from.
Fetch(w) ==
    /\ At(w, "fetch")
    /\ slot' = [slot EXCEPT ![w].pc = IF Newer(w) = {} THEN "complete" ELSE "store",
                            ![w].batch = Newest(Newer(w)),
                            ![w].upto = Max0(Newer(w) \cup {slot[w].since})]
    /\ skipped' = skipped \cup (Newer(w) \ Newest(Newer(w)))
    /\ UNCHANGED <<imported, tables, job, faults, NotSlot>>

Stored(w, t) ==
    slot' = [slot EXCEPT ![w].batch = @ \ {t},
                         ![w].pc = IF slot[w].batch = {t} THEN "complete" ELSE "store"]

Store(w, t) ==
    /\ At(w, "store")
    /\ t = Min0(slot[w].batch)
    /\ imported' = imported \cup {t}
    /\ Stored(w, t)
    /\ UNCHANGED <<skipped, tables, job, faults, NotSlot>>

\* syncGmailMessage and storeDocumentImportItem count the failure and go on.
StoreFails(w, t) ==
    /\ At(w, "store")
    /\ Tolerant
    /\ faults < MaxFaults
    /\ faults' = faults + 1
    /\ t = Min0(slot[w].batch)
    /\ Stored(w, t)
    /\ skipped' = skipped \cup {t}
    /\ UNCHANGED <<imported, tables, job, NotSlot>>

\* Mutant: the counts are written and the status is left.
CompleteCounts(w) ==
    /\ At(w, "complete")
    /\ slot' = [slot EXCEPT ![w].pc = "stamp",
                            ![w].left = {"account"} \cup
                                        (IF TargetOf(w) = 0 THEN {} ELSE {"source"})]
    /\ UNCHANGED <<stored, tables, job, faults, NotSlot>>

\* completeConnectorSyncSuccess
Complete(w) ==
    /\ At(w, "complete")
    /\ EndRun(w, "completed")
    /\ slot' = [slot EXCEPT ![w].pc = "stamp",
                            ![w].left = {"account"} \cup
                                        (IF TargetOf(w) = 0 THEN {} ELSE {"source"})]
    /\ UNCHANGED <<stored, account, cursor, job, faults, NotSlot>>

\* Mutant: the cursor is the time of the completion.
StampNow(w, parts) ==
    /\ account' = IF "account" \in parts
                  THEN [account EXCEPT !.due = FALSE, !.cursor = now] ELSE account
    /\ cursor' = IF "source" \in parts
                 THEN [cursor EXCEPT ![TargetOf(w)] = now] ELSE cursor

\* updateConnectorSyncTimestamps: what is sent of the two updates
Stamp(w, parts) ==
    /\ account' = IF "account" \in parts
                  THEN [account EXCEPT !.due = FALSE, !.cursor = slot[w].upto] ELSE account
    /\ cursor' = IF "source" \in parts
                 THEN [cursor EXCEPT ![TargetOf(w)] = slot[w].upto] ELSE cursor

StampPart(w, part) ==
    /\ At(w, "stamp")
    /\ part \in slot[w].left
    /\ Stamp(w, {part})
    /\ slot' = [slot EXCEPT ![w].left = @ \ {part},
                            ![w].pc = IF slot[w].left = {part} THEN "audit" ELSE "stamp"]
    /\ UNCHANGED <<stored, run, ended, job, faults, NotSlot>>

\* failConnectorSyncRun: the run, then the account, whatever its status is.
FailRun(w) ==
    /\ At(w, "fail_run")
    /\ EndRun(w, "failed")
    /\ Goto(w, "fail_account")
    /\ UNCHANGED <<stored, account, cursor, job, faults, NotSlot>>

FailAccount(w) ==
    /\ At(w, "fail_account")
    /\ account' = [account EXCEPT !.status = "error"]
    /\ Goto(w, "fail_audit")
    /\ UNCHANGED <<stored, cursor, run, ended, job, faults, NotSlot>>

\* The audit event is written and the job is done.
Return(w) ==
    /\ slot[w].pc \in {"audit", "fail_audit"}
    /\ job' = [job EXCEPT ![slot[w].run].state = "completed"]
    /\ slot' = [slot EXCEPT ![w] = Idle]
    /\ UNCHANGED <<stored, tables, faults, NotSlot>>

InTry == {"load", "fetch", "store", "complete", "stamp", "audit"}

\* A failed call inside the try; of the updates under way any may be made.
TryFault(w) ==
    /\ slot[w].pc \in InTry
    /\ faults < MaxFaults
    /\ faults' = faults + 1
    /\ slot' = [slot EXCEPT ![w] = [Idle EXCEPT !.pc = "fail_run", !.run = slot[w].run]]
    /\ \E parts \in SUBSET slot[w].left : Stamp(w, parts)
    /\ UNCHANGED <<stored, run, ended, job, NotSlot>>

\* A failed call before the try or in the catch: the job throws.
ThrowFault(w) ==
    /\ slot[w].pc \notin InTry \cup {"idle"}
    /\ faults < MaxFaults
    /\ faults' = faults + 1
    /\ LET r == slot[w].run IN
       job' = [job EXCEPT ![r].attempts = @ + 1,
                          ![r].state = IF job[r].attempts + 1 < MaxAttempts
                                       THEN "waiting" ELSE "failed"]
    /\ slot' = [slot EXCEPT ![w] = Idle]
    /\ UNCHANGED <<stored, tables, NotSlot>>

Recovered(j) ==
    IF j.state # "active" THEN j
    ELSE [j EXCEPT !.state = IF j.stalled THEN "failed" ELSE "waiting", !.stalled = TRUE]

\* The worker process, with its slots and its scheduler, dies.
Crash ==
    /\ crashes < MaxCrashes
    /\ crashes' = crashes + 1
    /\ job' = [r \in Runs |-> Recovered(job[r])]
    /\ slot' = [w \in Slots |-> Idle]
    /\ pass' = [p \in Passes |-> IdlePass]
    /\ UNCHANGED <<provider, stored, tables, user, races, patches, faults>>

-----------------------------------------------------------------------------
RequestStep(u) == RequestInsert(u) \/ RequestEnqueue(u)
PassStep(p) == SkipActive(p) \/ FindNone(p) \/ CreateRun(p) \/ EnqueueRun(p)

SlotStep(w) ==
    \/ MarkProcessing(w) \/ RecordStarted(w) \/ Load(w) \/ Fetch(w)
    \/ \E t \in Items : Store(w, t) \/ StoreFails(w, t)
    \/ Complete(w) \/ \E part \in {"account", "source"} : StampPart(w, part)
    \/ FailRun(w) \/ FailAccount(w) \/ Return(w)

Next ==
    \/ \E s \in Targets : Appear(s)
    \/ BecomesDue
    \/ \E status \in {"connected", "paused"} : Patch(status)
    \/ \E u \in Users, s \in Targets \cup {0} : RequestRead(u, s)
    \/ \E u \in Users : RequestStep(u)
    \/ \E p \in Passes : Scan(p) \/ PassStep(p)
    \/ \E w \in Slots, r \in Runs : Take(w, r)
    \/ \E w \in Slots : SlotStep(w) \/ TryFault(w) \/ ThrowFault(w)
    \/ Crash

Spec == Init /\ [][Next]_vars

\* Requests, passes and slots go on, jobs are taken, and the clock and the
\* scheduler's timer keep running.
Fairness ==
    /\ WF_vars(BecomesDue)
    /\ \A u \in Users : WF_vars(RequestStep(u))
    /\ \A p \in Passes : WF_vars(Scan(p)) /\ WF_vars(PassStep(p))
    /\ \A w \in Slots, r \in Runs : WF_vars(Take(w, r))
    /\ \A w \in Slots : WF_vars(SlotStep(w))

FairSpec == Spec /\ Fairness

-----------------------------------------------------------------------------
(* Properties *)

TypeOK ==
    /\ now \in 0..T
    /\ home \in [Items -> Targets \cup {0}]
    /\ imported \subseteq 1..now
    /\ account \in [status : {"connected", "paused", "error"}, due : BOOLEAN, cursor : 0..now]
    /\ cursor \in [Targets -> 0..now]
    /\ run \in [Runs -> [status : RunStatus, target : Targets \cup {0}, scheduled : BOOLEAN]]
    /\ job \in [Runs -> [state : {"absent", "waiting", "active", "completed", "failed"},
                         attempts : 0..MaxAttempts, stalled : BOOLEAN]]
    /\ ended \subseteq Runs
    /\ slot \in [Slots -> [pc : SlotPcs, run : Runs \cup {0}, since : 0..now,
                           batch : SUBSET (1..now), upto : 0..now,
                           left : SUBSET {"account", "source"}]]
    /\ pass \in [Passes -> [pc : {"idle", "find", "create", "enqueue"},
                            todo : SUBSET Targets, run : Runs \cup {0}]]
    /\ user \in [Users -> [pc : {"idle", "insert", "enqueue", "done"},
                           target : Targets \cup {0}, run : Runs \cup {0}]]
    /\ patches \in 0..MaxPatches
    /\ faults \in 0..MaxFaults
    /\ crashes \in 0..MaxCrashes
    /\ skipped \subseteq 1..now
    /\ overtaken \subseteq Passes
    /\ raced \subseteq Runs

Own(s) == IF s = 0 THEN account.cursor ELSE cursor[s]

\* What a source's cursor has passed was imported: it is not asked for again.
\* Save what lay beyond the page a sync fetched, what could not be stored, and
\* what a source leaves out that starts from the cursor of the account.
CursorIsHonest ==
    \A s \in Targets : \A t \in 1..now :
        (home[t] = s /\ t <= Own(s)) => t \in imported \cup skipped

\* The same without exception.
NothingIsSkipped ==
    \A s \in Targets : \A t \in 1..now :
        (home[t] = s /\ t <= Own(s)) => t \in imported

\* Runs of the scheduler that are active.  A run that had ended and whose job the
\* queue delivers again is not one of them.
Scheduled(s) ==
    {r \in Runs \ ended : /\ run[r].scheduled /\ run[r].target = s
                          /\ run[r].status \in {"queued", "processing"}}

\* However many passes overlap, the scheduler keeps at most one active run per
\* source, save one that a pass inserted which another had overtaken between its
\* look-up and its insert.
OneScheduledRun ==
    \A s \in Targets : \A r, q \in Scheduled(s) \ raced : r = q

\* The same without exception.
OneRunPerSource ==
    \A s \in Targets : \A r, q \in Scheduled(s) : r = q

Settled(t) == t \in imported \cup skipped \/ account.status # "connected"

\* A run that was inserted and that nobody is about to enqueue.
Lost(r) ==
    /\ run[r].status = "queued"
    /\ job[r].state = "absent"
    /\ \A p \in Passes : pass[p].run # r
    /\ \A u \in Users : user[u].pc = "enqueue" => user[u].run # r

\* There is a run yet to come (their number is bounded).
RunLeft == run[R] = NoRun

\* What has appeared while a run is yet to come is imported in the end, or skipped
\* as above, as long as the account stays connected, unless a run was lost before
\* its enqueue.
AllImported ==
    \A t \in Items : (t <= now /\ RunLeft) ~> (Settled(t) \/ \E r \in Runs : Lost(r))

\* The same without exception: a lost run is made up for by a later one.
LossIsMadeUp == \A t \in Items : (t <= now /\ RunLeft) ~> Settled(t)

\* A user's decision to pause an account is not undone by a run.
PausedIsKept ==
    [][account.status = "paused" => (account'.status = "paused" \/ patches' # patches)]_vars

=============================================================================
