# Sivraj: verification project

Sivraj keeps a private "twin" of a user: it takes in documents, messages and the
content of connected services, encrypts and stores them, extracts memories from
them, and serves those memories to chat and to agents. The code is a TypeScript
monorepo (`src/apps`, `src/packages`). This directory models in TLA+ the background
machinery that turns content into memories, and the three ways a user talks to the
twin: the chat page, the Telegram bot and the voice chat. What is model-checked with
TLC, and what is proved with TLAPS, is said below.

All of the server side has one shape. A PostgreSQL row is the truth about one
thing (an artifact, an archive, a sync run); BullMQ jobs and timers cause work on
it; every write is a single SQL statement, and **no two statements are ever
grouped in a transaction** anywhere in the repository. So every module below has
the same granularity: one action per statement (or per call to the queue, to
storage or to Redis), and between two of them anybody else may run, fail or crash.
The web client has another: callbacks share React state, the last rendered copy of it
and a handful of refs; there an action is a callback up to its next `await`.

## 1. Inventory

| Part | State it keeps | Operations | Talks to | What makes it correct |
| --- | --- | --- | --- | --- |
| Artifact requests (`api/src/routes/artifact-handlers.ts`, `lib/http/route-helpers.ts`) | `source_artifacts` | upload, retry, event stream | queue, Redis channel | an upload or retry is never forgotten |
| Artifact processing (`worker/src/artifact-processing-job.ts`, `ingestion-processor.ts`, `ingestion/*`) | the row's status and `metadata.processing`, the memory fragment | claim, read, store, index, complete, fail, automatic retry, dead letter | queue, storage, intelligence queue | one processor at a time; "completed" is true; every artifact is settled |
| Intelligence (`ingestion-processor.ts`) | `metadata.processing.intelligence`, candidate rows | load, mark, extract, finalize | archive queue | the stage ends, its outcome is shown |
| Reconcilers (`worker-bootstrap.ts`) | none | scan of unfinished artifacts, due archives, due connectors, on timers that may overlap | all of the above | whatever a crash or a lost job leaves behind is taken up |
| Job queues (`packages/queue`) | BullMQ jobs: id, attempts, stalled; finished jobs are kept for a while | add (no-op for a known id), attempt, complete, fail | Redis | external; modelled from its use |
| Status channel (`packages/queue`, `handleArtifactEvents`) | map channel -> set of listeners, the Redis subscription | publish, subscribe, deliver, unsubscribe | the web app | streams end; nobody is told what has not been written |
| Candidate archive (`candidate-memory-methods.ts`, `memory-extraction.ts`) | `candidate_memories`, `candidate_memory_archives` | persist, enqueue, store, point, mark, retry | durable storage (Walrus) | a memory refers only to stored content that contains it; every batch arrives |
| Connector artifacts (`connectors/storage.ts`) | artifacts, fragments, candidates of a source | skip unchanged, insert, supersede | artifact processing | one artifact per content; the current one is the one served |
| Connector sync (`connectors/sync-run.ts`, `sync-scheduler.ts`, `sync-timing.ts`) | `connector_sync_runs`, account and source cursors, due time | request, schedule, fetch, store, complete, fail, pause | providers | the cursor passes only what was imported; one scheduled run per source |
| Telegram capture (`routes/telegram-handlers.ts`, `lib/telegram/*`) | link tokens, connector account and source, `telegram_ingested_messages` | mint, link, disconnect, claim, capture, correct, ask, unlink | Telegram, artifacts, canonical memories | one linked twin; a message takes effect once; a claim is settled |
| Chat turns (`lib/chat/streaming-turn.ts`, `turn-persistence.ts`, `chat-learning-queue.ts`; web `hooks/chat/*`, `lib/chat/*`) | `chat_turns`, `chat_messages`; the state of the page | send, stop, retry, switch thread; create, answer, cancel, fail, learn | LLM, intake, artifacts | what is told is stored; what is private is not kept; turn and page come to rest |
| Canonical memories (`canonical-memory-repository.ts`, `memory-intake.ts`, `memory-corrections.ts`) | `canonical_memories`, candidates | upsert from an extraction, intake of what is said, forget, correct, review | extraction, chat, Telegram | support is counted; what is forgotten stays so; only what the user said is served |
| Voice chat (web `hooks/voice/use-homepage-voice-chat.ts`, `lib/voice/*`) | reducer, its rendered copy, refs to microphone, transcriber, recorders, player | start and stop (key, wake phrase, timer), transcribe, fall back, speak, interrupt, leave | chat turns, speech sockets | words are taken up once and for their own event; no microphone is forgotten; the page comes to rest |
| Weekly reflections, agent tokens and writebacks, sessions, context packets, account wipe | own tables | see the plan | | not modelled yet |
| Parsers, extraction heuristics, ranking, graph, LLM, encryption, storage, voice service, CLI, MCP, contract | | | | not modelled (section 9) |

The hard behaviours are: interleavings of job slots, reconciler passes and requests
on one row; rows read at the start of a handler and written back at its end;
partial failures between statements; crashes and stalled jobs; job ids that the
queue ignores the second time; messages that are lost or overtake the subscription;
cursors. `PROJECT.json` lists each at the line where it bites, with the properties
that watch it; those for which a counterexample stands in section 4 have a note. In the
parts not modelled yet there are more of the same kind, which the plan takes up: refresh sessions are found, revoked and replaced in three statements
(`routes/auth.ts:150`), two context warm-ups both find no packet and insert
(`context-warmup.ts:30`), a reflection run stays "processing" when its
last attempt throws (`ingestion-processor.ts:1065`), and workers hold rows of an account
that is wiped (`terminal-account-wipe.ts:87`).

## 2. Modules

| Module | Models |
| --- | --- |
| `ArtifactPipeline` | an artifact from the upload to the end of its intelligence stage: requests, job slots, reconciler passes, intelligence slots, all on one row |
| `ArchiveDelivery` | abstract: batches are held, become stored, candidates are pointed at a stored batch that contains them |
| `CandidateArchive` | the extraction, archive worker and reconciler that implement `ArchiveDelivery` |
| `StatusStream` | the worker's publications, the Redis connection, the shared subscriber, the streams |
| `ConnectorStore` | unchanged content, insert and supersession against the processing of the same artifacts |
| `ConnectorSync` | runs, schedule, cursors |
| `TelegramCapture` | linking of a chat to a twin, the claim of its messages and what becomes of them |
| `ChatTurn` | a chat page and the turns it starts, from the send to the learning of the exchange |
| `CanonicalMemory` | extractions, chat intake, Telegram commands and reviews on the canonical rows and their candidates |
| `VoiceChat` | the voice chat of the homepage in one tab |
| `ArtifactPipeline_proofs`, `CandidateArchive_proofs`, `ConnectorStore_proofs`, `ConnectorSync_proofs`, `TelegramCapture_proofs`, `ChatTurn_proofs`, `CanonicalMemory_proofs`, `VoiceChat_proofs` | theorems about the module of that name (section 5); `ArtifactPipeline_proofs` ends with those about `StatusStream`, which it extends as well |
| `MC*` | model values and symmetry for TLC |

`map` in `PROJECT.json` gives the lines behind every definition. The state variables
are named for columns (`status`, `meta`, `archive`, `run`), the rest are the local
variables of handlers: a program counter per slot, pass or request, and what it has
read and will write back (`snap`, `esnap`, `psup`, ...). Definitions whose comment
begins with `Mutant:` are never part of a specification; they are the plausible bugs
that show a property can fail.

**ArtifactPipeline.** `Mark` is the UPDATE by id of `markArtifact`; `fresh` is whether
`updatedAt` is within the five minutes of `RECOVERABLE_PROCESSING_AGE_MS`. A
*processor* is a job slot or a reconciler pass: `Claim` is the conditional UPDATE,
`HoldBack`/`ReadTransient`/`Reject`/`RejectSilently` are the early ends of
`processClaimedArtifact`, `FindFragment` … `Complete` its way to "completed". An
error leaves through `VisitFails`: a slot enters the catch block
(`FatalRead` … `DeadLetterThrow`), a pass is abandoned with the rows it had left, as
`processQueuedArtifacts` rethrows. `will_retry` returns normally, which completes the
BullMQ job, so its backoff never applies; only a dead letter and an error of the catch
block throw. Intelligence jobs have the artifact's id as job id, so a second enqueue
is ignored.

**CandidateArchive.** Encryption is randomised, so each extraction attempt makes its
own archive row; batch `b` is attempt `b`. One chunk is extracted at a time (the code
runs two chunks of a long document at once; their candidates have different rows).
`cand[c].batch` is the batch the row's `statementIndex` counts in, `cand[c].ref` the
batch its `statementStorageRef` names. `StoreRefused` is the empty wallet: the job
returns normally and the row waits as `failed_blocked`. `Evict` lets the queue forget
a completed job.

**StatusStream.** `cmds` and `inbox` are the two directions of the one Redis
connection. A set of listeners is an object: `current` is the one in the map, a
stream keeps its own (`mine`). A refused SUBSCRIBE ends its stream by an exception
(`SubscribeThrows`) and leaves the set in the map (`refused`): later streams join it and
are told nothing until the last of them leaves. Reconciler passes publish nothing
(`silent`).

**ConnectorStore.** One account and source, which is the scope of
`connectorArtifactScope`. The processing of an artifact is abstracted to what touches
the columns that supersession writes: the metadata read at the claim and written back
(`psup`), the fragment and the candidates.

**ConnectorSync.** One account. What appears at the provider is numbered in the order
of its timestamps, so cursors are numbers. `Page` is how many of the newest items one
sync can fetch; `Tolerant` whether an item that cannot be stored is counted and
left out (Gmail, Slack) or fails the run. Four variables are history: `ended`, the runs
that have been completed or failed once, which a stalled job may nevertheless execute
again; `skipped`, the items that a sync left out (beyond its page, not stored, or before
the account's cursor, where a source without one starts); `overtaken`, the passes with
another pass's insert since their look-up; and `raced`, the runs that those inserted.

**TelegramCapture.** One Telegram user in one chat; two twins may want it. A handler is
a webhook request; `Deliver` posts an update that is not done, again if need be:
after a failed answer, after a request that did not answer in time (`TimeOut`; the
handler goes on) and after a restart (`Crash`). `app` is the owner of a twin in the web
app, who mints tokens and disconnects. An upsert of the account or the source row looks first
and then updates or inserts; rows are never deleted, so finding and updating is one step,
while another request may insert between the look and the insert, which then throws
(`InsertRefused`; the indexes are unique). `cut`, `overlapped` and `moved` are history:
updates whose handler was cut off, those which two handlers held at once, and messages
handled for a twin when they had taken effect for another, since the user linked it in
between. A behaviour begins in one of `Scenarios`.

**ChatTurn.** A send is one call of `sendContent` with its request, its handler and its
rows; a retry is a new send with the `content` of the failed one. `hpc` is the handler
(`InTry`, `InCatch` are the two blocks of `runStreamingChatTurn`), `late` the UPDATE to
"retrieving_context" that `Promise.all` may leave behind, `wire` the events that the
page has not read. `marred` marks turns of which a last write was lost or overtaken.
The intake takes in one thing per turn.

**CanonicalMemory.** A row is named by its key. An extraction job goes through its
memories one by one: `FindCanonical` reads, `Judge` may merge it into another row
(`Reread`), `UpdateCanonical` or `InsertCanonical` writes metadata merged from what was
read, `CreateCandidate`/`ReviseCandidate` writes the candidate. The chat intake and the
Telegram command do the same from their side. `currentTruth.status` is left out, since a
row is approved only by writes that also set it "active"; the matches of a command are
read at one moment; each fact of a chat message is an intake of its own. `State` is the
moment a fact is stated, `TakeFact` the later one at which the intake reads its row. Two
variables are history: `since`, what has been stated after a command matched it, and
`crossed`, what had been stated before and was not yet written when a command matched it.

**VoiceChat.** `ui` is the reducer's state and `seen` what `stateRef` shows, which
`Commit` brings up to date; `transcriber`, `fallback`, `batchRef`, `abortRef`, `timerRef`
and `pending` are the refs, each naming the event whose object it holds. `Rendered` says
that an answer from the network takes longer than a render. `chain` is the promise chain
of a stopped transcriber. `cancelVoiceTurn` and the settings form are not reachable from
any page and are left out; a browser with an AudioContext is assumed; stopping the
recorder of the fallback copy is one step; the recognizers of successive renders are one.
`SessionRefreshed` is the parent handing down a new session object, on which the effects
for the key and the wake phrase run again. `asked` and `strayed` are history: the key
events the user asked to end, less those whose stop a cleanup has dropped (`DropStop`),
and the events that were begun while the others did not know of it (`Strays`): before
the render of another start, by a recognizer that was told to stop or on a page that was
left, or past a ref that no longer leads to the turn that speaks, because an older turn,
cut short and played out since, has emptied it.

## 3. Runs

| Run | Question | Instance | Outcome |
| --- | --- | --- | --- |
| `pipeline_safe` | Who may hold an artifact, and what does "completed" promise, across failed attempts, automatic and user retries, the dead letter, passes, intelligence, slow documents and processors slower than five minutes? | 1 artifact, 2 job records, 2 slots, 1 pass, 1 intelligence slot, 1 request, 2 failed calls | `TypeOK`, `SingleHolder`, `CompletedHasFragment` hold |
| `pipeline_live` | Is every artifact settled after a failed call and a crash, also beside one that waits for a missing component? | 2 artifacts, one unserved, 1 slot, 1 pass, crash | `Settles`, `UnservedWaits` hold |
| `archive_safe` | What may a memory refer to; what does "archived" promise; does the code implement `ArchiveDelivery`? | 2 attempts, 2 candidates, 1 slot, 1 pass, 1 failed call, 1 refused store | `TypeOK`, `ArchivedIsReadable`, `DeliverySafe` hold |
| `archive_live` | Does every batch reach storage? | 1 batch, 3 attempts, 2 failed calls, a crash, 2 overlapping passes | `DeliveryLive` holds |
| `stream_safe` | Does the Redis subscription follow the map; is an end written before it is told; is every stream closed? | 2 streams, 1 mishap: a lost message, a refused SUBSCRIBE, a silent pass, or a client gone before the route listens for it; others leave at any time | `StreamTypeOK`, `SubscriptionFollowsMap`, `EndWasWritten`, `StreamsClose` hold |
| `store_safe` | One artifact per content, a source that is never left unserved, the current content found in the end | 1 item, 2 versions, 3 artifacts, 3 edits (also back), 2 failed runs | `StoredOnce`, `AlwaysServed`, `CurrentIsServed`, `TypeOK` hold |
| `sync_cursor` | Is the cursor honest, is everything imported that appears while a run is still to come? | 2 slots, 2 runs (scheduled and requested), 2 items, a crash | `CursorIsHonest`, `AllImported` hold |
| `sync_scheduled` | One scheduled run per source | 2 sources, 2 passes that overlap, 2 runs, a failed call, lost enqueues, a crash, pause | `OneScheduledRun`, `TypeOK` hold |
| `telegram_claims` | Who is linked in the end; what becomes of a message that is posted again and again? | 2 twins with a token each, 1 message of every kind, 2 requests at once, restarts, failed calls, late answers, an owner who disconnects, a user who links another twin meanwhile | `OneAccount`, `OneEffect`, `DuplicateIsSettled`, `ClaimSettles` hold |
| `chat_turns` | Is what the page is told stored, what is private not kept, does every turn and the page come to rest? | 2 sends (two messages, or one and its retry), 2 threads, 1 stop or switch, 1 failed call, broken connection or dead API | `ToldIsStored`, `PrivateStaysPrivate`, `LearnedFromAnswers`, `TurnSettles`, `PageSettles` hold |
| `canonical_safe` | Is support counted and forgetting final, although all writers merge into what they read earlier? | 2 keys, 2 extraction jobs (of two artifacts, of one, or one run twice), 2 attempts, an intake, a command, a review, 1 failed call | `SupportIsCounted`, `ForgetHolds`, `ServedByUser` hold |
| `voice_chats` | Are words taken up once and for their own event, is every microphone held, no stop lost, and does the page come to rest? | 2 recordings by key, 1 by wake phrase, 1 fault: a failed call, a socket that breaks or ends early, a recorder refused, the session refreshed, or the page left | `TypeOK`, `TakenOnce`, `MicIsHeld`, `WordsAreTheirs`, `EndsItsOwn`, `TurnSettles`, `StopHolds` hold |

`CHECK_DEADLOCK FALSE` stands in the configurations in which every budget may be used
up with nothing left to do.

### Bounds, and why they are enough

The budgets (`MaxFaults`, `MaxCrashes`, `MaxMishaps`, `MaxMoves`, `MaxReviews`,
`MaxHangs`, `MaxEdits`, `MaxPatches`, `MaxSends`, `B`, `R`, `T`, `A`, the scenarios of
`TelegramCapture`, one use per request, key or fact) bound how often the environment acts, never what the
code does. The races of this code are between *two* writers of one row, with one
failed call or crash opening the window, so two processors of each kind (or a slot
against a pass) and one or two faults reach them; every mutant is found within these
bounds. The constants of the code that are counters (3 attempts, 5 automatic retries,
10 rows per scan, 10 messages per page) are smaller, but always large enough to be
used and to be exhausted. The proofs of section 5 lift all of these bounds, for the
safety properties they reach. Two of those properties were once stated too strongly,
which an instance did not show and the proof did. With two extraction attempts
`ArchivedIsReadable` holds without its exception (`FoundAgain`); with three it does not,
since an attempt may write back the reference it read after a later one has found the
memory again. Without crashes `OneScheduledRun` holds without its exception (`ended`);
with one, a stalled job executes a run that is over beside the next. `sync_cursor` skips
no item and `sync_scheduled` sees no third run; the theorems about their invariants have
neither limit.

What the passing instances leave out on purpose, because the code does not keep the
property there: two sync runs of one source that execute `storeConnectorArtifact`
at once and two items in one source (`store_safe`); more waiting rows than a scan
reads and payloads that parse to nothing (`pipeline_live`); events that stray
(`MaxStrays`) and a speech socket that breaks when all text was handed over (`MaxHangs`)
(`voice_chats`). Section 4 gives the counterexamples. The properties of `VoiceChat` but
`TypeOK` promise nothing once an event has strayed, and `MicIsHeld` and `StopHolds`
nothing of a session that failed because no recorder could be had; `StopHolds` excepts
the stops that a cleanup has dropped. `StreamsClose` excepts a client
gone before the route listens, `SubscriptionFollowsMap` an entry whose own SUBSCRIBE was
refused, `OneEffect` messages that two requests held at once and,
of one twin only, those that came again after the user had linked another,
`DuplicateIsSettled` and `ClaimSettles` those whose request was cut off, `TurnSettles` of
`ChatTurn` turns that a dead API or a lost write has marred; `ForgetHolds` excepts what
is spoken of again, what had been spoken of and was not yet written when the command
matched, and agent instruction files. `CurrentIsServed` excepts artifacts that have been retired before
their content came back, `AllImported` excepts a run lost before its enqueue,
`OneScheduledRun` a run that had ended and is executed again and those that a pass
inserts after another pass has overtaken it, `CursorIsHonest` what is in `skipped`, and
`SingleHolder` excepts artifacts whose claim was overridden (`overtaken`): by the
five-minute rule against a live processor, by a user retry, or by a late automatic
retry. Only these override a claim.

### Fairness

Weak fairness for what the event loop and the timers of the code guarantee: a handler
that has begun takes its next step, a waiting job is taken by a free slot, timers fire
again, five minutes (`Age`), `nextRetryAt` (`BecomesDue`) and the sync cadence pass.
Strong fairness only where two jobs or items compete for one slot (`Take` in
`CandidateArchive`; `Fetch` in `ConnectorStore`): BullMQ takes jobs in order and a
schedule returns to every source. `IndexDone` has its own fairness in
`ArtifactPipeline`, because a document has finitely many batches. `Abort` in
`StatusStream` is fair because the web client gives up after ten minutes. In `ChatTurn`
all steps of handlers, statements and page are fair together: a send has finitely many
of them. In `TelegramCapture` each handler is; whether Telegram posts again is not
assumed. In `VoiceChat` it is React's render (`Commit`), and the callbacks of the
recordings (`Listening`) and of speech (`Speaking`), all together: while one of them can
go on, one does; an event has finitely many, timers fire, sockets open or fail, the
service ends its answer. `CanonicalMemory` has safety properties only. Nothing
is assumed of failures, crashes, users or the provider.

## 4. What the code does not keep

The configurations below are kept beside the runs: TLC prints the behaviour that breaks
the property (`tlc -config <file>.cfg <module>`). A configuration with several
properties has all but one of them commented out, some with a constant to be changed for
them, which the table names. Each property states what a
document, a comment, a reply text or a test of the repository says, or what its user
would take for granted.

| Configuration | Property | What the code does |
| --- | --- | --- |
| `MCPipelineFaults` | `IntelligenceEnds` | the last attempt throws after "processing" was written; nothing writes "failed" (`ingestion-processor.ts:293`), though `docs/INFRASTRUCTURE.md:50` wants an explicit status |
| | `BackoffAdvances` | a failed read replaces `metadata.processing` and with it `autoRetryCount` (`process-claimed-artifact.ts:99`) |
| `MCPipelineBroken` | `QueuedIntelligenceHasJob` | the intelligence job may be over before the row is written with intelligence "queued" (`artifact-helpers.ts:767`) |
| | `CompletedIsKept` | an UPDATE by id alone turns "completed" into "failed" (`repository/artifact-helpers.ts:51`) |
| `MCPipelineSilent` | `Settles` | a payload that parses to nothing is reported failed but not marked (`process-claimed-artifact.ts:436`) |
| `MCPipelineStarved` | `Settles` | rows that wait fill every scan (`artifact-methods.ts:21`) |
| `MCArchiveBroken` | `QueuedMoves` | a batch that waited for the wallet is enqueued again under the id of its finished job, which the queue ignores (`ingestion-processor.ts:191`) |
| | `ArchivedStays` | "queued" is written after the job has archived (`candidate-memory-methods.ts:275`) |
| | `IntelligenceKept` | stale artifact metadata is written back (`ingestion-processor.ts:800`) |
| | `StatementIsOwn` (`B = 2`, `MaxFaults = 2`) | an older batch is archived last (`candidate-memory-methods.ts:85`) |
| `MCStreamBroken` | `ListenerIsReached` | the map entry disappears while SUBSCRIBE is awaited (`packages/queue/src/index.ts:753`) |
| | `EntryIsSubscribed` | a rejected SUBSCRIBE leaves its set in the map, and later streams join it without subscribing (`packages/queue/src/index.ts:750`) |
| | `AlwaysCloses` | the abort listener is added after the first write (`artifact-handlers.ts:640`) |
| | `HearsTheEnd` | the row is read before the subscription and not again (`artifact-handlers.ts:619`) |
| `MCStoreBroken` | `CurrentIsFound` | returning content equals a superseded artifact and is skipped (`connectors/storage.ts:57`) |
| | `StaleIsRetired` | what is created after the supersession stays live (`connectors/storage.ts:206`) |
| | `SupersededStays` | processing writes back metadata without the mark (`artifact-helpers.ts:772`) |
| | `UnchangedIsSettled` | after a failed run nothing supersedes the older artifact (`connectors/storage.ts:43`) |
| `MCStoreSiblings` | `CurrentIsFound` | one item's artifact supersedes another's (`storage-helpers.ts:38`) |
| `MCStoreConcurrent` | `AlwaysServed` | two runs supersede each other's artifact (`connectors/storage.ts:76`) |
| `MCSyncLost` | `LossIsMadeUp` | a run row without a job counts as active for ever (`sync-scheduler.ts:104`) |
| | `AllImported` | so does a row whose job stalled twice (`sync-scheduler.ts:126`) |
| | `OneRunPerSource` | two passes that overlap both find no active run and insert one (`sync-scheduler.ts:96`) |
| `MCSyncPage` | `NothingIsSkipped` | one page is fetched, the cursor passes the rest (`gmail-import.ts:102`) |
| `MCSyncShared` | `NothingIsSkipped` | a source without a cursor starts at the account's (`sync-timing.ts:48`) |
| `MCSyncFailedItem` | `NothingIsSkipped` | the cursor passes what could not be stored (`gmail-sync.ts:89`) |
| | `PausedIsKept` | a failing run sets the account to "error" whatever it was (`sync-run.ts:217`) |
| `MCTelegramCut` | `AlreadyCaptured` | a message whose request was cut off stays "processing" and is answered "Already captured." (`telegram-handlers.ts:1662`, `replies.ts:25`) |
| | `OneTwin` | a message is cut off after its artifact, the user links another twin, the message comes again and takes effect there as well: rows are looked up by account (`telegram-handlers.ts:1656`) |
| | `SourceFollowsAccount` | an unlink that is cut off between its two statements, or an owner who disconnects while a link command is between its two, leaves a connected source without an account (`telegram-handlers.ts:470`) |
| | `OneClaim` (`Mishaps = {"timeout"}`) | the loser of the insert takes the winner's "processing" row for its own claim (`telegram-handlers.ts:1712`) |
| | `LinkConnects` (`Mishaps = {"timeout"}`) | two link commands disconnect each other's account (`telegram-handlers.ts:1546`) |
| `MCChatBroken` | `EndIsTold` | `createQueuedTurn` throws outside the try: the stream ends without an event (`streaming-turn.ts:125`) |
| | `StopReaches` | the end of a send empties the ref of a newer one (`use-chat-message-actions.ts:151`) |
| | `StreamIsShown` | events of a stream are applied to the thread shown meanwhile (`chat-thread-action-runners.ts:64`) |
| | `RetryStays` | the failed message of one thread is retried in another (`chat-thread-action-runners.ts:64`) |
| | `AnsweredOnce` | a connection that breaks after the answer was stored, or a thread list that cannot be loaded, offers the message for a retry, and it is answered again (`use-chat-message-actions.ts:140`) |
| | `CanGoOn` | a failed switch shows "failed" with nothing to retry (`chat-thread-action-runners.ts:86`) |
| | `TurnEnds` | nothing takes up the turns of an API that died (`streaming-turn.ts:125`) |
| `MCCanonicalBroken` | `StoredIsServed` | an extraction writes back the metadata it read before the user said it (`canonical-memory-repository.ts:67`) |
| | `CorrectionStays` | the same for a correction |
| | `EvidenceIsListed` | concurrent merges lose evidence hashes (`canonical-memory-repository.ts:70`) |
| | `CountedOnce` | a repeated extraction adds its evidence again (`canonical-memory-repository.ts:68`) |
| | `ForgottenLeavesNothing` | a candidate that was not matched, or arrives later, stays (`memory-corrections.ts:95`) |
| | `ForgetHoldsStated` | a fact stated before the forget command and written after it brings the row back (`memory-intake.ts:397`, `memory-corrections.ts:95`) |
| | `RejectedStays` | the next extraction of an instruction file approves a rejected candidate (`memory-extraction.ts:250`) |
| `MCVoiceBroken` | `ListeningIsHeard` | the end of a socket turns the microphone off while the page shows it is recording (`realtime-stt.ts:98`, `:116`) |
| | `CopyIsKept` | there is no copy when the recorder could not be had (`use-homepage-voice-chat.ts:921`, `:959`), or when the tracks ended before it was stopped (`:968`) |
| | `SilentWhileListening` | an abort does not stop the player once all text is spoken for (`use-homepage-voice-chat.ts:821`) |
| | `OneThread` | a turn cut before the first answer leaves no thread; the next makes another (`use-homepage-voice-chat.ts:722`) |
| | `LeavingReleases` | leaving during the permission prompt or the handshake leaves the microphone on (`use-homepage-voice-chat.ts:673`) |
| | `FailedReleases` | a recorder that is refused or does not start leaves the granted stream on, with no ref to it (`use-homepage-voice-chat.ts:431`, `:444`) |
| | `StopStands` | a session refreshed, or the page left, while the socket opens drops the stop that the user asked for (`use-homepage-voice-chat.ts:536`) |
| | `TurnSettles` (`MaxHangs = 1`) | a speech socket that breaks after `close()` never settles its promise (`realtime-tts.ts:127`) |
| `MCVoiceOrphan` | `AllHeld` | a wake result before the render opens a second recording over the refs of the first (`use-homepage-voice-chat.ts:606`) |
| | `AllTheirs`, `AllOnce` | the event of the last render is then not that of the transcriber in the ref (`use-homepage-voice-chat.ts:241`); one of the two is taken up twice |
| | `NoneEnds` | and the end of the turn of one ends the other |
| | `DeafWhenLeft` (`MaxFaults = 1`) | the recognizer of a page left while it waited starts again, and the phrase opens the microphone (`use-homepage-voice-chat.ts:620`) |
| `MCVoiceOther` | `NoneEnds` | speech that outlasts the next recording empties the ref by which the newer turn is cut short; that one runs on through a third recording and its `SPEECH_ENDED` ends it (`use-homepage-voice-chat.ts:843`, `:836`) |
| | `AllTheirs`, `AllOnce`, `AllHeld` (4 keys) | the page is then at rest, and the next key press opens a fourth recording over the refs of the third |

Further observations made while modelling: reconciler passes publish no status, so a
stream learns of their outcome only through the intelligence job; the intelligence
worker announces "completed" before it has read anything (`worker-bootstrap.ts:169`);
`nextSyncAt` null counts as due; `executeConnectorSyncRun` looks at neither the status
of the run nor that of the account, so a stalled job executes a completed run again,
which is then "processing" beside a newer scheduled one;
evidence counts of canonical memories are kept right by an increment in SQL, the only write of
those rows that is not made from what was read.

## 5. What is proved

Every theorem holds for all values of the constants that satisfy the named assumption
of its module (`PipelineAssumption`, `ArchiveAssumption`, ...): the budgets are numbers,
the sets that a handler needs are not empty, different kinds of actors are different,
streams and sync workers are finitely many. No assumption bounds how many artifacts, slots,
passes, messages, attempts, failures or crashes there are. Where a theorem has a further
hypothesis it is in its statement and in the table, and section 4 shows the property to be false without it.

| Theorem | States | Under |
| --- | --- | --- |
| `ArtifactPipeline_proofs`: `TypeCorrect`, `OneHolder`, `CompletedIsReal` | `TypeOK`, `SingleHolder`, `CompletedHasFragment` | |
| `CandidateArchive_proofs`: `TypeCorrect`, `ArchivedCanBeRead` | `TypeOK`, `ArchivedIsReadable` | |
| `CandidateArchive_proofs`: `ArchivesDeliver` | `DeliverySafe`: the code implements `ArchiveDelivery` | |
| `ArtifactPipeline_proofs`: `StreamTypeCorrect`, `SubscriptionMatchesMap`, `EndsAreWritten` | `StreamTypeOK`, `SubscriptionFollowsMap`, `EndWasWritten` of `StatusStream` | |
| `ConnectorStore_proofs`: `TypeCorrect` | `TypeOK` | |
| `ConnectorStore_proofs`: `ContentIsStoredOnce`, `SourceIsServed` | `StoredOnce`, `AlwaysServed` | `OneRun`: the runs of a source follow each other (false otherwise: `MCStoreConcurrent`) |
| `ConnectorSync_proofs`: `TypeCorrect`, `ScheduledOnce`, `CursorsAreHonest` | `TypeOK`, `OneScheduledRun`, `CursorIsHonest` | |
| `TelegramCapture_proofs`: `TypeCorrect`, `OneTwinAtATime`, `OneEffectEach`, `DuplicatesAreSettled` | `TypeOK`, `OneAccount`, `OneEffect`, `DuplicateIsSettled` | |
| `ChatTurn_proofs`: `TypeCorrect`, `AnswersAreStored`, `PrivateIsNotKept`, `LearningIsEarned` | `TypeOK`, `ToldIsStored`, `PrivateStaysPrivate`, `LearnedFromAnswers` | |
| `CanonicalMemory_proofs`: `TypeCorrect`, `EvidenceIsCounted`, `ForgottenStaysForgotten`, `ServedIsSaid` | `TypeOK`, `SupportIsCounted`, `ForgetHolds`, `ServedByUser` | |
| `VoiceChat_proofs`: `TypeCorrect`, `TakenUpOnce`, `MicrophoneIsHeld`, `WordsAreOwn`, `EndsOwn` | `TypeOK`, `TakenOnce`, `MicIsHeld`, `WordsAreTheirs`, `EndsItsOwn` | |

`TypeOK` of `TelegramCapture`, `ChatTurn` and `CanonicalMemory` is not among the
properties of their runs; the proof is its only check there.

Hardly any of these is inductive. Each module has an inductive invariant `IInv`, a
conjunction of named parts, and a theorem `Inductive == Spec => []IInv`; the other
theorems follow from it. The parts say what handlers know that no row shows.

**ArtifactPipeline.** `Owned`: whoever is at work has an artifact. `JobOwned`,
`IntelOwned`: a busy slot holds an active job, and no two slots the same one; without it
the end of one slot's job could be the end of another's. `FragmentFirst`: a processor past
the storing step works on an artifact that has its fragment, and so has every artifact
with an intelligence job, which is why an intelligence write, which says "completed"
unconditionally, never lies. `Claimed`: a held row that was not overtaken is shown
neither as queued nor as pending, so nobody else's claim can succeed.

**CandidateArchive.** `Numbered`: a batch has a row only once its memories are found.
`JobOwned`, `PassOwned`: jobs, slots and passes name only batches that have a row.
`StoredFirst`: past the store, a slot points candidates of its batch at what is stored.
`PointedFirst`: what a slot in the middle of its candidates is done with can be read, or
was found again, although an extraction may still write back what it read before. The
refinement (`ArchivesDeliver`) is one lemma per group of actions: a step adds a batch,
stores one, points a candidate at a stored batch that contains it, or is a stutter.

**StatusStream** (its invariant is `StreamInv`). `Follows`: the last command under way
agrees with the map, which is why overlapping SUBSCRIBEs and UNSUBSCRIBEs come out right.
`Asked` and `Turns`: a set is subscribed to once and commands alternate, so that what a
refusal leaves unsubscribed is the entry it was for and no other.
`Told`: a terminal event is nowhere, neither in flight nor in what a stream has read,
before its row was written. `Unmade`: a stream that subscribes finds a set nobody has
made. `Tried`, `Wired`: types of what is under way.

**ConnectorStore.** `Known`: nothing has become of the artifacts that were not inserted.
For one run at a time, `Compared`: a run about to insert has found its content in no
artifact; and `NewestServes`: the newest artifact is not superseded, neither by what is
written nor by metadata that will be written back, and the run that supersedes spares it.

**ConnectorSync.** `Held`: a slot has its job alone. `Promising`: a run that was inserted
is enqueued by the one who inserted it, once. `Jobs`: jobs follow rows, and one that is
executed has an attempt left. `ScheduledOnce` adds that there is no active run of a source
when a pass is about to insert one, unless another has overtaken it since it looked
(`Creating`); `CursorsAreHonest` that what a slot starts from was imported or skipped, and
what it will write as the cursor was, but for the rest of its batch (`Fetched`).

**TelegramCapture.** `Parted`: of two connected twins, a link command has yet to look for
one or has it on its list. `Alone`: a message that was never handled twice at once has one
request, which therefore knows the row it claims (`Known`) and is the one processing it
(`Held`). `Once`: a row that may be claimed again has had no effect. `Here`: a message that
was not `moved` has effect on no other twin than the one it is handled for. `Reported`: a
duplicate is reported of what is settled.

**ChatTurn.** `Heard`: who has heard of an answer, page or learning, has heard of a turn
whose rows say so with no write under way. `Ordered`: the late write of
"retrieving_context" is over before the answer is begun, and rows are written before
anybody hears of them. `Aborts`: only the page's closing of the stream aborts a request.
`FirstSent`, `Kept`: a retry is as private as what it repeats, and nothing of a private
message waits to be learned from.

**CanonicalMemory.** `JobsOK`, `IntakesOK`, `CommandsOK`: what handlers carry, and that a
row that was seen stays. `Counted`: a count is at least the candidates and facts that rest
on the row plus the jobs that are between the row and its candidate; the proof follows
cardinalities through writers that add one element each. `Forgotten`: what a forget
command has gone through is superseded, unless it was stated again or a statement crossed
the command (`Excused`). `Aware`: whoever still carries a statement of a row that was
forgotten is one of those. An approved row
was stated or corrected by the user (`Said`), served or not.

**VoiceChat.** `Refs`: a ref holds what runs, a transcriber that was not stopped or a
recorder on a stream that is on, although every event empties and fills the same refs.
Until an event has strayed, `OneVoice` says what keeps the events apart. `OneCaptured`: words are
to come of one event at a time, which has no turn and none taken up. `CaptureShown`,
`TurnShown`: the reducer and the last render show that event, or the turn that was not
aborted, in a phase in which Space stops or cuts it short and cannot open another beside
it; so the event that `stopRecording` takes from the render is that of the transcriber it
takes from the ref. `Abortable`: the ref by which a turn is cut short leads to one that
has come to a request, and to no other than the turn shown; a turn that was cut short may
have emptied it. `Waiting`: the phrase is waited for at rest only.

A proof has one lemma per part and group of actions, over lemmas about the helpers
(`ReturnsFacts`, `ThrowsFacts`, `HasJoined`, ...). In the larger modules the steps are
first described by what they change, so that the parts need not look into them. What is
assumed of the environment is what the models assume: a job's record is BullMQ's, one
statement is atomic, five minutes without a write are visible to every reader, Redis
keeps the order of a connection.

Only model-checked: all liveness (`Settles`, `UnservedWaits`, `DeliveryLive`,
`StreamsClose`, `CurrentIsServed`, `AllImported`, `ClaimSettles`, `TurnSettles`,
`PageSettles`, `StopHolds`), since fairness and ENABLED are out of the prover's reach; and that the exceptions of section 3 and the hypotheses
of the table are needed, which takes a behaviour and not a proof. Every safety property
of every run is stated by a theorem.

## 6. Composition

The modules meet in tables. `ConnectorStore` and `CandidateArchive` each contain the
part of `ArtifactPipeline` that writes their columns (claim, completion, the
intelligence stage with its read and write back), step for step; `ConnectorSync`
abstracts `ConnectorStore` to "stored"; `StatusStream` contains the writes and
publications of a job and of the intelligence stage. `ConnectorStore`'s fairness of
`ProcessStep` is what `pipeline_live` shows of the pipeline.

The front ends meet the machinery in the same way. A captured Telegram message and the
learning of a chat turn each insert an artifact and enqueue it, which is `Upload` and
`RequestEnqueue` of `ArtifactPipeline`; `hot` of `ChatTurn` is an intake of
`CanonicalMemory`, and `Correct` of `TelegramCapture` one of its commands; the memories
of its extraction jobs become the candidates of `CandidateArchive`; and a voice turn is a
send of `ChatTurn` without a page, its handler seen as a call that streams, ends or
fails.

## 7. Plan

1. *Agent writebacks, context packets, weekly reflections, refresh sessions, account
   wipe*: small modules each; the wipe composed with the workers' writes.
2. *Pure functions* over bounded inputs against a reference: `nextAutomaticRetry`,
   sync cadence, chunking (`chunk-utils.ts`), the merge of canonical metadata.
3. *Proofs*: what `VoiceChat` keeps of an event after another has strayed; action
   properties of the other modules (a claim is never taken from
   a live processor; a terminal turn stays so); that `ArtifactPipeline` implements the claim that `CandidateArchive` and
   `ConnectorStore` contain.

## 8. Running

`tlc -workers 2 -config MCPipelineSafe.cfg MCArtifactPipeline` and so on; no passing
run takes more than three and a half minutes on two cores. `tlapm ArtifactPipeline_proofs.tla`
checks the proofs of that module, and so for the other seven. From nothing,
`VoiceChat_proofs` takes about three and a half minutes, `CanonicalMemory_proofs`,
`ConnectorSync_proofs` and `ArtifactPipeline_proofs` take between one and two minutes each,
`ConnectorStore_proofs` under a minute.

## 9. Not modelled, and why

Parsers, extraction heuristics and ranking are functions of text; their interest is
in strings and scores, which TLC would have to enumerate. Encryption, Walrus and Sui
storage, LLM and speech clients are calls that return or fail, and appear as such in
the modules that use them; so do the voice routes and the voice service, which relay.
The CLI, MCP server and SDK are thin clients of the API; of the web app the client of
the event stream, the chat page and the voice chat hold state that callbacks race for,
and are modelled; rendering, uploads, settings and the brain graph are not. The seal policy
contract is evaluated on chain and holds no state of this system. Upload validation,
download, preview, graph, search routes and speaker mappings are single statements on
behalf of one user. Delays, retention of finished jobs by count (except for
`Evict`) and the lengths of timers are abstracted to "may have passed".
