--------------------------- MODULE TelegramCapture ---------------------------
(***************************************************************************)
(* The Telegram bot: how a chat is linked to a twin, and how a message of  *)
(* a linked chat is claimed and captured.  Telegram posts each update to   *)
(* the webhook and posts it again until a post is answered with 200 in     *)
(* time.  The API handles posts side by side; a handler is a sequence of   *)
(* single statements, so another handler, the app of the twin's owner, or  *)
(* the end of the process may come between any two of them.                *)
(*                                                                         *)
(* One Telegram user in one chat is modelled, so a twin has at most one    *)
(* connector account and one connector source of this provider.            *)
(***************************************************************************)
EXTENDS Naturals, FiniteSets

CONSTANTS
    Twins,
    Tokens,      \* link tokens of one behaviour; a token is also its /start update
    Owner,       \* the twin a token was made for
    Msgs,        \* other updates of the user
    Handlers,    \* webhook requests that may be handled at once
    None,
    MaxUpdates,  \* TelegramRateLimitConfig.maxUpdates
    Mishaps,     \* what may go wrong: "fault", "timeout", "crash"
    Scenarios    \* where behaviours start, and the bounds of each, see below

Updates == Tokens \union Msgs
Kinds == {"text", "media", "correction", "ask", "unlink"}

\* The twin the user is linked to, if any, the updates the user may send (tokens other
\* than these were revoked before), how often owners disconnect the account in the app,
\* and how much may go wrong.
Scenario == [linked : Twins \union {None}, sent : SUBSET Updates,
             revokes : Nat, mishaps : Nat]

ASSUME TelegramAssumption ==
    /\ Tokens \intersect Msgs = {}
    /\ None \notin Twins \union Tokens \union Msgs
    /\ Owner \in [Tokens -> Twins]
    /\ Scenarios \subseteq Scenario
    /\ Mishaps \subseteq {"fault", "timeout", "crash"}
    /\ MaxUpdates \in Nat \ {0}

VARIABLES
    account, source, \* status of the connector rows of each twin
    token,           \* status of telegram_link_tokens
    row,             \* status of telegram_ingested_messages, by account and message
    effect,          \* artifacts inserted, corrections applied, answers persisted
    app,             \* what the owner of each twin is doing in the app
    update, kind,    \* where each update is, and what it asks for
    hand,            \* the webhook requests being handled
    used,            \* updateCount of the current window
    told,            \* replies that say something of a capture
    overlapped, cut, \* history: updates handled by two requests at once, or cut off
    moved,           \* history: messages handled for a twin that had taken effect for another
    revokes, mishaps \* how many there may still be

rows    == <<account, source, token, row, effect>>
chat    == <<update, kind, used>>
history == <<told, overlapped, cut, moved>>
bounds  == <<revokes, mishaps>>
vars    == <<rows, app, chat, hand, history, bounds>>

LinkPcs    == {"linkRead", "linkExpire", "linkAccount", "linkInsertAccount", "linkSource",
               "linkInsertSource", "linkOthers", "linkDisconnect", "linkDisconnectSources",
               "linkConsume"}
ClaimedPcs == {"resolveMedia", "store", "insert", "enqueue", "correct",
               "markCaptured", "markDeferred", "markFailed"}
Pcs == {"idle", "resolve", "unlinkAccount", "unlinkSource", "source", "insertSource",
        "answerRead", "answer", "claimRead", "claimUpdate", "claimInsert", "audit", "reply"}
         \union LinkPcs \union ClaimedPcs
Replies == {"captured", "duplicate", "other"}

Idle == [pc |-> "idle", upd |-> None, twin |-> None, seen |-> {}, reply |-> "other",
         awaited |-> FALSE]

Connected == {t \in Twins : account[t] = "connected"}

Init ==
    /\ row = [t \in Twins |-> [m \in Msgs |-> "none"]]
    /\ effect = [t \in Twins |-> [m \in Msgs |-> 0]]
    /\ app = [t \in Twins |-> [pc |-> "idle", token |-> None]]
    /\ kind = [m \in Msgs |-> "text"]
    /\ hand = [h \in Handlers |-> Idle]
    /\ used = 0
    /\ told = {}
    /\ overlapped = {}
    /\ cut = {}
    /\ moved = {}
    /\ \E start \in Scenarios :
          /\ account = [t \in Twins |-> IF t = start.linked THEN "connected" ELSE "none"]
          /\ source = account
          /\ token = [k \in Tokens |-> IF k \in start.sent THEN "none" ELSE "revoked"]
          /\ update = [u \in Updates |-> IF u \in start.sent THEN "unsent" ELSE "done"]
          /\ revokes = start.revokes
          /\ mishaps = start.mishaps

-----------------------------------------------------------------------------
(* The app of a twin's owner *)

AppOnly == UNCHANGED <<row, effect, chat, hand, history, mishaps>>

RevokePending(t) ==
    token' = [k \in Tokens |-> IF Owner[k] = t /\ token[k] = "pending"
                               THEN "revoked" ELSE token[k]]

\* handleTelegramLinkTokenCreate revokes the pending tokens of the twin ...
MintRevoke(t, k) ==
    /\ app[t].pc = "idle"
    /\ Owner[k] = t
    /\ token[k] = "none"
    /\ RevokePending(t)
    /\ app' = [app EXCEPT ![t] = [pc |-> "mint", token |-> k]]
    /\ UNCHANGED <<account, source, revokes>> /\ AppOnly

\* ... and inserts the new one.
MintInsert(t) ==
    /\ app[t].pc = "mint"
    /\ token' = [token EXCEPT ![app[t].token] = "pending"]
    /\ app' = [app EXCEPT ![t] = [pc |-> "idle", token |-> None]]
    /\ UNCHANGED <<account, source, revokes>> /\ AppOnly

\* handleTelegramRevoke reads which accounts of the twin are connected, ...
RevokeRead(t) ==
    /\ app[t].pc = "idle"
    /\ revokes > 0
    /\ revokes' = revokes - 1
    /\ app' = [app EXCEPT ![t].pc = IF account[t] = "connected" THEN "revokeLinked"
                                                                ELSE "revokeUnlinked"]
    /\ UNCHANGED <<account, source, token>> /\ AppOnly

\* ... disconnects all that there are, ...
RevokeAccounts(t) ==
    /\ app[t].pc \in {"revokeLinked", "revokeUnlinked"}
    /\ account' = [account EXCEPT ![t] = IF @ = "none" THEN @ ELSE "disconnected"]
    /\ app' = [app EXCEPT ![t].pc = IF @ = "revokeLinked" THEN "revokeSources"
                                                          ELSE "revokeTokens"]
    /\ UNCHANGED <<source, token, revokes>> /\ AppOnly

\* ... then the sources of those it had read as connected ...
RevokeSources(t) ==
    /\ app[t].pc = "revokeSources"
    /\ source' = [source EXCEPT ![t] = IF @ = "none" THEN @ ELSE "disconnected"]
    /\ app' = [app EXCEPT ![t].pc = "revokeTokens"]
    /\ UNCHANGED <<account, token, revokes>> /\ AppOnly

\* ... and its pending tokens.
RevokeTokens(t) ==
    /\ app[t].pc = "revokeTokens"
    /\ RevokePending(t)
    /\ app' = [app EXCEPT ![t] = [pc |-> "idle", token |-> None]]
    /\ UNCHANGED <<account, source, revokes>> /\ AppOnly

-----------------------------------------------------------------------------
(* Telegram *)

Mishap(what) ==
    /\ what \in Mishaps
    /\ mishaps > 0
    /\ mishaps' = mishaps - 1

\* The user sends /start with a token shown in the app, or another message.
Send(u, what) ==
    /\ update[u] = "unsent"
    /\ u \in Tokens => token[u] # "none"
    /\ update' = [update EXCEPT ![u] = "waiting"]
    /\ kind' = IF u \in Msgs THEN [kind EXCEPT ![u] = what] ELSE kind
    /\ UNCHANGED <<rows, app, used, hand, history, bounds>>

\* handleTelegramWebhook, up to the rate limit.  resolveTelegramRateLimit counts
\* the updates of a window, which may have passed by now; an update over the
\* limit is answered with 200 and dropped.
Deliver(h, u) ==
    /\ hand[h].pc = "idle"
    /\ update[u] = "waiting"
    /\ \/ /\ \/ used' = 1
             \/ used < MaxUpdates /\ used' = used + 1
          /\ update' = [update EXCEPT ![u] = "posted"]
          /\ hand' = [hand EXCEPT ![h] =
                [Idle EXCEPT !.pc = IF u \in Tokens THEN "linkRead" ELSE "resolve",
                             !.upd = u, !.awaited = TRUE]]
          /\ overlapped' = IF \E g \in Handlers : hand[g].upd = u
                           THEN overlapped \union {u} ELSE overlapped
       \/ /\ used = MaxUpdates
          /\ update' = [update EXCEPT ![u] = "done"]
          /\ UNCHANGED <<used, hand, overlapped>>
    /\ UNCHANGED <<rows, app, kind, told, cut, moved, bounds>>

\* Telegram stops waiting for the answer of a post and will post again; the
\* request is handled to its end all the same.
TimeOut(h) ==
    /\ hand[h].awaited
    /\ Mishap("timeout")
    /\ update' = [update EXCEPT ![hand[h].upd] = "waiting"]
    /\ hand' = [hand EXCEPT ![h].awaited = FALSE]
    /\ UNCHANGED <<rows, app, kind, used, history, revokes>>

-----------------------------------------------------------------------------
(* The handler of an update.  At(h, pc): it is about to execute that part. *)

At(h, pc) == hand[h].pc = pc
Twin(h) == hand[h].twin
Goto(h, pc) == hand' = [hand EXCEPT ![h].pc = pc]
Answer(h, pc, reply) == hand' = [hand EXCEPT ![h].pc = pc, ![h].reply = reply]
HandOnly == UNCHANGED <<app, chat, history, bounds>>

\* The reply is sent (a failure to send it is logged) and the post answered.
Reply(h) ==
    /\ hand[h].pc \in {"audit", "reply"}
    /\ told' = IF hand[h].upd \in Msgs /\ hand[h].reply # "other"
               THEN told \union {<<hand[h].upd, hand[h].reply>>} ELSE told
    /\ update' = IF hand[h].awaited THEN [update EXCEPT ![hand[h].upd] = "done"] ELSE update
    /\ hand' = [hand EXCEPT ![h] = Idle]
    /\ UNCHANGED <<rows, app, kind, used, overlapped, cut, moved, bounds>>

\* A statement throws and nothing catches it: 500, and the update comes again.
Throw(h) ==
    /\ update' = IF hand[h].awaited THEN [update EXCEPT ![hand[h].upd] = "waiting"] ELSE update
    /\ cut' = cut \union {hand[h].upd}
    /\ hand' = [hand EXCEPT ![h] = Idle]
    /\ UNCHANGED <<rows, app, kind, used, told, overlapped, moved, revokes>>

Fault(h) ==
    /\ hand[h].pc \notin {"idle", "reply"}
    /\ Mishap("fault")
    /\ Throw(h)

\* The API process ends and starts again.
Crash ==
    /\ Mishap("crash")
    /\ cut' = cut \union {hand[h].upd : h \in {g \in Handlers : ~At(g, "idle")}}
    /\ update' = [u \in Updates |-> IF update[u] = "posted" THEN "waiting" ELSE update[u]]
    /\ hand' = [h \in Handlers |-> Idle]
    /\ app' = [t \in Twins |-> [pc |-> "idle", token |-> None]]
    /\ used' = 0
    /\ UNCHANGED <<rows, kind, told, overlapped, moved, revokes>>

-----------------------------------------------------------------------------
(* handleTelegramLinkCommand *)

LinkRead(h) ==
    /\ At(h, "linkRead")
    /\ \/ token[hand[h].upd] # "pending" /\ Goto(h, "reply")
       \/ /\ token[hand[h].upd] = "pending"
          /\ \/ Goto(h, "linkExpire")
             \/ hand' = [hand EXCEPT ![h].pc = "linkAccount", ![h].twin = Owner[hand[h].upd]]
    /\ UNCHANGED rows /\ HandOnly

\* The token was past its time when it was read.
LinkExpire(h) ==
    /\ At(h, "linkExpire")
    /\ token' = [token EXCEPT ![hand[h].upd] = "expired"]
    /\ Goto(h, "reply")
    /\ UNCHANGED <<account, source, row, effect>> /\ HandOnly

\* upsertTelegramConnectorAccount: the row there is becomes connected; rows are never
\* deleted, so it is found and updated in one step.  Where none is found, ...
LinkAccount(h) ==
    /\ At(h, "linkAccount")
    /\ \/ account[Twin(h)] = "none" /\ Goto(h, "linkInsertAccount") /\ UNCHANGED account
       \/ /\ account[Twin(h)] # "none"
          /\ account' = [account EXCEPT ![Twin(h)] = "connected"]
          /\ Goto(h, "linkSource")
    /\ UNCHANGED <<source, token, row, effect>> /\ HandOnly

\* ... one is inserted, unless another request has done so meanwhile.
LinkInsertAccount(h) ==
    /\ At(h, "linkInsertAccount")
    /\ account[Twin(h)] = "none"
    /\ account' = [account EXCEPT ![Twin(h)] = "connected"]
    /\ Goto(h, "linkSource")
    /\ UNCHANGED <<source, token, row, effect>> /\ HandOnly

\* upsertTelegramConnectorSource, likewise: from one part of a request to the next,
\* by way of the insert.
FindSource(h, from, insert, next) ==
    /\ At(h, from)
    /\ \/ source[Twin(h)] = "none" /\ Goto(h, insert) /\ UNCHANGED source
       \/ /\ source[Twin(h)] # "none"
          /\ source' = [source EXCEPT ![Twin(h)] = "connected"]
          /\ Goto(h, next)
    /\ UNCHANGED <<account, token, row, effect>> /\ HandOnly

InsertSource(h, insert, next) ==
    /\ At(h, insert)
    /\ source[Twin(h)] = "none"
    /\ source' = [source EXCEPT ![Twin(h)] = "connected"]
    /\ Goto(h, next)
    /\ UNCHANGED <<account, token, row, effect>> /\ HandOnly

\* The insert of a row that is there by now throws: its index is unique.
InsertRefused(h) ==
    /\ \/ At(h, "linkInsertAccount") /\ account[Twin(h)] # "none"
       \/ hand[h].pc \in {"linkInsertSource", "insertSource"} /\ source[Twin(h)] # "none"
    /\ Throw(h)
    /\ UNCHANGED mishaps

LinkSource(h) == FindSource(h, "linkSource", "linkInsertSource", "linkOthers")
LinkInsertSource(h) == InsertSource(h, "linkInsertSource", "linkOthers")

\* disconnectOtherTelegramAccountsForUser reads the other connected accounts ...
LinkOthers(h) ==
    /\ At(h, "linkOthers")
    /\ LET others == Connected \ {Twin(h)} IN
          hand' = [hand EXCEPT ![h].pc = IF others = {} THEN "linkConsume" ELSE "linkDisconnect",
                               ![h].seen = others]
    /\ UNCHANGED rows /\ HandOnly

\* Mutant: the sources of the others are disconnected, not their accounts.
LinkDisconnectNone(h) ==
    /\ At(h, "linkDisconnect")
    /\ Goto(h, "linkDisconnectSources")
    /\ UNCHANGED rows /\ HandOnly

\* ... and disconnects those it has read, ...
LinkDisconnect(h) ==
    /\ At(h, "linkDisconnect")
    /\ account' = [t \in Twins |-> IF t \in hand[h].seen THEN "disconnected" ELSE account[t]]
    /\ Goto(h, "linkDisconnectSources")
    /\ UNCHANGED <<source, token, row, effect>> /\ HandOnly

\* ... then their sources.
LinkDisconnectSources(h) ==
    /\ At(h, "linkDisconnectSources")
    /\ source' = [t \in Twins |-> IF t \in hand[h].seen /\ source[t] # "none"
                                  THEN "disconnected" ELSE source[t]]
    /\ hand' = [hand EXCEPT ![h].pc = "linkConsume", ![h].seen = {}]
    /\ UNCHANGED <<account, token, row, effect>> /\ HandOnly

\* The token is consumed whatever its status is by now.
LinkConsume(h) ==
    /\ At(h, "linkConsume")
    /\ token' = [token EXCEPT ![hand[h].upd] = "consumed"]
    /\ Goto(h, "audit")
    /\ UNCHANGED <<account, source, row, effect>> /\ HandOnly

-----------------------------------------------------------------------------
(* The other commands and messages *)

\* loadLinkedTelegramAccount: exactly one connected account, or the user is told
\* to link or that the link is ambiguous.  A text of no substance is ignored.
Resolve(h) ==
    /\ At(h, "resolve")
    /\ \/ /\ Cardinality(Connected) # 1
          /\ Goto(h, "reply")
          /\ UNCHANGED moved
       \/ /\ kind[hand[h].upd] = "text"
          /\ Cardinality(Connected) = 1
          /\ Goto(h, "audit")
          /\ UNCHANGED moved
       \/ \E t \in Connected :
             /\ Connected = {t}
             /\ hand' = [hand EXCEPT ![h].twin = t,
                           ![h].pc = IF kind[hand[h].upd] = "unlink" THEN "unlinkAccount"
                                                                     ELSE "source"]
             /\ moved' = IF \E s \in Twins \ {t} : effect[s][hand[h].upd] > 0
                         THEN moved \union {hand[h].upd} ELSE moved
    /\ UNCHANGED <<rows, app, chat, told, overlapped, cut, bounds>>

\* disconnectTelegramAccountFromBot
UnlinkAccount(h) ==
    /\ At(h, "unlinkAccount")
    /\ account' = [account EXCEPT ![Twin(h)] = "disconnected"]
    /\ Goto(h, "unlinkSource")
    /\ UNCHANGED <<source, token, row, effect>> /\ HandOnly

UnlinkSource(h) ==
    /\ At(h, "unlinkSource")
    /\ source' = [source EXCEPT ![Twin(h)] = IF @ = "none" THEN @ ELSE "disconnected"]
    /\ Goto(h, "audit")
    /\ UNCHANGED <<account, token, row, effect>> /\ HandOnly

\* The source is connected, whatever the account is by now.
AfterSource(h) == IF kind[hand[h].upd] = "ask" THEN "answerRead" ELSE "claimRead"
UpsertSource(h) == FindSource(h, "source", "insertSource", AfterSource(h))
UpsertInsertSource(h) == InsertSource(h, "insertSource", AfterSource(h))

\* answerTelegramQuestion: an answer that is found is sent again.
AnswerRead(h) ==
    /\ At(h, "answerRead")
    /\ Goto(h, IF effect[Twin(h)][hand[h].upd] > 0 THEN "reply" ELSE "answer")
    /\ UNCHANGED rows /\ HandOnly

AnswerQuestion(h) ==
    /\ At(h, "answer")
    /\ effect' = [effect EXCEPT ![Twin(h)][hand[h].upd] = @ + 1]
    /\ Goto(h, "audit")
    /\ UNCHANGED <<account, source, token, row>> /\ HandOnly

\* A failure to answer, or no provider to ask, is recorded and the user told.
AnswerFails(h) ==
    /\ At(h, "answer")
    /\ Goto(h, "audit")
    /\ UNCHANGED rows /\ HandOnly

-----------------------------------------------------------------------------
(* claimTelegramMessage *)

Row(h) == row[Twin(h)][hand[h].upd]
SetRow(h, status) == row' = [row EXCEPT ![Twin(h)][hand[h].upd] = status]

\* Where a handler goes once it holds the claim.
Claimed(h) == CASE kind[hand[h].upd] = "correction" -> "correct"
                [] kind[hand[h].upd] = "media" -> "resolveMedia"
                [] OTHER -> "store"

\* Mutant: a message that is being processed may be claimed again.
ClaimReadAgain(h) ==
    /\ At(h, "claimRead")
    /\ \/ Row(h) \in {"captured", "deferred"} /\ Answer(h, "reply", "duplicate")
       \/ Row(h) \in {"failed", "processing"} /\ Goto(h, "claimUpdate")
       \/ Row(h) = "none" /\ Goto(h, "claimInsert")
    /\ UNCHANGED rows /\ HandOnly

ClaimRead(h) ==
    /\ At(h, "claimRead")
    /\ \/ Row(h) \notin {"none", "failed"} /\ Answer(h, "reply", "duplicate")
       \/ Row(h) = "failed" /\ Goto(h, "claimUpdate")
       \/ Row(h) = "none" /\ Goto(h, "claimInsert")
    /\ UNCHANGED rows /\ HandOnly

\* A failed row is taken by its id, whatever its status is by now.
ClaimUpdate(h) ==
    /\ At(h, "claimUpdate")
    /\ SetRow(h, "processing")
    /\ Goto(h, Claimed(h))
    /\ UNCHANGED <<account, source, token, effect>> /\ HandOnly

\* The insert, or, when the unique index refuses it, the row that is there: one
\* that is processing counts as claimed.
ClaimInsert(h) ==
    /\ At(h, "claimInsert")
    /\ \/ /\ Row(h) = "none"
          /\ SetRow(h, "processing")
          /\ Goto(h, Claimed(h))
       \/ /\ Row(h) = "processing"
          /\ Goto(h, Claimed(h))
          /\ UNCHANGED row
       \/ /\ Row(h) \notin {"none", "processing"}
          /\ Answer(h, "reply", "duplicate")
          /\ UNCHANGED row
    /\ UNCHANGED <<account, source, token, effect>> /\ HandOnly

-----------------------------------------------------------------------------
(* What a claimed message goes through *)

\* resolveTelegramMediaSource: voice and unsupported files are left for later.
ResolveMedia(h) ==
    /\ At(h, "resolveMedia")
    /\ Goto(h, "store") \/ Goto(h, "markDeferred")
    /\ UNCHANGED rows /\ HandOnly

\* The file is fetched, where there is one, and the private memory stored.
Store(h) ==
    /\ At(h, "store")
    /\ Goto(h, "insert")
    /\ UNCHANGED rows /\ HandOnly

\* insertQueuedSourceArtifact
InsertArtifact(h) ==
    /\ At(h, "insert")
    /\ effect' = [effect EXCEPT ![Twin(h)][hand[h].upd] = @ + 1]
    /\ Goto(h, "enqueue")
    /\ UNCHANGED <<account, source, token, row>> /\ HandOnly

\* applyTelegramMemoryCorrection finds what to correct and corrects it, or not; a
\* failure may come when it has corrected some of it.
Correct(h) ==
    /\ At(h, "correct")
    /\ \/ /\ effect' = [effect EXCEPT ![Twin(h)][hand[h].upd] = @ + 1]
          /\ Goto(h, "markCaptured") \/ Goto(h, "markFailed")
       \/ /\ Goto(h, "markDeferred")
          /\ UNCHANGED effect
    /\ UNCHANGED <<account, source, token, row>> /\ HandOnly

\* Mutant: the failure is answered and not written.
CaptureFailsUnwritten(h) ==
    /\ hand[h].pc \in {"store", "insert", "correct"}
    /\ Goto(h, "reply")
    /\ UNCHANGED rows /\ HandOnly

\* The file, the storage, the insert or the correction fails; that is caught.
CaptureFails(h) ==
    /\ hand[h].pc \in {"store", "insert", "correct"}
    /\ Goto(h, "markFailed")
    /\ UNCHANGED rows /\ HandOnly

\* enqueueArtifactProcessingJob and, for a text, commitTelegramTextToHotMemory,
\* side by side; what fails in either only changes the words of the reply.
EnqueueArtifact(h) ==
    /\ At(h, "enqueue")
    /\ Goto(h, "markCaptured")
    /\ UNCHANGED rows /\ HandOnly

MarkCaptured(h) ==
    /\ At(h, "markCaptured")
    /\ SetRow(h, "captured")
    /\ Answer(h, "audit", "captured")
    /\ UNCHANGED <<account, source, token, effect>> /\ HandOnly

\* Mutant: the message is left for later without a word in its row.
MarkDeferredUnwritten(h) ==
    /\ At(h, "markDeferred")
    /\ Goto(h, "audit")
    /\ UNCHANGED rows /\ HandOnly

MarkDeferred(h) ==
    /\ At(h, "markDeferred")
    /\ SetRow(h, "deferred")
    /\ Goto(h, "audit")
    /\ UNCHANGED <<account, source, token, effect>> /\ HandOnly

\* markTelegramIngestedMessageFailed
MarkFailed(h) ==
    /\ At(h, "markFailed")
    /\ SetRow(h, "failed")
    /\ Goto(h, "reply")
    /\ UNCHANGED <<account, source, token, effect>> /\ HandOnly

-----------------------------------------------------------------------------
App(t) ==
    \/ \E k \in Tokens : MintRevoke(t, k)
    \/ MintInsert(t) \/ RevokeRead(t) \/ RevokeAccounts(t) \/ RevokeSources(t) \/ RevokeTokens(t)

Step(h) ==
    \/ LinkRead(h) \/ LinkExpire(h) \/ LinkAccount(h) \/ LinkInsertAccount(h)
    \/ LinkSource(h) \/ LinkInsertSource(h) \/ LinkOthers(h)
    \/ LinkDisconnect(h) \/ LinkDisconnectSources(h) \/ LinkConsume(h)
    \/ Resolve(h) \/ UnlinkAccount(h) \/ UnlinkSource(h)
    \/ UpsertSource(h) \/ UpsertInsertSource(h) \/ InsertRefused(h)
    \/ AnswerRead(h) \/ AnswerQuestion(h)
    \/ ClaimRead(h) \/ ClaimUpdate(h) \/ ClaimInsert(h)
    \/ ResolveMedia(h) \/ Store(h) \/ InsertArtifact(h) \/ Correct(h)
    \/ EnqueueArtifact(h) \/ MarkCaptured(h) \/ MarkDeferred(h) \/ MarkFailed(h)
    \/ Reply(h)

Next ==
    \/ \E t \in Twins : App(t)
    \/ \E u \in Updates, what \in Kinds : Send(u, what)
    \/ \E h \in Handlers, u \in Updates : Deliver(h, u)
    \/ \E h \in Handlers : Step(h) \/ TimeOut(h) \/ Fault(h) \/ AnswerFails(h) \/ CaptureFails(h)
    \/ Crash

Spec == Init /\ [][Next]_vars

\* The event loop of the API runs a request it has accepted.
Fairness == \A h \in Handlers : WF_vars(Step(h))

FairSpec == Spec /\ Fairness

-----------------------------------------------------------------------------
(* Properties *)

\* The types of the variables.
TypeOK ==
    /\ account \in [Twins -> {"none", "connected", "disconnected"}]
    /\ source \in [Twins -> {"none", "connected", "disconnected"}]
    /\ token \in [Tokens -> {"none", "pending", "consumed", "revoked", "expired"}]
    /\ row \in [Twins -> [Msgs -> {"none", "processing", "captured", "deferred", "failed"}]]
    /\ effect \in [Twins -> [Msgs -> Nat]]
    /\ app \in [Twins -> [pc : {"idle", "mint", "revokeLinked", "revokeUnlinked",
                                "revokeSources", "revokeTokens"},
                          token : Tokens \union {None}]]
    /\ update \in [Updates -> {"unsent", "waiting", "posted", "done"}]
    /\ kind \in [Msgs -> Kinds]
    /\ hand \in [Handlers -> [pc : Pcs, upd : Updates \union {None}, twin : Twins \union {None},
                              seen : SUBSET Twins, reply : Replies, awaited : BOOLEAN]]
    /\ used \in 0..MaxUpdates
    /\ told \subseteq Msgs \X Replies
    /\ overlapped \subseteq Updates
    /\ cut \subseteq Updates
    /\ moved \subseteq Msgs
    /\ {revokes, mishaps} \subseteq Nat

\* A Telegram user is connected to one twin: two accounts are connected only
\* while a link command is between connecting its own and disconnecting the
\* others, or after one was cut off there.  Link commands of two twins may run
\* side by side, beside owners disconnecting, and be handled twice.
OneAccount ==
    \/ Cardinality(Connected) <= 1
    \/ \E h \in Handlers : hand[h].pc \in {"linkSource", "linkInsertSource", "linkOthers",
                                         "linkDisconnect"}
    \/ cut \intersect Tokens # {}

\* One message makes one artifact, of one twin, and is answered once as a question,
\* although Telegram posts it again after failures, restarts and late answers, and the
\* user may link another twin in between: unless two requests handled it at one time,
\* or it came again for a twin when it had taken effect for another.
OneEffect ==
    \A m \in Msgs \ overlapped :
        /\ \A t \in Twins : effect[t][m] <= 1 \/ kind[m] = "correction"
        /\ \A s, t \in Twins : effect[s][m] > 0 /\ effect[t][m] > 0 => s = t \/ m \in moved

\* Who is told a message is a duplicate has had it captured or deferred: unless
\* the request that held the claim was cut off, or two held it.
DuplicateIsSettled ==
    \A m \in Msgs : <<m, "duplicate">> \in told =>
        \/ \E t \in Twins : row[t][m] \in {"captured", "deferred"}
        \/ m \in overlapped \union cut

\* A claim is not left behind: a message that is being processed is captured,
\* deferred or failed, unless the request that holds it is cut off.
ClaimSettles ==
    \A t \in Twins, m \in Msgs :
        row[t][m] = "processing" ~> row[t][m] # "processing" \/ m \in cut

-----------------------------------------------------------------------------
(* Expectations the code does not meet; see the README. *)

\* TELEGRAM_REPLY.duplicate says "Already captured."
AlreadyCaptured ==
    \A m \in Msgs : <<m, "duplicate">> \in told =>
        \E t \in Twins : row[t][m] = "captured"

\* claimTelegramMessage lets one request through.
OneClaim == \A t \in Twins, m \in Msgs : effect[t][m] <= 1

\* A message belongs to one twin.
OneTwin ==
    \A m \in Msgs : \A s, t \in Twins : effect[s][m] > 0 /\ effect[t][m] > 0 => s = t

\* When no command is under way, a chat that is connected belongs to an account
\* that is.
SourceFollowsAccount ==
    (\A h \in Handlers : At(h, "idle")) /\ (\A t \in Twins : app[t].pc = "idle")
        => \A t \in Twins : source[t] = "connected" => account[t] = "connected"

\* Who links a chat and never disconnects it is connected afterwards (checked in
\* a scenario where nobody disconnects).
LinkConnects ==
    (\A h \in Handlers : At(h, "idle"))
        => ((\E k \in Tokens : token[k] = "consumed") => Connected # {})

=============================================================================
