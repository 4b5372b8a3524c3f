----------------------- MODULE TelegramCapture_proofs -----------------------
(***************************************************************************)
(* What the Telegram webhook never does, for every number of twins, tokens, *)
(* messages, requests, failures and restarts: TypeOK, OneAccount, OneEffect *)
(* and DuplicateIsSettled are invariants.                                  *)
(*                                                                         *)
(* OneAccount needs, of any two connected twins, the link command that has *)
(* yet to look for one of them or has it on its list (Parted).  The other  *)
(* two rest on a message that was never handled twice at once having one   *)
(* request (Alone), which therefore knows the row it claims and marks      *)
(* (Known, Held), so that a row that may be claimed again has had no effect *)
(* (Once), a message takes effect where it is handled (Here), and a        *)
(* duplicate is reported of what is settled (Reported).                    *)
(*                                                                         *)
(* The steps are first described by what they change (the lemmas ...Moves), *)
(* so that the parts of the invariant need not look into the actions.      *)
(***************************************************************************)
EXTENDS TelegramCapture, FiniteSetTheorems, TLAPS

\* Where the handler of a message is, before and after the message is claimed.
AskPcs   == {"answerRead", "answer"}
ClaimPcs == {"claimRead", "claimUpdate", "claimInsert"}
MsgPcs   == {"resolve", "unlinkAccount", "unlinkSource", "source", "insertSource"}
              \union AskPcs \union ClaimPcs \union ClaimedPcs

\* A request at rest is nobody's; the link command handles a token for the token's
\* twin, the rest of the handler a message, with a twin once it has been resolved.
Asked(h) ==
    /\ hand[h].pc = "idle" <=> hand[h].upd = None
    /\ hand[h].pc \in LinkPcs => hand[h].upd \in Tokens
    /\ hand[h].pc \in LinkPcs \ {"linkRead", "linkExpire"} => hand[h].twin \in Twins
    /\ hand[h].pc \in MsgPcs => hand[h].upd \in Msgs
    /\ hand[h].pc \in MsgPcs \ {"resolve"} => hand[h].twin \in Twins
    /\ hand[h].pc \in AskPcs => kind[hand[h].upd] = "ask"
    /\ hand[h].pc \in ClaimPcs \cup ClaimedPcs => kind[hand[h].upd] # "ask"
    /\ hand[h].pc = "correct" => kind[hand[h].upd] = "correction"

Requests == \A h \in Handlers : Asked(h)

\* The user has not sent it yet: nobody handles it and nothing has come of it.
Unsent ==
    \A m \in Msgs : update[m] = "unsent" =>
        /\ \A h \in Handlers : hand[h].upd # m
        /\ \A t \in Twins : row[t][m] = "none" /\ effect[t][m] = 0

\* The link command that connected either twin will look for the other, or the one
\* that has read either of them will disconnect it.
Parts(h, a, b) ==
    \/ hand[h].pc \in {"linkSource", "linkInsertSource", "linkOthers"} /\ hand[h].twin \in {a, b}
    \/ hand[h].pc = "linkDisconnect" /\ (a \in hand[h].seen \/ b \in hand[h].seen)

Parted ==
    \/ cut \intersect Tokens # {}
    \/ \A a \in Connected : \A b \in Connected \ {a} : \E h \in Handlers : Parts(h, a, b)

\* A message that was never handled twice at once has one request at most.
Alone ==
    \A g \in Handlers, h \in Handlers :
        hand[g].upd \in Msgs \ overlapped /\ hand[g].upd = hand[h].upd => g = h

\* What the request of such a message knows of its row ...
Known ==
    \A h \in Handlers : hand[h].upd \in Msgs \ overlapped =>
        /\ At(h, "claimUpdate") => Row(h) = "failed"
        /\ At(h, "claimInsert") => Row(h) = "none"
        /\ hand[h].pc \in ClaimedPcs => Row(h) = "processing"

\* ... and who is processing it.
Held ==
    \A t \in Twins, m \in Msgs \ (overlapped \cup cut) :
        row[t][m] = "processing" =>
            \E h \in Handlers : hand[h].upd = m /\ Twin(h) = t /\ hand[h].pc \in ClaimedPcs

\* Where a handler is while the message has had no effect on the twin.
FreshPcs == {"answer", "claimUpdate", "claimInsert", "resolveMedia", "store", "insert",
             "markFailed"}

\* A row that may be claimed again has had no effect, and there is one effect at most.
Once ==
    \A t \in Twins, m \in Msgs \ overlapped : kind[m] # "correction" =>
        /\ effect[t][m] <= 1
        /\ kind[m] # "ask" /\ row[t][m] \in {"none", "failed"} => effect[t][m] = 0
        /\ \A h \in Handlers :
              hand[h].upd = m /\ Twin(h) = t /\ hand[h].pc \in FreshPcs => effect[t][m] = 0

\* A message has effect on one twin, the one it is handled for.
Here ==
    \A m \in Msgs \ (overlapped \union moved) :
        /\ \A s, t \in Twins : effect[s][m] > 0 /\ effect[t][m] > 0 => s = t
        /\ \A h \in Handlers, s \in Twins :
              hand[h].upd = m /\ hand[h].pc \in MsgPcs \ {"resolve"} /\ s # Twin(h)
                 => effect[s][m] = 0

\* A duplicate is reported, or about to be, of what is captured or deferred.
Settled(m) == \E t \in Twins : row[t][m] \in {"captured", "deferred"}

Reported ==
    \A m \in Msgs \ (overlapped \cup cut) :
        /\ <<m, "duplicate">> \in told => Settled(m)
        /\ \A h \in Handlers : hand[h].upd = m /\ hand[h].reply = "duplicate" => Settled(m)

IInv ==
    /\ TypeOK /\ Requests /\ Unsent /\ Parted
    /\ Alone /\ Known /\ Held /\ Once /\ Here /\ Reported

-----------------------------------------------------------------------------
(* What a step of a handler leaves alone *)

\* The steps in which a handler goes on with its update.
LinkStep(h) ==
    \/ LinkRead(h) \/ LinkExpire(h) \/ LinkAccount(h) \/ LinkInsertAccount(h)
    \/ LinkSource(h) \/ LinkInsertSource(h) \/ LinkOthers(h)
    \/ LinkDisconnect(h) \/ LinkDisconnectSources(h) \/ LinkConsume(h)

AskStep(h) ==
    \/ Resolve(h) \/ UnlinkAccount(h) \/ UnlinkSource(h)
    \/ UpsertSource(h) \/ UpsertInsertSource(h)
    \/ AnswerRead(h) \/ AnswerQuestion(h) \/ AnswerFails(h)

ClaimStep(h) == ClaimRead(h) \/ ClaimUpdate(h) \/ ClaimInsert(h)

CaptureStep(h) ==
    \/ ResolveMedia(h) \/ Store(h) \/ InsertArtifact(h) \/ Correct(h) \/ CaptureFails(h)
    \/ EnqueueArtifact(h) \/ MarkCaptured(h) \/ MarkDeferred(h) \/ MarkFailed(h)

GoesOn(h) == LinkStep(h) \/ AskStep(h) \/ ClaimStep(h) \/ CaptureStep(h)

\* The steps in which it comes to rest: the end, or an exception.
Rests(h) == Fault(h) \/ InsertRefused(h) \/ Reply(h)

\* The kinds of steps.
LEMMA StepKinds ==
    ASSUME Next
    PROVE  \/ \E t \in Twins : App(t)
           \/ \E u \in Updates, what \in Kinds : Send(u, what)
           \/ \E h \in Handlers, u \in Updates : Deliver(h, u)
           \/ \E h \in Handlers : TimeOut(h) \/ Rests(h) \/ GoesOn(h)
           \/ Crash
  BY DEF Next, Step, Rests, GoesOn, LinkStep, AskStep, ClaimStep, CaptureStep

\* Handlers are records of this shape.
Requesting == [pc : Pcs, upd : Updates \union {None}, twin : Twins \union {None},
               seen : SUBSET Twins, reply : Replies, awaited : BOOLEAN]

\* Only this handler moves, and it keeps its update.
Frame(h) ==
    /\ hand' \in [Handlers -> Requesting]
    /\ \A g \in Handlers \ {h} : hand'[g] = hand[g]
    /\ hand'[h].upd = hand[h].upd /\ hand'[h].awaited = hand[h].awaited

\* What Goto and Answer do to the handler they move.
LEMMA GotoFrame ==
    ASSUME TypeOK, NEW h \in Handlers, NEW p \in Pcs, Goto(h, p)
    PROVE  /\ Frame(h) /\ hand'[h].pc = p
           /\ hand'[h].twin = hand[h].twin /\ hand'[h].seen = hand[h].seen
           /\ hand'[h].reply = hand[h].reply
  <1>1. hand \in [Handlers -> Requesting]
    BY DEF TypeOK, Requesting
  <1>2. [hand[h] EXCEPT !.pc = p] \in Requesting
    BY <1>1 DEF Requesting
  <1>3. hand' \in [Handlers -> Requesting]
    BY <1>1, <1>2 DEF Goto
  <1>4. QED
    BY <1>1, <1>3 DEF Goto, Frame, Requesting

\* ... Answer sets the reply as well,
LEMMA AnswerFrame ==
    ASSUME TypeOK, NEW h \in Handlers, NEW p \in Pcs, NEW r \in Replies, Answer(h, p, r)
    PROVE  /\ Frame(h) /\ hand'[h].pc = p /\ hand'[h].reply = r
           /\ hand'[h].twin = hand[h].twin /\ hand'[h].seen = hand[h].seen
  <1>1. hand \in [Handlers -> Requesting]
    BY DEF TypeOK, Requesting
  <1>2. [hand[h] EXCEPT !.pc = p, !.reply = r] \in Requesting
    BY <1>1 DEF Requesting
  <1>3. hand' = [hand EXCEPT ![h] = [hand[h] EXCEPT !.pc = p, !.reply = r]]
    BY <1>1 DEF Answer, Requesting
  <1>4. hand' \in [Handlers -> Requesting]
    BY <1>1, <1>2, <1>3
  <1>5. QED
    BY <1>1, <1>3, <1>4 DEF Frame, Requesting

\* ... some steps the twin,
LEMMA TwinFrame ==
    ASSUME TypeOK, NEW h \in Handlers, NEW p \in Pcs, NEW t \in Twins,
           hand' = [hand EXCEPT ![h].pc = p, ![h].twin = t]
    PROVE  /\ Frame(h) /\ hand'[h].pc = p /\ hand'[h].twin = t
           /\ hand'[h].seen = hand[h].seen /\ hand'[h].reply = hand[h].reply
  <1>1. hand \in [Handlers -> Requesting]
    BY DEF TypeOK, Requesting
  <1>2. [hand[h] EXCEPT !.pc = p, !.twin = t] \in Requesting
    BY <1>1 DEF Requesting
  <1>3. hand' = [hand EXCEPT ![h] = [hand[h] EXCEPT !.pc = p, !.twin = t]]
    BY <1>1 DEF Requesting
  <1>4. hand' \in [Handlers -> Requesting]
    BY <1>1, <1>2, <1>3
  <1>5. QED
    BY <1>1, <1>3, <1>4 DEF Frame, Requesting

\* ... some what the link command has read.
LEMMA SeenFrame ==
    ASSUME TypeOK, NEW h \in Handlers, NEW p \in Pcs, NEW S \in SUBSET Twins,
           hand' = [hand EXCEPT ![h].pc = p, ![h].seen = S]
    PROVE  /\ Frame(h) /\ hand'[h].pc = p /\ hand'[h].seen = S
           /\ hand'[h].twin = hand[h].twin /\ hand'[h].reply = hand[h].reply
  <1>1. hand \in [Handlers -> Requesting]
    BY DEF TypeOK, Requesting
  <1>2. [hand[h] EXCEPT !.pc = p, !.seen = S] \in Requesting
    BY <1>1 DEF Requesting
  <1>3. hand' = [hand EXCEPT ![h] = [hand[h] EXCEPT !.pc = p, !.seen = S]]
    BY <1>1 DEF Requesting
  <1>4. hand' \in [Handlers -> Requesting]
    BY <1>1, <1>2, <1>3
  <1>5. QED
    BY <1>1, <1>3, <1>4 DEF Frame, Requesting

\* The link command.
LEMMA LinkMoves ==
    ASSUME TypeOK, Requests, NEW h \in Handlers, LinkStep(h)
    PROVE  /\ Frame(h) /\ hand[h].pc \in LinkPcs
           /\ hand'[h].pc \in LinkPcs \union {"reply", "audit"}
           /\ hand'[h].reply = hand[h].reply
           /\ UNCHANGED <<app, update, kind, used, told, overlapped, cut, moved, revokes, mishaps, row, effect>>
           /\ hand'[h].pc \in LinkPcs \ {"linkRead", "linkExpire"} => hand'[h].twin \in Twins
  <1> USE DEF At, HandOnly, chat, history, bounds, rows
  <1>0. {"reply", "audit"} \union LinkPcs \subseteq Pcs
    BY DEF Pcs
  <1>1. CASE LinkRead(h)
    <2>1. hand[h].upd \in Tokens
      BY <1>1 DEF LinkRead, Requests, Asked, LinkPcs
    <2>2. Owner[hand[h].upd] \in Twins
      BY <2>1, TelegramAssumption
    <2>3. CASE Goto(h, "reply")
      BY <1>0, <1>1, <2>3, GotoFrame DEF LinkRead, LinkPcs
    <2>4. CASE Goto(h, "linkExpire")
      BY <1>0, <1>1, <2>4, GotoFrame DEF LinkRead, LinkPcs
    <2>5. CASE hand' = [hand EXCEPT ![h].pc = "linkAccount", ![h].twin = Owner[hand[h].upd]]
      <3>1. "linkAccount" \in Pcs /\ "linkAccount" \in LinkPcs \ {"linkRead", "linkExpire"}
        BY <1>0 DEF LinkPcs
      <3>2. PICK t \in Twins, p \in Pcs : t = Owner[hand[h].upd] /\ p = "linkAccount"
        BY <2>2, <3>1
      <3>3. hand' = [hand EXCEPT ![h].pc = p, ![h].twin = t]
        BY <2>5, <3>2
      <3>4. t \in Twins /\ p \in Pcs
        BY <3>2
      <3>5. Frame(h) /\ hand'[h].pc = p /\ hand'[h].reply = hand[h].reply /\ hand'[h].twin = t
        BY ZenonT(30), <3>3, <3>4, TwinFrame
      <3>6. QED
        BY <1>1, <3>1, <3>2, <3>5 DEF LinkRead, LinkPcs
    <2>6. QED
      BY <1>1, <2>3, <2>4, <2>5 DEF LinkRead
  <1>2. CASE LinkExpire(h)
    BY <1>0, <1>2, GotoFrame DEF LinkExpire, LinkPcs
  <1>3. CASE LinkAccount(h)
    BY <1>0, <1>3, GotoFrame DEF LinkAccount, LinkPcs, Requests, Asked
  <1>4. CASE LinkInsertAccount(h)
    BY <1>0, <1>4, GotoFrame DEF LinkInsertAccount, LinkPcs, Requests, Asked
  <1>10. CASE LinkSource(h)
    BY <1>0, <1>10, GotoFrame DEF LinkSource, FindSource, LinkPcs, Requests, Asked
  <1>11. CASE LinkInsertSource(h)
    BY <1>0, <1>11, GotoFrame DEF LinkInsertSource, InsertSource, LinkPcs, Requests, Asked
  <1>5. CASE LinkOthers(h)
    <2>1. Connected \ {Twin(h)} \in SUBSET Twins
      BY DEF Connected
    <2> DEFINE p == IF Connected \ {Twin(h)} = {} THEN "linkConsume" ELSE "linkDisconnect"
    <2>2. p \in Pcs /\ p \in LinkPcs \ {"linkRead", "linkExpire"}
      BY <1>0 DEF LinkPcs
    <2>3. hand' = [hand EXCEPT ![h].pc = p, ![h].seen = Connected \ {Twin(h)}]
      BY <1>5 DEF LinkOthers
    <2> HIDE DEF p
    <2>4. Frame(h) /\ hand'[h].pc = p /\ hand'[h].twin = hand[h].twin /\ hand'[h].reply = hand[h].reply
      BY <2>1, <2>2, <2>3, SeenFrame
    <2>5. QED
      BY <1>0, <1>5, <2>2, <2>4 DEF LinkOthers, LinkPcs, Requests, Asked
  <1>6. CASE LinkDisconnect(h)
    BY <1>0, <1>6, GotoFrame DEF LinkDisconnect, LinkPcs, Requests, Asked
  <1>7. CASE LinkDisconnectSources(h)
    <2>1. hand' = [hand EXCEPT ![h].pc = "linkConsume", ![h].seen = {}]
      BY <1>7 DEF LinkDisconnectSources
    <2>2. "linkConsume" \in Pcs /\ "linkConsume" \in LinkPcs \ {"linkRead", "linkExpire"}
      BY <1>0 DEF LinkPcs
    <2>3. PICK p \in Pcs, S \in SUBSET Twins : p = "linkConsume" /\ S = {}
      BY <2>2
    <2>4. hand' = [hand EXCEPT ![h].pc = p, ![h].seen = S] /\ p \in Pcs /\ S \in SUBSET Twins
      BY <2>1, <2>3
    <2>5. /\ Frame(h) /\ hand'[h].pc = p /\ hand'[h].reply = hand[h].reply
          /\ hand'[h].twin = hand[h].twin
      BY <2>4, SeenFrame
    <2>6. QED
      BY <1>7, <2>2, <2>3, <2>5 DEF LinkDisconnectSources, LinkPcs, Requests, Asked
  <1>8. CASE LinkConsume(h)
    BY <1>0, <1>8, GotoFrame DEF LinkConsume, LinkPcs
  <1>9. QED
    BY <1>1, <1>2, <1>3, <1>4, <1>5, <1>6, <1>7, <1>8, <1>10, <1>11 DEF LinkStep

\* The handler and the row of its message.
Mine(h) == hand[h].upd \in Msgs /\ hand[h].twin \in Twins

\* Only the row, or only the effect, of this handler's message changes.
RowFrame(h) ==
    /\ row' \in [Twins -> [Msgs -> {"none", "processing", "captured", "deferred", "failed"}]]
    /\ \A t \in Twins, m \in Msgs : t # Twin(h) \/ m # hand[h].upd => row'[t][m] = row[t][m]

EffectFrame(h) ==
    /\ effect' \in [Twins -> [Msgs -> Nat]]
    /\ \A t \in Twins, m \in Msgs : t # Twin(h) \/ m # hand[h].upd => effect'[t][m] = effect[t][m]

\* SetRow writes the row of the handler's message.
LEMMA SetRowFrame ==
    ASSUME TypeOK, NEW h \in Handlers, Mine(h),
           NEW s \in {"processing", "captured", "deferred", "failed"}, SetRow(h, s)
    PROVE  RowFrame(h) /\ row'[Twin(h)][hand[h].upd] = s
  BY DEF TypeOK, SetRow, RowFrame, Mine, Twin

\* One more effect of the handler's message.
LEMMA MoreFrame ==
    ASSUME TypeOK, NEW h \in Handlers, Mine(h),
           effect' = [effect EXCEPT ![Twin(h)][hand[h].upd] = @ + 1]
    PROVE  /\ EffectFrame(h)
           /\ effect'[Twin(h)][hand[h].upd] = effect[Twin(h)][hand[h].upd] + 1
  BY DEF TypeOK, EffectFrame, Mine, Twin

\* The commands, and what comes before the claim of a message.
LEMMA AskMoves ==
    ASSUME TypeOK, Requests, NEW h \in Handlers, AskStep(h)
    PROVE  /\ Frame(h) /\ hand[h].upd \in Msgs
           /\ hand[h].pc \in MsgPcs \ (ClaimPcs \union ClaimedPcs)
           /\ hand'[h].pc \in {"reply", "audit", "unlinkAccount", "unlinkSource", "source",
                               "insertSource", "answerRead", "answer", "claimRead"}
           /\ hand'[h].pc \in MsgPcs => hand'[h].twin \in Twins
           /\ hand'[h].pc \in AskPcs => kind[hand[h].upd] = "ask"
           /\ hand'[h].pc = "claimRead" => kind[hand[h].upd] # "ask"
           /\ hand'[h].pc = "answer" => hand[h].twin = hand'[h].twin /\ ~(effect[Twin(h)][hand[h].upd] > 0)
           /\ hand'[h].reply = hand[h].reply
           /\ UNCHANGED <<app, update, kind, used, told, overlapped, cut, revokes, mishaps, row, token>>
           /\ hand[h].pc # "resolve" => Mine(h) /\ hand'[h].twin = hand[h].twin /\ moved' = moved
           /\ hand[h].pc = "resolve" =>
                 /\ effect' = effect /\ moved \subseteq moved'
                 /\ moved' \subseteq moved \union {hand[h].upd}
                 /\ hand'[h].pc \in MsgPcs /\ hand[h].upd \notin moved' =>
                       \A s \in Twins \ {hand'[h].twin} : ~(effect[s][hand[h].upd] > 0)
           /\ \/ effect' = effect
              \/ /\ hand[h].pc = "answer" /\ hand'[h].pc = "audit" /\ Mine(h) /\ EffectFrame(h)
                 /\ kind[hand[h].upd] = "ask"
                 /\ effect'[Twin(h)][hand[h].upd] = effect[Twin(h)][hand[h].upd] + 1
  <1> USE DEF At, HandOnly, chat, history, bounds, rows
  <1>0. /\ MsgPcs \union {"reply", "audit"} \subseteq Pcs
        /\ {"unlinkAccount", "unlinkSource", "source", "insertSource", "answerRead", "answer",
            "claimRead", "resolve"} \subseteq MsgPcs
        /\ {"unlinkAccount", "unlinkSource", "source", "insertSource", "answerRead", "answer",
            "resolve", "reply", "audit"} \intersect (ClaimPcs \union ClaimedPcs) = {}
        /\ {"unlinkAccount", "unlinkSource", "source", "insertSource", "claimRead", "resolve",
            "reply", "audit"} \intersect AskPcs = {}
        /\ {"reply", "audit"} \intersect MsgPcs = {}
        /\ AskPcs = {"answerRead", "answer"}
    BY DEF Pcs, MsgPcs, AskPcs, ClaimPcs, ClaimedPcs
  <1>a. hand[h].pc \in MsgPcs => hand[h].upd \in Msgs
    BY DEF Requests, Asked
  <1>b. hand[h].pc \in MsgPcs \ {"resolve"} => Mine(h)
    BY DEF Requests, Asked, Mine
  <1>c. hand[h].pc \in AskPcs => kind[hand[h].upd] = "ask"
    BY DEF Requests, Asked
  <1>1. CASE Resolve(h)
    <2>0. hand[h].pc = "resolve" /\ effect' = effect
      BY <1>1 DEF Resolve
    <2>1. CASE Goto(h, "reply") /\ UNCHANGED moved
      BY <1>0, <1>1, <1>a, <2>0, <2>1, GotoFrame DEF Resolve
    <2>2. CASE Goto(h, "audit") /\ UNCHANGED moved
      BY <1>0, <1>1, <1>a, <2>0, <2>2, GotoFrame DEF Resolve
    <2>3. ASSUME NEW t \in Connected,
                 hand' = [hand EXCEPT ![h].twin = t,
                           ![h].pc = IF kind[hand[h].upd] = "unlink" THEN "unlinkAccount"
                                                                     ELSE "source"]
          PROVE  /\ Frame(h) /\ hand'[h].pc \in {"unlinkAccount", "source"}
                 /\ hand'[h].twin = t /\ t \in Twins /\ hand'[h].reply = hand[h].reply
      <3> DEFINE p == IF kind[hand[h].upd] = "unlink" THEN "unlinkAccount" ELSE "source"
      <3>1. p \in Pcs /\ p \in {"unlinkAccount", "source"} /\ t \in Twins
        BY <1>0 DEF Connected
      <3>2. hand' = [hand EXCEPT ![h].pc = p, ![h].twin = t]
        BY <2>3 DEF TypeOK
      <3> HIDE DEF p
      <3>3. QED
        BY <3>1, <3>2, TwinFrame
    <2>4. ASSUME NEW t \in Connected,
                 hand' = [hand EXCEPT ![h].twin = t,
                           ![h].pc = IF kind[hand[h].upd] = "unlink" THEN "unlinkAccount"
                                                                     ELSE "source"],
                 moved' = IF \E s \in Twins \ {t} : effect[s][hand[h].upd] > 0
                          THEN moved \union {hand[h].upd} ELSE moved
          PROVE  /\ moved \subseteq moved' /\ moved' \subseteq moved \union {hand[h].upd}
                 /\ hand[h].upd \notin moved' =>
                       \A s \in Twins \ {hand'[h].twin} : ~(effect[s][hand[h].upd] > 0)
      BY <2>3, <2>4
    <2>5. QED
      BY <1>0, <1>1, <1>a, <2>0, <2>1, <2>2, <2>3, <2>4 DEF Resolve
  <1>2. CASE UnlinkAccount(h)
    <2>1. hand[h].pc = "unlinkAccount" /\ Goto(h, "unlinkSource") /\ effect' = effect
      BY <1>2 DEF UnlinkAccount
    <2>2. /\ Frame(h) /\ hand'[h].pc = "unlinkSource" /\ hand'[h].twin = hand[h].twin
          /\ hand'[h].reply = hand[h].reply
      BY <1>0, <2>1, GotoFrame
    <2>3. Mine(h) /\ hand[h].upd \in Msgs /\ hand'[h].twin \in Twins
      BY <1>0, <1>b, <2>1, <2>2 DEF Mine
    <2>4. QED
      BY <1>0, <1>2, <2>1, <2>2, <2>3 DEF UnlinkAccount
  <1>3. CASE UnlinkSource(h)
    BY <1>0, <1>3, <1>a, <1>b, GotoFrame DEF UnlinkSource
  <1>4. CASE UpsertSource(h) \/ UpsertInsertSource(h)
    <2>1. /\ hand[h].pc \in {"source", "insertSource"} /\ effect' = effect
          /\ UNCHANGED <<app, update, kind, used, told, overlapped, cut, moved, revokes, mishaps, row, token>>
      BY <1>4 DEF UpsertSource, UpsertInsertSource, FindSource, InsertSource
    <2>m. Mine(h) /\ hand[h].upd \in Msgs /\ hand[h].twin \in Twins
      BY <1>0, <1>b, <2>1 DEF Mine
    <2>f. ASSUME NEW p \in {"insertSource", "answerRead", "claimRead"}, Goto(h, p)
          PROVE  /\ Frame(h) /\ hand'[h].pc = p /\ hand'[h].twin = hand[h].twin
                 /\ hand'[h].reply = hand[h].reply
      BY <1>0, <2>f, GotoFrame
    <2>2. CASE Goto(h, "insertSource")
      BY <1>0, <2>1, <2>2, <2>m, <2>f
    <2>3. CASE Goto(h, AfterSource(h))
      <3>1. CASE kind[hand[h].upd] = "ask"
        <4>1. Goto(h, "answerRead")
          BY <2>3, <3>1 DEF AfterSource
        <4>2. QED
          BY <1>0, <2>1, <2>m, <2>f, <3>1, <4>1
      <3>2. CASE kind[hand[h].upd] # "ask"
        <4>1. Goto(h, "claimRead")
          BY <2>3, <3>2 DEF AfterSource
        <4>2. QED
          BY <1>0, <2>1, <2>m, <2>f, <3>2, <4>1
      <3>3. QED
        BY <3>1, <3>2
    <2>4. QED
      BY <1>4, <2>2, <2>3 DEF UpsertSource, UpsertInsertSource, FindSource, InsertSource
  <1>5. CASE AnswerRead(h)
    <2>1. CASE effect[Twin(h)][hand[h].upd] > 0
      BY <1>0, <1>5, <1>a, <1>b, <1>c, <2>1, GotoFrame DEF AnswerRead
    <2>2. CASE ~(effect[Twin(h)][hand[h].upd] > 0)
      <3>1. hand[h].pc = "answerRead" /\ Goto(h, "answer") /\ effect' = effect
        BY <1>5, <2>2 DEF AnswerRead
      <3>2. /\ Frame(h) /\ hand'[h].pc = "answer" /\ hand'[h].twin = hand[h].twin
            /\ hand'[h].reply = hand[h].reply
        BY <1>0, <3>1, GotoFrame
      <3>3. /\ Mine(h) /\ hand[h].upd \in Msgs /\ hand'[h].twin \in Twins
            /\ kind[hand[h].upd] = "ask"
        BY <1>0, <1>b, <1>c, <3>1, <3>2 DEF Mine
      <3>4. QED
        BY <1>0, <1>5, <2>2, <3>1, <3>2, <3>3 DEF AnswerRead
    <2>3. QED
      BY <2>1, <2>2
  <1>6. CASE AnswerQuestion(h)
    <2>1. Mine(h)
      BY <1>0, <1>6, <1>b DEF AnswerQuestion
    <2>2. EffectFrame(h) /\ effect'[Twin(h)][hand[h].upd] = effect[Twin(h)][hand[h].upd] + 1
      BY <1>6, <2>1, MoreFrame DEF AnswerQuestion
    <2>3. /\ Frame(h) /\ hand'[h].pc = "audit" /\ hand'[h].reply = hand[h].reply
          /\ hand'[h].twin = hand[h].twin
      BY <1>0, <1>6, GotoFrame DEF AnswerQuestion
    <2>4. QED
      BY <1>0, <1>6, <1>a, <1>c, <2>1, <2>2, <2>3 DEF AnswerQuestion
  <1>7. CASE AnswerFails(h)
    BY <1>0, <1>7, <1>a, <1>b, GotoFrame DEF AnswerFails
  <1>8. QED
    BY <1>1, <1>2, <1>3, <1>4, <1>5, <1>6, <1>7 DEF AskStep

\* The claim: what it found, what it wrote and where it leaves the handler.
LEMMA ClaimMoves ==
    ASSUME TypeOK, Requests, NEW h \in Handlers, ClaimStep(h)
    PROVE  /\ Frame(h) /\ Mine(h) /\ hand'[h].twin = hand[h].twin
           /\ hand[h].pc \in ClaimPcs /\ kind[hand[h].upd] # "ask"
           /\ hand'[h].pc \in {"reply", "claimUpdate", "claimInsert", "correct", "resolveMedia", "store"}
           /\ hand'[h].pc = "correct" => kind[hand[h].upd] = "correction"
           /\ UNCHANGED <<app, update, kind, used, told, overlapped, cut, moved, revokes, mishaps,
                          account, source, token, effect>>
           /\ \/ /\ hand'[h].pc = "reply" /\ row' = row /\ hand'[h].reply = "duplicate"
                 /\ hand[h].pc # "claimUpdate" /\ Row(h) # "none"
                 /\ hand[h].pc = "claimRead" => Row(h) # "failed"
                 /\ hand[h].pc = "claimInsert" => Row(h) # "processing"
              \/ /\ hand'[h].reply = hand[h].reply /\ row' = row /\ hand[h].pc = "claimRead"
                 /\ \/ hand'[h].pc = "claimUpdate" /\ Row(h) = "failed"
                    \/ hand'[h].pc = "claimInsert" /\ Row(h) = "none"
              \/ /\ hand'[h].reply = hand[h].reply
                 /\ hand'[h].pc \in {"correct", "resolveMedia", "store"}
                 /\ hand[h].pc \in {"claimUpdate", "claimInsert"}
                 /\ RowFrame(h) /\ row'[Twin(h)][hand[h].upd] = "processing"
  <1> USE DEF At, HandOnly, chat, history, bounds, rows
  <1>0. /\ {"reply", "claimUpdate", "claimInsert", "correct", "resolveMedia", "store"} \subseteq Pcs
        /\ "duplicate" \in Replies
    BY DEF Pcs, ClaimedPcs, Replies
  <1>1. hand[h].pc \in ClaimPcs /\ Mine(h) /\ kind[hand[h].upd] # "ask"
    <2>1. hand[h].pc \in ClaimPcs
      BY DEF ClaimStep, ClaimRead, ClaimUpdate, ClaimInsert, ClaimPcs
    <2>2. QED
      BY <2>1 DEF Requests, Asked, MsgPcs, ClaimPcs, Mine
  <1>2. Claimed(h) \in {"correct", "resolveMedia", "store"}
    BY DEF Claimed
  <1>3. Claimed(h) = "correct" => kind[hand[h].upd] = "correction"
    BY DEF Claimed
  <1>4. PICK p \in Pcs : p = Claimed(h)
    BY <1>0, <1>2
  <1>5. ASSUME Goto(h, Claimed(h))
        PROVE  /\ Frame(h) /\ hand'[h].pc = p
               /\ hand'[h].twin = hand[h].twin /\ hand'[h].reply = hand[h].reply
    <2>1. Goto(h, p)
      BY <1>4, <1>5 DEF Goto
    <2>2. QED
      BY <2>1, GotoFrame
  <1>6. CASE ClaimRead(h)
    <2>1. CASE Row(h) \notin {"none", "failed"} /\ Answer(h, "reply", "duplicate")
      BY <1>0, <1>1, <1>6, <2>1, AnswerFrame DEF ClaimRead
    <2>2. CASE Row(h) = "failed" /\ Goto(h, "claimUpdate")
      BY <1>0, <1>1, <1>6, <2>2, GotoFrame DEF ClaimRead
    <2>3. CASE Row(h) = "none" /\ Goto(h, "claimInsert")
      BY <1>0, <1>1, <1>6, <2>3, GotoFrame DEF ClaimRead
    <2>4. QED
      BY <1>6, <2>1, <2>2, <2>3 DEF ClaimRead
  <1>7. CASE ClaimUpdate(h)
    <2>1. RowFrame(h) /\ row'[Twin(h)][hand[h].upd] = "processing"
      BY <1>1, <1>7, SetRowFrame DEF ClaimUpdate
    <2>2. /\ Frame(h) /\ hand'[h].pc = p
          /\ hand'[h].twin = hand[h].twin /\ hand'[h].reply = hand[h].reply
      BY <1>5, <1>7 DEF ClaimUpdate
    <2>3. QED
      BY <1>1, <1>2, <1>3, <1>4, <1>7, <2>1, <2>2 DEF ClaimUpdate
  <1>8. CASE ClaimInsert(h)
    <2>1. CASE Row(h) = "none" /\ SetRow(h, "processing") /\ Goto(h, Claimed(h))
      <3>1. RowFrame(h) /\ row'[Twin(h)][hand[h].upd] = "processing"
        BY <1>1, <2>1, SetRowFrame
      <3>2. QED
        BY <1>1, <1>2, <1>3, <1>4, <1>5, <1>8, <2>1, <3>1 DEF ClaimInsert
    <2>2. CASE Row(h) = "processing" /\ Goto(h, Claimed(h)) /\ UNCHANGED row
      <3>1. RowFrame(h) /\ row'[Twin(h)][hand[h].upd] = "processing"
        BY <2>2 DEF RowFrame, Row, TypeOK
      <3>2. QED
        BY <1>1, <1>2, <1>3, <1>4, <1>5, <1>8, <2>2, <3>1 DEF ClaimInsert
    <2>3. CASE Row(h) \notin {"none", "processing"} /\ Answer(h, "reply", "duplicate") /\ UNCHANGED row
      BY <1>0, <1>1, <1>8, <2>3, AnswerFrame DEF ClaimInsert
    <2>4. QED
      BY <1>8, <2>1, <2>2, <2>3 DEF ClaimInsert
  <1>9. QED
    BY <1>6, <1>7, <1>8 DEF ClaimStep

\* The capture: its effect, its row and where it leaves the handler.
LEMMA CaptureMoves ==
    ASSUME TypeOK, Requests, NEW h \in Handlers, CaptureStep(h)
    PROVE  /\ Frame(h) /\ Mine(h) /\ hand'[h].twin = hand[h].twin
           /\ hand[h].pc \in ClaimedPcs /\ kind[hand[h].upd] # "ask"
           /\ hand'[h].reply = hand[h].reply \/ hand'[h].reply = "captured"
           /\ UNCHANGED <<app, update, kind, used, told, overlapped, cut, moved, revokes, mishaps,
                          account, source, token>>
           /\ \/ /\ hand'[h].pc \in ClaimedPcs /\ row' = row
                 /\ hand'[h].pc # "correct"
                 /\ \/ effect' = effect /\ (hand'[h].pc \in FreshPcs =>
                          hand[h].pc \in FreshPcs \/ hand[h].pc = "correct")
                    \/ /\ EffectFrame(h) /\ hand'[h].pc \in {"enqueue", "markCaptured"}
                       /\ effect'[Twin(h)][hand[h].upd] = effect[Twin(h)][hand[h].upd] + 1
                       /\ hand[h].pc = "insert" \/ hand[h].pc = "correct"
                    \/ /\ EffectFrame(h) /\ hand'[h].pc = "markFailed" /\ hand[h].pc = "correct"
                       /\ effect'[Twin(h)][hand[h].upd] = effect[Twin(h)][hand[h].upd] + 1
              \/ /\ hand'[h].pc \in {"audit", "reply"} /\ effect' = effect
                 /\ RowFrame(h)
                 /\ \/ row'[Twin(h)][hand[h].upd] \in {"captured", "deferred"}
                    \/ row'[Twin(h)][hand[h].upd] = "failed" /\ hand[h].pc = "markFailed"
  <1> USE DEF At, HandOnly, chat, history, bounds, rows
  <1>0. ClaimedPcs \union {"audit", "reply"} \subseteq Pcs /\ "captured" \in Replies
    BY DEF Pcs, Replies
  <1>1. hand[h].pc \in ClaimedPcs /\ Mine(h) /\ kind[hand[h].upd] # "ask"
    <2>1. hand[h].pc \in ClaimedPcs
      BY DEF CaptureStep, ResolveMedia, Store, InsertArtifact, Correct, CaptureFails,
             EnqueueArtifact, MarkCaptured, MarkDeferred, MarkFailed, ClaimedPcs
    <2>2. QED
      BY <2>1 DEF Requests, Asked, MsgPcs, ClaimedPcs, Mine
  <1>2. CASE ResolveMedia(h)
    BY <1>0, <1>1, <1>2, GotoFrame DEF ResolveMedia, ClaimedPcs, FreshPcs
  <1>3. CASE Store(h)
    BY <1>0, <1>1, <1>3, GotoFrame DEF Store, ClaimedPcs, FreshPcs
  <1>4. CASE InsertArtifact(h)
    <2>1. EffectFrame(h) /\ effect'[Twin(h)][hand[h].upd] = effect[Twin(h)][hand[h].upd] + 1
      BY <1>1, <1>4, MoreFrame DEF InsertArtifact
    <2>2. QED
      BY <1>0, <1>1, <1>4, <2>1, GotoFrame DEF InsertArtifact, ClaimedPcs
  <1>5. CASE Correct(h)
    <2>1. CASE Goto(h, "markDeferred") /\ UNCHANGED effect
      BY <1>0, <1>1, <1>5, <2>1, GotoFrame DEF Correct, ClaimedPcs, FreshPcs
    <2>2. CASE /\ effect' = [effect EXCEPT ![Twin(h)][hand[h].upd] = @ + 1]
               /\ Goto(h, "markCaptured") \/ Goto(h, "markFailed")
      <3>1. EffectFrame(h) /\ effect'[Twin(h)][hand[h].upd] = effect[Twin(h)][hand[h].upd] + 1
        BY <1>1, <2>2, MoreFrame
      <3>2. CASE Goto(h, "markCaptured")
        BY <1>0, <1>1, <1>5, <3>1, <3>2, GotoFrame DEF Correct, ClaimedPcs
      <3>3. CASE Goto(h, "markFailed")
        BY <1>0, <1>1, <1>5, <3>1, <3>3, GotoFrame DEF Correct, ClaimedPcs
      <3>4. QED
        BY <2>2, <3>2, <3>3
    <2>3. QED
      BY <1>5, <2>1, <2>2 DEF Correct
  <1>6. CASE CaptureFails(h)
    BY <1>0, <1>1, <1>6, GotoFrame DEF CaptureFails, ClaimedPcs, FreshPcs
  <1>7. CASE EnqueueArtifact(h)
    BY <1>0, <1>1, <1>7, GotoFrame DEF EnqueueArtifact, ClaimedPcs, FreshPcs
  <1>8. CASE MarkCaptured(h)
    <2>1. RowFrame(h) /\ row'[Twin(h)][hand[h].upd] = "captured"
      BY <1>1, <1>8, SetRowFrame DEF MarkCaptured
    <2>2. QED
      BY <1>0, <1>1, <1>8, <2>1, AnswerFrame DEF MarkCaptured
  <1>9. CASE MarkDeferred(h)
    <2>1. RowFrame(h) /\ row'[Twin(h)][hand[h].upd] = "deferred"
      BY <1>1, <1>9, SetRowFrame DEF MarkDeferred
    <2>2. QED
      BY <1>0, <1>1, <1>9, <2>1, GotoFrame DEF MarkDeferred
  <1>10. CASE MarkFailed(h)
    <2>1. RowFrame(h) /\ row'[Twin(h)][hand[h].upd] = "failed"
      BY <1>1, <1>10, SetRowFrame DEF MarkFailed
    <2>2. QED
      BY <1>0, <1>1, <1>10, <2>1, GotoFrame DEF MarkFailed
  <1>11. QED
    BY <1>2, <1>3, <1>4, <1>5, <1>6, <1>7, <1>8, <1>9, <1>10 DEF CaptureStep

\* The app and Telegram leave the handlers, or all but their patience, alone.
LEMMA AppMoves ==
    ASSUME NEW t \in Twins, App(t)
    PROVE  UNCHANGED <<row, effect, update, kind, used, hand, told, overlapped, cut, moved, mishaps>>
  BY DEF App, MintRevoke, MintInsert, RevokeRead, RevokeAccounts, RevokeSources, RevokeTokens,
         RevokePending, AppOnly, chat, history

\* The record of a request at rest.
LEMMA IdleRecord ==
    /\ Idle \in Requesting /\ Idle.pc = "idle" /\ Idle.upd = None /\ Idle.reply = "other"
    /\ Idle.twin = None
  BY DEF Idle, Requesting, Pcs, Replies

\* The handler comes to rest: it is answered, or it is cut off.
LEMMA RestMoves ==
    ASSUME TypeOK, Requests, NEW h \in Handlers, Rests(h)
    PROVE  /\ hand' \in [Handlers -> Requesting] /\ hand' = [hand EXCEPT ![h] = Idle]
           /\ \A g \in Handlers \ {h} : hand'[g] = hand[g]
           /\ hand'[h] = Idle /\ hand[h].upd \in Updates
           /\ UNCHANGED <<account, source, token, row, effect, app, kind, used, overlapped, moved, revokes>>
           /\ \A u \in Updates : update'[u] = "unsent" => update[u] = "unsent"
           /\ update' \in [Updates -> {"unsent", "waiting", "posted", "done"}]
           /\ \/ hand[h].pc \in {"audit", "reply"} /\ cut' = cut
                 /\ told' = IF hand[h].upd \in Msgs /\ hand[h].reply # "other"
                            THEN told \union {<<hand[h].upd, hand[h].reply>>} ELSE told
              \/ cut' = cut \union {hand[h].upd} /\ told' = told
  <1> USE DEF rows, history
  <1>1. hand \in [Handlers -> Requesting]
    BY DEF TypeOK, Requesting
  <1>2. hand' = [hand EXCEPT ![h] = Idle] /\ hand[h].pc # "idle"
    BY DEF Rests, Fault, InsertRefused, Throw, Reply, At
  <1>3. hand' \in [Handlers -> Requesting] /\ hand'[h] = Idle
        /\ \A g \in Handlers \ {h} : hand'[g] = hand[g]
    BY <1>1, <1>2, IdleRecord
  <1>4. hand[h].upd \in Updates
    BY <1>1, <1>2 DEF Requests, Asked, Requesting
  <1>5. update \in [Updates -> {"unsent", "waiting", "posted", "done"}]
    BY DEF TypeOK
  <1>6. CASE Throw(h)
    BY <1>2, <1>3, <1>4, <1>5, <1>6 DEF Throw
  <1>7. CASE Reply(h)
    BY <1>2, <1>3, <1>4, <1>5, <1>7 DEF Reply, bounds
  <1>8. QED
    BY <1>6, <1>7 DEF Rests, Fault, InsertRefused

\* A post is taken by an idle handler, or dropped.
LEMMA DeliverMoves ==
    ASSUME TypeOK, NEW h \in Handlers, NEW u \in Updates, Deliver(h, u)
    PROVE  /\ hand[h].pc = "idle" /\ update[u] = "waiting"
           /\ UNCHANGED <<account, source, token, row, effect, app, kind, told, cut, moved, revokes, mishaps>>
           /\ \A v \in Updates : update'[v] = "unsent" => update[v] = "unsent"
           /\ update' \in [Updates -> {"unsent", "waiting", "posted", "done"}]
           /\ used' \in 0..MaxUpdates
           /\ \/ hand' = hand /\ overlapped' = overlapped
              \/ /\ hand' \in [Handlers -> Requesting] /\ hand'[h].upd = u
                 /\ \A g \in Handlers \ {h} : hand'[g] = hand[g]
                 /\ hand'[h].pc = (IF u \in Tokens THEN "linkRead" ELSE "resolve")
                 /\ hand'[h].reply = "other"
                 /\ overlapped' = IF \E g \in Handlers : hand[g].upd = u
                                  THEN overlapped \union {u} ELSE overlapped
  <1> USE DEF rows, bounds, history
  <1>1. hand \in [Handlers -> Requesting]
    BY DEF TypeOK, Requesting
  <1>2. update \in [Updates -> {"unsent", "waiting", "posted", "done"}]
        /\ MaxUpdates \in Nat \ {0} /\ used \in 0..MaxUpdates
    BY TelegramAssumption DEF TypeOK
  <1>3. /\ hand[h].pc = "idle" /\ update[u] = "waiting"
        /\ UNCHANGED <<account, source, token, row, effect, app, kind, told, cut, moved, revokes, mishaps>>
    BY DEF Deliver
  <1>4. CASE /\ used = MaxUpdates
             /\ update' = [update EXCEPT ![u] = "done"]
             /\ UNCHANGED <<used, hand, overlapped>>
    BY <1>2, <1>3, <1>4
  <1>5. CASE /\ \/ used' = 1
                \/ used < MaxUpdates /\ used' = used + 1
             /\ update' = [update EXCEPT ![u] = "posted"]
             /\ hand' = [hand EXCEPT ![h] =
                   [Idle EXCEPT !.pc = IF u \in Tokens THEN "linkRead" ELSE "resolve",
                                !.upd = u, !.awaited = TRUE]]
             /\ overlapped' = IF \E g \in Handlers : hand[g].upd = u
                              THEN overlapped \union {u} ELSE overlapped
    <2> DEFINE new == [Idle EXCEPT !.pc = IF u \in Tokens THEN "linkRead" ELSE "resolve",
                                   !.upd = u, !.awaited = TRUE]
    <2>1. /\ new \in Requesting /\ new.upd = u /\ new.reply = "other"
          /\ new.pc = (IF u \in Tokens THEN "linkRead" ELSE "resolve")
      BY DEF Idle, Requesting, Pcs, LinkPcs, Replies
    <2>2. hand' = [hand EXCEPT ![h] = new]
      BY <1>5
    <2> HIDE DEF new
    <2>3. /\ hand' \in [Handlers -> Requesting] /\ hand'[h] = new
          /\ \A g \in Handlers \ {h} : hand'[g] = hand[g]
      BY <1>1, <2>1, <2>2
    <2>4. used' \in 0..MaxUpdates
      BY <1>2, <1>5
    <2>5. /\ update' \in [Updates -> {"unsent", "waiting", "posted", "done"}]
          /\ \A v \in Updates : update'[v] = "unsent" => update[v] = "unsent"
      BY <1>2, <1>5
    <2>6. QED
      BY <1>3, <1>5, <2>1, <2>3, <2>4, <2>5
  <1>6. QED
    BY <1>4, <1>5 DEF Deliver

\* Telegram gives up on a post.
LEMMA TimeOutMoves ==
    ASSUME TypeOK, NEW h \in Handlers, TimeOut(h)
    PROVE  /\ hand' \in [Handlers -> Requesting]
           /\ \A g \in Handlers : /\ hand'[g].pc = hand[g].pc /\ hand'[g].upd = hand[g].upd
                                  /\ hand'[g].twin = hand[g].twin /\ hand'[g].seen = hand[g].seen
                                  /\ hand'[g].reply = hand[g].reply
           /\ UNCHANGED <<account, source, token, row, effect, app, kind, used, told, overlapped,
                          cut, moved, revokes>>
           /\ \A v \in Updates : update'[v] = "unsent" => update[v] = "unsent"
           /\ update' \in [Updates -> {"unsent", "waiting", "posted", "done"}]
  <1>1. /\ hand' = [hand EXCEPT ![h].awaited = FALSE]
        /\ update' = [update EXCEPT ![hand[h].upd] = "waiting"]
        /\ UNCHANGED <<account, source, token, row, effect, app, kind, used, told, overlapped, cut, moved, revokes>>
    BY DEF TimeOut, rows, history
  <1>2. hand \in [Handlers -> Requesting] /\ update \in [Updates -> {"unsent", "waiting", "posted", "done"}]
    BY DEF TypeOK, Requesting
  <1>3. hand' \in [Handlers -> Requesting]
    BY <1>1, <1>2 DEF Requesting
  <1>4. QED
    BY <1>1, <1>2, <1>3 DEF Requesting

-----------------------------------------------------------------------------
(* One lemma for each part of the invariant *)

\* What a handler's place says of its update.
LEMMA RequestsStep ==
    ASSUME TypeOK, Requests, Unsent, Next
    PROVE  Requests'
  <1> USE TelegramAssumption DEF Requests
  <1>0. hand \in [Handlers -> Requesting]
    BY DEF TypeOK, Requesting
  <1>p. /\ LinkPcs \intersect ({"idle", "reply", "audit"} \union MsgPcs) = {}
        /\ {"idle", "reply", "audit"} \intersect (LinkPcs \union MsgPcs) = {}
        /\ MsgPcs \intersect LinkPcs = {} /\ "correct" \in MsgPcs /\ AskPcs \subseteq MsgPcs
        /\ ClaimPcs \subseteq MsgPcs /\ ClaimedPcs \subseteq MsgPcs
        /\ (ClaimPcs \union ClaimedPcs) \intersect AskPcs = {}
    BY DEF LinkPcs, MsgPcs, AskPcs, ClaimPcs, ClaimedPcs
  <1>k. ASSUME NEW g \in Handlers, hand'[g] = hand[g], kind' = kind
        PROVE  Asked(g)'
    BY <1>k DEF Asked
  <1>1. ASSUME NEW t \in Twins, App(t)
        PROVE  Requests'
    BY <1>k, <1>1, AppMoves
  <1>2. ASSUME NEW u \in Updates, NEW what \in Kinds, Send(u, what)
        PROVE  Requests'
    <2>1. kind \in [Msgs -> Kinds]
      BY DEF TypeOK
    <2>2. hand' = hand
      BY <1>2 DEF Send
    <2>3. \A m \in Msgs : kind'[m] = kind[m] \/ \A h \in Handlers : hand[h].upd # m
      BY <1>2, <2>1 DEF Send, Unsent
    <2>4. QED
      BY <1>p, <2>2, <2>3 DEF Asked
  <1>3. ASSUME NEW h \in Handlers, NEW u \in Updates, Deliver(h, u)
        PROVE  Requests'
    <2>1. ASSUME hand'[h].upd = u, hand'[h].pc = (IF u \in Tokens THEN "linkRead" ELSE "resolve")
          PROVE  Asked(h)'
      BY <2>1 DEF Asked, Updates, LinkPcs, MsgPcs, AskPcs, ClaimPcs, ClaimedPcs
    <2>2. QED
      BY <1>k, <1>3, <2>1, DeliverMoves
  <1>4. ASSUME NEW h \in Handlers, TimeOut(h)
        PROVE  Requests'
    BY <1>4, TimeOutMoves DEF Asked
  <1>5. ASSUME NEW h \in Handlers, Rests(h)
        PROVE  Requests'
    <2>1. Asked(h)'
      BY <1>p, <1>5, RestMoves, IdleRecord DEF Asked
    <2>2. QED
      BY <1>k, <1>5, <2>1, RestMoves
  <1>6. ASSUME NEW h \in Handlers, LinkStep(h)
        PROVE  Requests'
    <2>1. hand[h].pc # "idle" /\ hand'[h].pc # "idle" /\ hand[h].upd \in Tokens
      BY <1>p, <1>6, LinkMoves DEF Asked
    <2>2. Asked(h)'
      BY <1>p, <1>6, <2>1, LinkMoves DEF Asked, Frame
    <2>3. QED
      BY <1>k, <1>6, <2>2, LinkMoves DEF Frame
  <1>7. ASSUME NEW h \in Handlers, AskStep(h)
        PROVE  Requests'
    <2>1. Asked(h)'
      <3>1. hand'[h].pc \notin LinkPcs /\ hand'[h].pc # "idle" /\ hand'[h].pc # "correct"
        BY <1>7, AskMoves DEF LinkPcs
      <3>2. hand'[h].pc \in ClaimPcs \union ClaimedPcs => hand'[h].pc = "claimRead"
        BY <1>7, AskMoves DEF ClaimPcs, ClaimedPcs
      <3>3. hand'[h].upd \in Msgs /\ kind' = kind /\ hand'[h].upd = hand[h].upd
        BY <1>7, AskMoves DEF Frame
      <3>4. QED
        BY <1>7, <3>1, <3>2, <3>3, AskMoves DEF Asked
    <2>2. QED
      BY <1>k, <1>7, <2>1, AskMoves DEF Frame
  <1>8. ASSUME NEW h \in Handlers, ClaimStep(h)
        PROVE  Requests'
    <2>1. Asked(h)'
      <3>1. hand'[h].pc \notin LinkPcs /\ hand'[h].pc # "idle" /\ hand'[h].pc \notin AskPcs
        BY <1>8, ClaimMoves DEF LinkPcs, AskPcs
      <3>3. hand'[h].upd \in Msgs /\ kind' = kind /\ hand'[h].upd = hand[h].upd /\ hand'[h].twin \in Twins
        BY <1>8, ClaimMoves DEF Frame, Mine
      <3>4. QED
        BY <1>8, <3>1, <3>3, ClaimMoves DEF Asked
    <2>2. QED
      BY <1>k, <1>8, <2>1, ClaimMoves DEF Frame
  <1>9. ASSUME NEW h \in Handlers, CaptureStep(h)
        PROVE  Requests'
    <2>1. Asked(h)'
      <3>1. /\ hand'[h].pc \in ClaimedPcs \union {"audit", "reply"} /\ hand'[h].pc # "correct"
        BY <1>9, CaptureMoves
      <3>2. hand'[h].pc \notin LinkPcs /\ hand'[h].pc # "idle" /\ hand'[h].pc \notin AskPcs
        BY <3>1, <1>p DEF ClaimedPcs, LinkPcs, AskPcs
      <3>3. hand'[h].upd \in Msgs /\ kind' = kind /\ hand'[h].upd = hand[h].upd /\ hand'[h].twin \in Twins
        BY <1>9, CaptureMoves DEF Frame, Mine
      <3>4. QED
        BY <1>9, <3>1, <3>2, <3>3, CaptureMoves DEF Asked
    <2>2. QED
      BY <1>k, <1>9, <2>1, CaptureMoves DEF Frame
  <1>10. ASSUME Crash
         PROVE  Requests'
    <2>1. \A h \in Handlers : hand'[h] = Idle
      BY <1>10 DEF Crash
    <2>2. QED
      BY <1>p, <2>1, IdleRecord DEF Asked
  <1>11. QED
    BY <1>1, <1>2, <1>3, <1>4, <1>5, <1>6, <1>7, <1>8, <1>9, <1>10, StepKinds DEF GoesOn

\* What has not been sent has left no trace.
LEMMA UnsentStep ==
    ASSUME TypeOK, Requests, Unsent, Next
    PROVE  Unsent'
  <1> USE TelegramAssumption DEF Unsent
  <1>0. /\ hand \in [Handlers -> Requesting] /\ None \notin Msgs /\ Tokens \intersect Msgs = {}
        /\ Msgs \subseteq Updates
        /\ \A m \in Msgs : update[m] = "unsent" \/ update[m] \in {"waiting", "posted", "done"}
    BY DEF TypeOK, Requesting, Updates
  <1>1. ASSUME NEW t \in Twins, App(t)
        PROVE  Unsent'
    BY <1>1, AppMoves
  <1>2. ASSUME NEW u \in Updates, NEW what \in Kinds, Send(u, what)
        PROVE  Unsent'
    <2>1. /\ UNCHANGED <<row, effect, hand>>
          /\ \A m \in Updates : update'[m] = "unsent" => update[m] = "unsent"
      BY <1>2 DEF Send, TypeOK, rows
    <2>2. QED
      BY <1>0, <2>1
  <1>3. ASSUME NEW h \in Handlers, NEW u \in Updates, Deliver(h, u)
        PROVE  Unsent'
    <2>1. update'[u] # "unsent"
      BY <1>3, DeliverMoves
    <2>2. QED
      BY <1>0, <1>3, <2>1, DeliverMoves
  <1>4. ASSUME NEW h \in Handlers, TimeOut(h)
        PROVE  Unsent'
    BY <1>0, <1>4, TimeOutMoves
  <1>5. ASSUME NEW h \in Handlers, Rests(h)
        PROVE  Unsent'
    BY <1>0, <1>5, RestMoves, IdleRecord
  <1>6. ASSUME NEW h \in Handlers, LinkStep(h)
        PROVE  Unsent'
    BY <1>0, <1>6, LinkMoves DEF Frame
  <1>7. ASSUME NEW h \in Handlers, AskStep(h)
        PROVE  Unsent'
    <2>1. update[hand[h].upd] # "unsent" /\ update' = update /\ row' = row
      BY <1>7, AskMoves
    <2>2. \A t \in Twins, m \in Msgs : m # hand[h].upd => effect'[t][m] = effect[t][m]
      BY <1>7, AskMoves DEF EffectFrame
    <2>3. \A g \in Handlers : hand'[g].upd = hand[g].upd
      BY <1>7, AskMoves DEF Frame
    <2>4. QED
      BY <1>0, <2>1, <2>2, <2>3
  <1>8. ASSUME NEW h \in Handlers, ClaimStep(h)
        PROVE  Unsent'
    <2>1. update[hand[h].upd] # "unsent" /\ update' = update /\ effect' = effect
      BY <1>8, ClaimMoves DEF Mine
    <2>2. \A t \in Twins, m \in Msgs : m # hand[h].upd => row'[t][m] = row[t][m]
      BY <1>8, ClaimMoves DEF RowFrame
    <2>3. \A g \in Handlers : hand'[g].upd = hand[g].upd
      BY <1>8, ClaimMoves DEF Frame
    <2>4. QED
      BY <1>0, <2>1, <2>2, <2>3
  <1>9. ASSUME NEW h \in Handlers, CaptureStep(h)
        PROVE  Unsent'
    <2>1. update[hand[h].upd] # "unsent" /\ update' = update
      BY <1>9, CaptureMoves DEF Mine
    <2>2. \A t \in Twins, m \in Msgs :
             m # hand[h].upd => row'[t][m] = row[t][m] /\ effect'[t][m] = effect[t][m]
      BY <1>9, CaptureMoves DEF RowFrame, EffectFrame
    <2>3. \A g \in Handlers : hand'[g].upd = hand[g].upd
      BY <1>9, CaptureMoves DEF Frame
    <2>4. QED
      BY <1>0, <2>1, <2>2, <2>3
  <1>10. ASSUME Crash
         PROVE  Unsent'
    <2>1. /\ \A h \in Handlers : hand'[h] = Idle
          /\ UNCHANGED <<row, effect>>
          /\ \A m \in Msgs : update'[m] = "unsent" => update[m] = "unsent"
      BY <1>0, <1>10 DEF Crash, rows
    <2>2. QED
      BY <1>0, <2>1, IdleRecord
  <1>11. QED
    BY <1>1, <1>2, <1>3, <1>4, <1>5, <1>6, <1>7, <1>8, <1>9, <1>10, StepKinds DEF GoesOn

\* Who is connected stays parted from the others, or a link command will part them.
LEMMA PartedStep ==
    ASSUME TypeOK, Requests, Parted, Next
    PROVE  Parted'
  <1> USE TelegramAssumption
  <1>0. /\ hand \in [Handlers -> Requesting] /\ account \in [Twins -> {"none", "connected", "disconnected"}]
        /\ cut \subseteq Updates
    BY DEF TypeOK, Requesting
  <1>c. ASSUME cut \intersect Tokens # {}, cut \subseteq cut'
        PROVE  Parted'
    BY <1>c DEF Parted
  <1>k. ASSUME Connected' \subseteq Connected, cut \subseteq cut',
               \A g \in Handlers, a, b \in Connected : Parts(g, a, b) => Parts(g, a, b)'
        PROVE  Parted'
    BY <1>k DEF Parted
  <1>1. ASSUME NEW t \in Twins, App(t)
        PROVE  Parted'
    <2>1. account' = account \/ account' = [account EXCEPT ![t] = IF @ = "none" THEN @ ELSE "disconnected"]
      BY <1>1 DEF App, MintRevoke, MintInsert, RevokeRead, RevokeAccounts, RevokeSources, RevokeTokens
    <2>2. Connected' \subseteq Connected
      BY <1>0, <2>1 DEF Connected
    <2>3. QED
      BY <1>1, <1>k, <2>2, AppMoves DEF Parts
  <1>2. ASSUME NEW u \in Updates, NEW what \in Kinds, Send(u, what)
        PROVE  Parted'
    BY <1>2, <1>k DEF Send, Parts, Connected, rows, history
  <1>3. ASSUME NEW h \in Handlers, NEW u \in Updates, Deliver(h, u)
        PROVE  Parted'
    <2>1. \A g \in Handlers, a, b \in Connected : Parts(g, a, b) => Parts(g, a, b)'
      BY <1>3, DeliverMoves DEF Parts
    <2>2. QED
      BY <1>3, <1>k, <2>1, DeliverMoves DEF Connected
  <1>4. ASSUME NEW h \in Handlers, TimeOut(h)
        PROVE  Parted'
    <2>1. \A g \in Handlers, a, b \in Connected : Parts(g, a, b) => Parts(g, a, b)'
      BY <1>4, TimeOutMoves DEF Parts
    <2>2. QED
      BY <1>4, <1>k, <2>1, TimeOutMoves DEF Connected
  <1>5. ASSUME NEW h \in Handlers, Rests(h)
        PROVE  Parted'
    <2>1. CASE hand[h].pc \in {"linkSource", "linkInsertSource", "linkOthers", "linkDisconnect"}
      <3>1. hand[h].upd \in Tokens
        BY <2>1 DEF Requests, Asked, LinkPcs
      <3>2. hand[h].upd \in cut'
        BY <1>5, <2>1, RestMoves
      <3>3. QED
        BY <3>1, <3>2 DEF Parted
    <2>2. CASE hand[h].pc \notin {"linkSource", "linkInsertSource", "linkOthers", "linkDisconnect"}
      <3>1. \A g \in Handlers, a, b \in Connected : Parts(g, a, b) => Parts(g, a, b)'
        BY <1>5, <2>2, RestMoves DEF Parts
      <3>2. QED
        BY <1>5, <1>k, <3>1, RestMoves DEF Connected
    <2>3. QED
      BY <2>1, <2>2
  <1>6. ASSUME NEW h \in Handlers, LinkStep(h)
        PROVE  Parted'
    <2>0. cut' = cut /\ Frame(h)
      BY <1>6, LinkMoves
    <2>1. CASE LinkRead(h) \/ LinkExpire(h) \/ LinkConsume(h) \/ LinkDisconnectSources(h)
      <3>1. /\ account' = account
            /\ hand[h].pc \notin {"linkSource", "linkInsertSource", "linkOthers", "linkDisconnect"}
        BY <2>1 DEF LinkRead, LinkExpire, LinkConsume, LinkDisconnectSources, At, rows
      <3>2. \A g \in Handlers, a, b \in Connected : Parts(g, a, b) => Parts(g, a, b)'
        BY <2>0, <3>1 DEF Parts, Frame
      <3>3. QED
        BY <1>k, <2>0, <3>1, <3>2 DEF Connected
    <2>2. CASE account' = [account EXCEPT ![Twin(h)] = "connected"] /\ Goto(h, "linkSource")
               /\ hand[h].pc \in {"linkAccount", "linkInsertAccount"}
      <3>1. hand'[h].pc = "linkSource" /\ hand'[h].twin = Twin(h)
        BY <1>0, <2>2 DEF Goto, Twin, Requesting
      <3>2. Connected' \subseteq Connected \union {Twin(h)}
        BY <1>0, <2>2 DEF Connected
      <3>3. \A g \in Handlers, a, b \in Connected : Parts(g, a, b) => Parts(g, a, b)'
        BY <2>0, <2>2, <3>1 DEF Parts, Frame
      <3>4. \A a, b \in Connected' : a = Twin(h) \/ b = Twin(h) => Parts(h, a, b)'
        BY <3>1 DEF Parts
      <3>5. QED
        BY <1>c, <2>0, <3>2, <3>3, <3>4 DEF Parted
    <2>3. CASE /\ account' = account
               /\ \/ Goto(h, "linkInsertAccount") /\ hand[h].pc = "linkAccount"
                  \/ Goto(h, "linkInsertSource") /\ hand[h].pc = "linkSource"
                  \/ Goto(h, "linkOthers") /\ hand[h].pc \in {"linkSource", "linkInsertSource"}
      <3>1. /\ hand'[h].twin = hand[h].twin
            /\ hand[h].pc \in {"linkSource", "linkInsertSource"} =>
                  hand'[h].pc \in {"linkInsertSource", "linkOthers"}
            /\ hand[h].pc \notin {"linkOthers", "linkDisconnect"}
        BY <1>0, <2>3 DEF Goto, Requesting
      <3>2. \A g \in Handlers, a, b \in Connected : Parts(g, a, b) => Parts(g, a, b)'
        BY <2>0, <3>1 DEF Parts, Frame
      <3>3. QED
        BY <1>k, <2>0, <2>3, <3>2 DEF Connected
    <2>4. CASE LinkOthers(h)
      <3> DEFINE others == Connected \ {Twin(h)}
      <3>1. /\ hand[h].pc = "linkOthers" /\ account' = account
            /\ hand'[h].pc = (IF others = {} THEN "linkConsume" ELSE "linkDisconnect")
            /\ hand'[h].seen = others
        BY <1>0, <2>4 DEF LinkOthers, At, Requesting, rows
      <3>2. \A a, b \in Connected : a # b /\ Parts(h, a, b) => Parts(h, a, b)'
        BY <3>1 DEF Parts, Twin
      <3>3. \A g \in Handlers \ {h}, a, b \in Connected : Parts(g, a, b) => Parts(g, a, b)'
        BY <2>0 DEF Parts, Frame
      <3>4. Connected' = Connected
        BY <3>1 DEF Connected
      <3>5. QED
        BY <1>c, <2>0, <3>2, <3>3, <3>4 DEF Parted
    <2>5. CASE LinkDisconnect(h)
      <3>1. /\ hand[h].pc = "linkDisconnect"
            /\ account' = [t \in Twins |-> IF t \in hand[h].seen THEN "disconnected" ELSE account[t]]
        BY <2>5 DEF LinkDisconnect, At
      <3>2. Connected' \subseteq Connected \ hand[h].seen
        BY <3>1 DEF Connected
      <3>3. \A a, b \in Connected' : ~Parts(h, a, b)
        BY <3>1, <3>2 DEF Parts
      <3>4. \A g \in Handlers \ {h}, a, b \in Connected : Parts(g, a, b) => Parts(g, a, b)'
        BY <2>0 DEF Parts, Frame
      <3>5. QED
        BY <1>c, <2>0, <3>2, <3>3, <3>4 DEF Parted
    <2>6. CASE LinkAccount(h) \/ LinkInsertAccount(h) \/ LinkSource(h) \/ LinkInsertSource(h)
      BY <2>2, <2>3, <2>6 DEF LinkAccount, LinkInsertAccount, LinkSource, LinkInsertSource,
                              FindSource, InsertSource, At
    <2>7. QED
      BY <1>6, <2>1, <2>4, <2>5, <2>6 DEF LinkStep
  <1>7. ASSUME NEW h \in Handlers, AskStep(h)
        PROVE  Parted'
    <2>1. hand[h].pc \notin {"linkSource", "linkInsertSource", "linkOthers", "linkDisconnect"}
      BY <1>7, AskMoves DEF MsgPcs, AskPcs, ClaimPcs, ClaimedPcs
    <2>2. \A g \in Handlers, a, b \in Connected : Parts(g, a, b) => Parts(g, a, b)'
      BY <1>7, <2>1, AskMoves DEF Parts, Frame
    <2>3. account' = account \/ account' = [account EXCEPT ![Twin(h)] = "disconnected"]
      BY <1>7 DEF AskStep, Resolve, UnlinkAccount, UnlinkSource, UpsertSource,
                  UpsertInsertSource, FindSource, InsertSource, AnswerRead, AnswerQuestion,
                  AnswerFails, rows
    <2>4. Connected' \subseteq Connected
      BY <1>0, <2>3 DEF Connected
    <2>5. QED
      BY <1>7, <1>k, <2>2, <2>4, AskMoves
  <1>8. ASSUME NEW h \in Handlers, ClaimStep(h) \/ CaptureStep(h)
        PROVE  Parted'
    <2>1. hand[h].pc \notin {"linkSource", "linkInsertSource", "linkOthers", "linkDisconnect"}
      BY <1>8, ClaimMoves, CaptureMoves DEF ClaimPcs, ClaimedPcs
    <2>2. Frame(h) /\ account' = account /\ cut' = cut
      BY <1>8, ClaimMoves, CaptureMoves
    <2>3. \A g \in Handlers, a, b \in Connected : Parts(g, a, b) => Parts(g, a, b)'
      BY <2>1, <2>2 DEF Parts, Frame
    <2>4. QED
      BY <1>k, <2>2, <2>3 DEF Connected
  <1>10. ASSUME Crash
         PROVE  Parted'
    <2>1. CASE \E h \in Handlers : hand[h].pc \in {"linkSource", "linkInsertSource", "linkOthers", "linkDisconnect"}
      <3>1. PICK h \in Handlers : hand[h].pc \in {"linkSource", "linkInsertSource", "linkOthers", "linkDisconnect"}
        BY <2>1
      <3>2. hand[h].upd \in Tokens
        BY <3>1 DEF Requests, Asked, LinkPcs
      <3>3. hand[h].upd \in cut'
        BY <1>10, <3>1 DEF Crash, At
      <3>4. QED
        BY <3>2, <3>3 DEF Parted
    <2>2. CASE \A h \in Handlers : hand[h].pc \notin {"linkSource", "linkInsertSource", "linkOthers", "linkDisconnect"}
      <3>1. \A h \in Handlers, a, b \in Connected : ~Parts(h, a, b)
        BY <2>2 DEF Parts
      <3>2. cut \subseteq cut' /\ account' = account
        BY <1>10 DEF Crash, rows
      <3>3. QED
        BY <1>k, <3>1, <3>2 DEF Connected
    <2>3. QED
      BY <2>1, <2>2
  <1>11. QED
    BY <1>1, <1>2, <1>3, <1>4, <1>5, <1>6, <1>7, <1>8, <1>10, StepKinds DEF GoesOn

\* A message that two requests never handled at once has one.
LEMMA AloneStep ==
    ASSUME TypeOK, Requests, Alone, Next
    PROVE  Alone'
  <1> USE TelegramAssumption DEF Alone
  <1>k. ASSUME overlapped' = overlapped, \A g \in Handlers : hand'[g].upd = hand[g].upd
        PROVE  Alone'
    BY <1>k
  <1>r. ASSUME overlapped' = overlapped,
               \A g \in Handlers : hand'[g].upd = hand[g].upd \/ hand'[g].upd = None
        PROVE  Alone'
    BY <1>r
  <1>1. ASSUME NEW t \in Twins, App(t)
        PROVE  Alone'
    BY <1>1, <1>k, AppMoves
  <1>2. ASSUME NEW u \in Updates, NEW what \in Kinds, Send(u, what)
        PROVE  Alone'
    BY <1>2, <1>k DEF Send, history
  <1>3. ASSUME NEW h \in Handlers, NEW u \in Updates, Deliver(h, u)
        PROVE  Alone'
    <2>1. overlapped \subseteq overlapped'
      BY <1>3, DeliverMoves
    <2>2. \A g \in Handlers \ {h} : hand'[g].upd = hand[g].upd
      BY <1>3, DeliverMoves
    <2>3. CASE hand' = hand
      BY <2>1, <2>3
    <2>4. CASE /\ hand'[h].upd = u
               /\ overlapped' = IF \E g \in Handlers : hand[g].upd = u
                                THEN overlapped \union {u} ELSE overlapped
      <3>1. u \in Msgs \ overlapped' => \A g \in Handlers : hand[g].upd # u
        BY <2>4
      <3>2. QED
        BY <2>1, <2>2, <2>4, <3>1
    <2>5. QED
      BY <1>3, <2>3, <2>4, DeliverMoves
  <1>4. ASSUME NEW h \in Handlers, TimeOut(h)
        PROVE  Alone'
    BY <1>k, <1>4, TimeOutMoves
  <1>5. ASSUME NEW h \in Handlers, Rests(h)
        PROVE  Alone'
    <2>1. overlapped' = overlapped
      BY <1>5, RestMoves
    <2>2. \A g \in Handlers : hand'[g].upd = hand[g].upd \/ hand'[g].upd = None
      BY <1>5, RestMoves, IdleRecord
    <2>3. QED
      BY <1>r, <2>1, <2>2
  <1>6. ASSUME NEW h \in Handlers, GoesOn(h)
        PROVE  Alone'
    <2>1. Frame(h) /\ overlapped' = overlapped
      BY <1>6, LinkMoves, AskMoves, ClaimMoves, CaptureMoves DEF GoesOn
    <2>2. QED
      BY <1>k, <2>1 DEF Frame
  <1>7. ASSUME Crash
        PROVE  Alone'
    BY <1>7, <1>r, IdleRecord DEF Crash
  <1>8. QED
    BY <1>1, <1>2, <1>3, <1>4, <1>5, <1>6, <1>7, StepKinds

\* The only request of a message knows its row.
LEMMA KnownStep ==
    ASSUME TypeOK, Requests, Alone, Known, Next
    PROVE  Known'
  <1> USE TelegramAssumption
  <1>k. ASSUME row' = row, overlapped \subseteq overlapped',
               \A g \in Handlers : \/ hand'[g].pc = hand[g].pc /\ hand'[g].twin = hand[g].twin
                                      /\ hand'[g].upd = hand[g].upd
                                   \/ hand'[g].upd \notin Msgs
                                   \/ hand'[g].pc \notin {"claimUpdate", "claimInsert"} \union ClaimedPcs
        PROVE  Known'
    BY <1>k DEF Known, At, Row, Twin
  \* A step of one request writes no row that another one knows.
  <1>f. ASSUME NEW h \in Handlers, Frame(h), overlapped' = overlapped, Mine(h),
               (row' = row \/ RowFrame(h)),
               hand'[h].pc = "claimUpdate" => row'[hand'[h].twin][hand[h].upd] = "failed",
               hand'[h].pc = "claimInsert" => row'[hand'[h].twin][hand[h].upd] = "none",
               hand[h].upd \notin overlapped /\ hand'[h].pc \in ClaimedPcs
                   => row'[hand'[h].twin][hand[h].upd] = "processing"
        PROVE  Known'
    <2> SUFFICES ASSUME NEW g \in Handlers, hand'[g].upd \in Msgs \ overlapped'
                 PROVE  /\ At(g, "claimUpdate")' => Row(g)' = "failed"
                        /\ At(g, "claimInsert")' => Row(g)' = "none"
                        /\ hand'[g].pc \in ClaimedPcs => Row(g)' = "processing"
      BY DEF Known
    <2>1. CASE g = h
      BY <1>f, <2>1 DEF Frame, At, Row, Twin
    <2>2. CASE g # h
      <3>1. hand'[g] = hand[g] /\ hand[g].upd \in Msgs \ overlapped
        BY <1>f, <2>2 DEF Frame
      <3>2. hand[g].upd # hand[h].upd
        BY <2>2, <3>1 DEF Alone
      <3>3. hand[g].pc \in {"claimUpdate", "claimInsert"} \union ClaimedPcs => Twin(g) \in Twins
        BY DEF Requests, Asked, MsgPcs, ClaimPcs, ClaimedPcs, Twin
      <3>4. Twin(g) \in Twins => row'[Twin(g)][hand[g].upd] = row[Twin(g)][hand[g].upd]
        BY <1>f, <3>1, <3>2 DEF RowFrame
      <3>5. QED
        BY <3>1, <3>3, <3>4 DEF Known, At, Row, Twin
    <2>3. QED
      BY <2>1, <2>2
  <1>1. ASSUME NEW t \in Twins, App(t)
        PROVE  Known'
    BY <1>1, <1>k, AppMoves
  <1>2. ASSUME NEW u \in Updates, NEW what \in Kinds, Send(u, what)
        PROVE  Known'
    BY <1>2, <1>k DEF Send, rows, history
  <1>3. ASSUME NEW h \in Handlers, NEW u \in Updates, Deliver(h, u)
        PROVE  Known'
    <2>1. {"linkRead", "resolve"} \intersect ({"claimUpdate", "claimInsert"} \union ClaimedPcs) = {}
      BY DEF ClaimedPcs
    <2>2. row' = row /\ overlapped \subseteq overlapped'
      BY <1>3, DeliverMoves
    <2>3. \A g \in Handlers : hand'[g] = hand[g] \/ hand'[g].pc \in {"linkRead", "resolve"}
      BY <1>3, DeliverMoves
    <2>4. QED
      BY <1>k, <2>1, <2>2, <2>3
  <1>4. ASSUME NEW h \in Handlers, TimeOut(h)
        PROVE  Known'
    BY <1>k, <1>4, TimeOutMoves
  <1>5. ASSUME NEW h \in Handlers, Rests(h)
        PROVE  Known'
    <2>1. \A g \in Handlers : hand'[g] = hand[g] \/ hand'[g].upd = None
      BY <1>5, RestMoves, IdleRecord
    <2>2. QED
      BY <1>k, <1>5, <2>1, RestMoves
  <1>6. ASSUME NEW h \in Handlers, LinkStep(h)
        PROVE  Known'
    <2>1. hand'[h].upd \notin Msgs
      BY <1>6, LinkMoves DEF Requests, Asked, Frame
    <2>2. QED
      BY <1>k, <1>6, <2>1, LinkMoves DEF Frame
  <1>7. ASSUME NEW h \in Handlers, AskStep(h)
        PROVE  Known'
    <2>1. hand'[h].pc \notin {"claimUpdate", "claimInsert"} \union ClaimedPcs
      BY <1>7, AskMoves DEF ClaimedPcs
    <2>2. QED
      BY <1>k, <1>7, <2>1, AskMoves DEF Frame
  <1>8. ASSUME NEW h \in Handlers, ClaimStep(h)
        PROVE  Known'
    <2>1. /\ Frame(h) /\ overlapped' = overlapped /\ Mine(h) /\ hand'[h].twin = Twin(h)
          /\ (row' = row \/ RowFrame(h))
      BY <1>8, ClaimMoves DEF Twin
    <2>2. /\ hand'[h].pc = "claimUpdate" => row'[Twin(h)][hand[h].upd] = "failed"
          /\ hand'[h].pc = "claimInsert" => row'[Twin(h)][hand[h].upd] = "none"
          /\ hand'[h].pc \in ClaimedPcs => row'[Twin(h)][hand[h].upd] = "processing"
      BY <1>8, ClaimMoves DEF Row, ClaimedPcs
    <2>3. QED
      BY <1>f, <2>1, <2>2
  <1>9. ASSUME NEW h \in Handlers, CaptureStep(h)
        PROVE  Known'
    <2>1. /\ Frame(h) /\ overlapped' = overlapped /\ Mine(h) /\ hand'[h].twin = Twin(h)
          /\ (row' = row \/ RowFrame(h))
      BY <1>9, CaptureMoves DEF Twin
    <2>2. hand'[h].pc \notin {"claimUpdate", "claimInsert"}
      BY <1>9, CaptureMoves DEF ClaimedPcs
    <2>3. hand'[h].pc \in ClaimedPcs => row' = row /\ hand[h].pc \in ClaimedPcs
      BY <1>9, CaptureMoves DEF ClaimedPcs
    <2>4. hand[h].upd \notin overlapped /\ hand[h].pc \in ClaimedPcs
             => row[Twin(h)][hand[h].upd] = "processing"
      BY <2>1 DEF Known, Mine, Row
    <2>5. QED
      BY <1>f, <2>1, <2>2, <2>3, <2>4
  <1>10. ASSUME Crash
         PROVE  Known'
    BY <1>10, <1>k, IdleRecord DEF Crash, rows
  <1>11. QED
    BY <1>1, <1>2, <1>3, <1>4, <1>5, <1>6, <1>7, <1>8, <1>9, <1>10, StepKinds DEF GoesOn

\* A message that is being processed has its processor.
LEMMA HeldStep ==
    ASSUME TypeOK, Requests, Alone, Known, Held, Next
    PROVE  Held'
  <1> USE TelegramAssumption
  <1>k. ASSUME row' = row, overlapped \subseteq overlapped', cut \subseteq cut',
               \A g \in Handlers : hand[g].pc \in ClaimedPcs /\ hand[g].upd \notin cut' =>
                  /\ hand'[g].pc \in ClaimedPcs /\ hand'[g].upd = hand[g].upd
                  /\ hand'[g].twin = hand[g].twin
        PROVE  Held'
    BY <1>k DEF Held, Twin
  \* A step of one request ends no other's processing.
  <1>f. ASSUME NEW h \in Handlers, Frame(h), Mine(h), UNCHANGED <<overlapped, cut>>,
               (row' = row \/ RowFrame(h)), hand'[h].twin = hand[h].twin,
               \/ row'[Twin(h)][hand[h].upd] # "processing"
               \/ hand'[h].pc \in ClaimedPcs
               \/ row' = row /\ hand[h].pc \notin ClaimedPcs
        PROVE  Held'
    <2> SUFFICES ASSUME NEW t \in Twins, NEW m \in Msgs \ (overlapped \union cut),
                        row'[t][m] = "processing"
                 PROVE  \E g \in Handlers :
                           hand'[g].upd = m /\ hand'[g].twin = t /\ hand'[g].pc \in ClaimedPcs
      BY <1>f DEF Held, Twin
    <2>1. CASE t = Twin(h) /\ m = hand[h].upd /\ hand'[h].pc \in ClaimedPcs
      BY <1>f, <2>1 DEF Frame, Twin
    <2>2. CASE ~(t = Twin(h) /\ m = hand[h].upd)
      <3>1. row[t][m] = "processing"
        BY <1>f, <2>2 DEF RowFrame
      <3>2. PICK g \in Handlers : hand[g].upd = m /\ Twin(g) = t /\ hand[g].pc \in ClaimedPcs
        BY <3>1 DEF Held
      <3>3. g # h
        BY <2>2, <3>2
      <3>4. QED
        BY <1>f, <3>2, <3>3 DEF Frame, Twin
    <2>3. CASE t = Twin(h) /\ m = hand[h].upd /\ hand'[h].pc \notin ClaimedPcs
      <3>1. row' = row /\ hand[h].pc \notin ClaimedPcs
        BY <1>f, <2>3
      <3>2. PICK g \in Handlers : hand[g].upd = m /\ Twin(g) = t /\ hand[g].pc \in ClaimedPcs
        BY <3>1 DEF Held
      <3>3. g # h
        BY <3>1, <3>2
      <3>4. QED
        BY <1>f, <3>2, <3>3 DEF Frame, Twin
    <2>4. QED
      BY <2>1, <2>2, <2>3
  <1>1. ASSUME NEW t \in Twins, App(t)
        PROVE  Held'
    BY <1>1, <1>k, AppMoves
  <1>2. ASSUME NEW u \in Updates, NEW what \in Kinds, Send(u, what)
        PROVE  Held'
    BY <1>2, <1>k DEF Send, rows, history
  <1>3. ASSUME NEW h \in Handlers, NEW u \in Updates, Deliver(h, u)
        PROVE  Held'
    <2>1. hand[h].pc \notin ClaimedPcs
      BY <1>3, DeliverMoves DEF ClaimedPcs
    <2>2. \A g \in Handlers \ {h} : hand'[g] = hand[g]
      BY <1>3, DeliverMoves
    <2>3. row' = row /\ overlapped \subseteq overlapped' /\ cut' = cut
      BY <1>3, DeliverMoves
    <2>4. QED
      BY <1>k, <2>1, <2>2, <2>3
  <1>4. ASSUME NEW h \in Handlers, TimeOut(h)
        PROVE  Held'
    BY <1>k, <1>4, TimeOutMoves
  <1>5. ASSUME NEW h \in Handlers, Rests(h)
        PROVE  Held'
    <2>1. row' = row /\ overlapped' = overlapped /\ cut \subseteq cut'
      BY <1>5, RestMoves
    <2>2. {"audit", "reply"} \intersect ClaimedPcs = {}
      BY DEF ClaimedPcs
    <2>3. hand[h].pc \notin ClaimedPcs \/ hand[h].upd \in cut'
      BY <1>5, <2>2, RestMoves
    <2>4. \A g \in Handlers \ {h} : hand'[g] = hand[g]
      BY <1>5, RestMoves
    <2>5. QED
      BY <1>k, <2>1, <2>3, <2>4
  <1>6. ASSUME NEW h \in Handlers, LinkStep(h) \/ AskStep(h)
        PROVE  Held'
    <2>1. hand[h].pc \notin ClaimedPcs
      BY <1>6, LinkMoves, AskMoves DEF ClaimedPcs, LinkPcs
    <2>2. Frame(h) /\ UNCHANGED <<row, overlapped, cut>>
      BY <1>6, LinkMoves, AskMoves
    <2>3. QED
      BY <1>k, <2>1, <2>2 DEF Frame
  <1>7. ASSUME NEW h \in Handlers, ClaimStep(h)
        PROVE  Held'
    <2>1. /\ Frame(h) /\ Mine(h) /\ hand'[h].twin = hand[h].twin /\ (row' = row \/ RowFrame(h))
          /\ UNCHANGED <<overlapped, cut>>
      BY <1>7, ClaimMoves
    <2>2. hand[h].pc \notin ClaimedPcs
      BY <1>7, ClaimMoves DEF ClaimPcs, ClaimedPcs
    <2>3. \/ row'[Twin(h)][hand[h].upd] # "processing"
          \/ hand'[h].pc \in ClaimedPcs
          \/ row' = row /\ hand[h].pc \notin ClaimedPcs
      BY <1>7, <2>2, ClaimMoves DEF ClaimedPcs
    <2>4. QED
      BY <1>f, <2>1, <2>3
  <1>8. ASSUME NEW h \in Handlers, CaptureStep(h)
        PROVE  Held'
    <2>1. /\ Frame(h) /\ Mine(h) /\ hand'[h].twin = hand[h].twin /\ (row' = row \/ RowFrame(h))
          /\ UNCHANGED <<overlapped, cut>>
      BY <1>8, CaptureMoves
    <2>2. \/ row'[Twin(h)][hand[h].upd] # "processing"
          \/ hand'[h].pc \in ClaimedPcs
          \/ row' = row /\ hand[h].pc \notin ClaimedPcs
      BY <1>8, CaptureMoves
    <2>3. QED
      BY <1>f, <2>1, <2>2
  <1>9. ASSUME Crash
        PROVE  Held'
    <2>1. row' = row /\ overlapped' = overlapped
      BY <1>9 DEF Crash, rows
    <2>2. \A g \in Handlers : hand[g].pc \in ClaimedPcs => hand[g].upd \in cut'
      BY <1>9 DEF Crash, At, ClaimedPcs
    <2>3. cut \subseteq cut'
      BY <1>9 DEF Crash
    <2>4. QED
      BY <1>k, <2>1, <2>2, <2>3
  <1>10. QED
    BY <1>1, <1>2, <1>3, <1>4, <1>5, <1>6, <1>7, <1>8, <1>9, StepKinds DEF GoesOn

\* A message has one effect on a twin at most.
LEMMA OnceStep ==
    ASSUME TypeOK, Requests, Unsent, Alone, Known, Once, Next
    PROVE  Once'
  <1> USE TelegramAssumption
  <1>0. effect \in [Twins -> [Msgs -> Nat]]
    BY DEF TypeOK
  <1>k. ASSUME UNCHANGED <<row, effect, kind>>, overlapped \subseteq overlapped',
               \A g \in Handlers : hand'[g].pc \in FreshPcs =>
                  hand'[g].pc = hand[g].pc /\ hand'[g].upd = hand[g].upd /\ hand'[g].twin = hand[g].twin
        PROVE  Once'
    BY <1>k DEF Once, Twin
  \* A step of one request, the only one its message has, keeps the counts right.
  <1>f. ASSUME NEW h \in Handlers, Frame(h), Mine(h), UNCHANGED <<overlapped, kind>>,
               (row' = row \/ RowFrame(h)), (effect' = effect \/ EffectFrame(h)),
               hand[h].upd \notin overlapped /\ kind[hand[h].upd] # "correction" =>
                 /\ effect'[Twin(h)][hand[h].upd] <= 1
                 /\ kind[hand[h].upd] # "ask" /\ row'[Twin(h)][hand[h].upd] \in {"none", "failed"}
                      => effect'[Twin(h)][hand[h].upd] = 0
                 /\ hand'[h].pc \in FreshPcs =>
                      hand'[h].twin = Twin(h) /\ effect'[Twin(h)][hand[h].upd] = 0
        PROVE  Once'
    <2> SUFFICES ASSUME NEW t \in Twins, NEW m \in Msgs \ overlapped, kind[m] # "correction"
                 PROVE  /\ effect'[t][m] <= 1
                        /\ kind[m] # "ask" /\ row'[t][m] \in {"none", "failed"} => effect'[t][m] = 0
                        /\ \A g \in Handlers :
                              hand'[g].upd = m /\ hand'[g].twin = t /\ hand'[g].pc \in FreshPcs
                                 => effect'[t][m] = 0
      BY <1>f DEF Once, Twin
    <2>1. CASE t = Twin(h) /\ m = hand[h].upd
      <3>1. \A g \in Handlers : hand'[g].upd = m => g = h
        BY <1>f, <2>1 DEF Frame, Alone
      <3>2. QED
        BY <1>f, <2>1, <3>1
    <2>2. CASE ~(t = Twin(h) /\ m = hand[h].upd)
      <3>1. row'[t][m] = row[t][m] /\ effect'[t][m] = effect[t][m]
        BY <1>f, <2>2 DEF RowFrame, EffectFrame
      <3>2. /\ effect[t][m] <= 1
            /\ kind[m] # "ask" /\ row[t][m] \in {"none", "failed"} => effect[t][m] = 0
            /\ \A g \in Handlers :
                  hand[g].upd = m /\ Twin(g) = t /\ hand[g].pc \in FreshPcs => effect[t][m] = 0
        BY DEF Once
      <3>3. \A g \in Handlers \ {h} : hand'[g] = hand[g]
        BY <1>f DEF Frame
      <3>4. hand'[h].upd = m /\ hand'[h].twin = t /\ hand'[h].pc \in FreshPcs => FALSE
        BY <1>f, <2>2 DEF Frame, Twin
      <3>5. QED
        BY <3>1, <3>2, <3>3, <3>4 DEF Twin
    <2>3. QED
      BY <2>1, <2>2
  <1>1. ASSUME NEW t \in Twins, App(t)
        PROVE  Once'
    BY <1>1, <1>k, AppMoves
  <1>2. ASSUME NEW u \in Updates, NEW what \in Kinds, Send(u, what)
        PROVE  Once'
    <2>1. UNCHANGED <<row, effect, hand, overlapped>>
      BY <1>2 DEF Send, rows, history
    <2>2. \A m \in Msgs : kind'[m] = kind[m] \/ m = u
      BY <1>2 DEF Send, TypeOK
    <2>3. u \in Msgs => /\ \A h \in Handlers : hand[h].upd # u
                        /\ \A t \in Twins : row[t][u] = "none" /\ effect[t][u] = 0
      BY <1>2 DEF Send, Unsent
    <2>4. QED
      BY <1>0, <2>1, <2>2, <2>3 DEF Once, Twin
  <1>3. ASSUME NEW h \in Handlers, NEW u \in Updates, Deliver(h, u)
        PROVE  Once'
    <2>1. {"linkRead", "resolve"} \intersect FreshPcs = {}
      BY DEF FreshPcs
    <2>2. UNCHANGED <<row, effect, kind>> /\ overlapped \subseteq overlapped'
      BY <1>3, DeliverMoves
    <2>3. \A g \in Handlers : hand'[g] = hand[g] \/ hand'[g].pc \in {"linkRead", "resolve"}
      BY <1>3, DeliverMoves
    <2>4. QED
      BY <1>k, <2>1, <2>2, <2>3
  <1>4. ASSUME NEW h \in Handlers, TimeOut(h)
        PROVE  Once'
    BY <1>k, <1>4, TimeOutMoves
  <1>5. ASSUME NEW h \in Handlers, Rests(h)
        PROVE  Once'
    <2>1. \A g \in Handlers : hand'[g] = hand[g] \/ hand'[g].pc \notin FreshPcs
      BY <1>5, RestMoves, IdleRecord DEF FreshPcs
    <2>2. QED
      BY <1>k, <1>5, <2>1, RestMoves
  <1>6. ASSUME NEW h \in Handlers, LinkStep(h)
        PROVE  Once'
    <2>1. hand'[h].pc \notin FreshPcs
      BY <1>6, LinkMoves DEF FreshPcs, LinkPcs
    <2>2. QED
      BY <1>k, <1>6, <2>1, LinkMoves DEF Frame
  <1>7. ASSUME NEW h \in Handlers, AskStep(h)
        PROVE  Once'
    <2>1. /\ Frame(h) /\ UNCHANGED <<overlapped, kind, row>> /\ hand[h].upd \in Msgs
          /\ hand'[h].pc \in FreshPcs => hand'[h].pc = "answer"
      BY <1>7, AskMoves DEF FreshPcs
    <2>2. CASE effect' = effect /\ hand'[h].pc # "answer"
      BY <1>k, <2>1, <2>2 DEF Frame
    <2>3. CASE effect' = effect /\ hand'[h].pc = "answer"
      <3>1. hand'[h].twin = hand[h].twin /\ Mine(h) /\ ~(effect[Twin(h)][hand[h].upd] > 0)
        BY <1>7, <2>1, <2>3, AskMoves DEF Mine, MsgPcs, AskPcs
      <3>2. effect[Twin(h)][hand[h].upd] = 0
        BY <1>0, <3>1 DEF Mine, Twin
      <3>3. QED
        BY <1>f, <2>1, <2>3, <3>1, <3>2 DEF Twin
    <2>4. CASE /\ hand[h].pc = "answer" /\ hand'[h].pc = "audit" /\ Mine(h) /\ EffectFrame(h)
               /\ kind[hand[h].upd] = "ask"
               /\ effect'[Twin(h)][hand[h].upd] = effect[Twin(h)][hand[h].upd] + 1
      <3>1. hand[h].upd \notin overlapped => effect[Twin(h)][hand[h].upd] = 0
        BY <2>4 DEF Once, Mine, Twin, FreshPcs
      <3>2. hand'[h].pc \notin FreshPcs
        BY <2>4 DEF FreshPcs
      <3>3. QED
        BY <1>f, <2>1, <2>4, <3>1, <3>2
    <2>5. QED
      BY <1>7, <2>2, <2>3, <2>4, AskMoves
  <1>8. ASSUME NEW h \in Handlers, ClaimStep(h)
        PROVE  Once'
    <2>1. /\ Frame(h) /\ Mine(h) /\ UNCHANGED <<overlapped, kind, effect>>
          /\ hand'[h].twin = Twin(h) /\ kind[hand[h].upd] # "ask" /\ (row' = row \/ RowFrame(h))
      BY <1>8, ClaimMoves DEF Twin
    <2>2. hand[h].upd \notin overlapped /\ kind[hand[h].upd] # "correction" =>
            /\ effect[Twin(h)][hand[h].upd] <= 1
            /\ row[Twin(h)][hand[h].upd] \in {"none", "failed"} => effect[Twin(h)][hand[h].upd] = 0
            /\ hand[h].pc \in FreshPcs => effect[Twin(h)][hand[h].upd] = 0
      <3>1. hand[h].upd \in Msgs /\ Twin(h) \in Twins
        BY <2>1 DEF Mine, Twin
      <3>2. QED
        BY <2>1, <3>1 DEF Once
    <2>3. \/ hand'[h].pc = "reply" /\ row' = row
          \/ row' = row /\ Row(h) \in {"none", "failed"}
          \/ /\ hand[h].pc \in {"claimUpdate", "claimInsert"}
             /\ row'[Twin(h)][hand[h].upd] = "processing"
      BY <1>8, ClaimMoves
    <2>4. "reply" \notin FreshPcs /\ {"claimUpdate", "claimInsert"} \subseteq FreshPcs
      BY DEF FreshPcs
    <2>5. QED
      BY <1>f, <2>1, <2>2, <2>3, <2>4 DEF Row
  <1>9. ASSUME NEW h \in Handlers, CaptureStep(h)
        PROVE  Once'
    <2>1. /\ Frame(h) /\ Mine(h) /\ UNCHANGED <<overlapped, kind>> /\ hand'[h].twin = Twin(h)
          /\ kind[hand[h].upd] # "ask" /\ (row' = row \/ RowFrame(h))
          /\ (effect' = effect \/ EffectFrame(h)) /\ hand[h].pc \in ClaimedPcs
      BY <1>9, CaptureMoves DEF Twin
    <2>2. hand[h].upd \notin overlapped /\ kind[hand[h].upd] # "correction" =>
            /\ effect[Twin(h)][hand[h].upd] <= 1
            /\ hand[h].pc \in FreshPcs => effect[Twin(h)][hand[h].upd] = 0
            /\ row[Twin(h)][hand[h].upd] = "processing"
      BY <2>1 DEF Once, Known, Mine, Twin, Row
    <2>3. kind[hand[h].upd] # "correction" => hand[h].pc # "correct"
      BY DEF Requests, Asked
    <2>4. /\ {"insert", "markFailed"} \subseteq FreshPcs
          /\ {"enqueue", "markCaptured", "audit", "reply"} \intersect FreshPcs = {}
      BY DEF FreshPcs
    <2>5. effect[Twin(h)][hand[h].upd] \in Nat
      BY <1>0, <2>1 DEF Mine, Twin
    <2>6. CASE hand'[h].pc \in ClaimedPcs /\ row' = row /\ effect' = effect
               /\ (hand'[h].pc \in FreshPcs => hand[h].pc \in FreshPcs \/ hand[h].pc = "correct")
      BY <1>f, <2>1, <2>2, <2>3, <2>6
    <2>7. CASE /\ row' = row /\ EffectFrame(h) /\ hand'[h].pc \in {"enqueue", "markCaptured"}
               /\ effect'[Twin(h)][hand[h].upd] = effect[Twin(h)][hand[h].upd] + 1
               /\ hand[h].pc = "insert" \/ hand[h].pc = "correct"
      BY <1>f, <2>1, <2>2, <2>3, <2>4, <2>5, <2>7
    <2>8. CASE row' = row /\ EffectFrame(h) /\ hand[h].pc = "correct"
      BY <1>f, <2>1, <2>3, <2>8
    <2>9. CASE /\ hand'[h].pc \in {"audit", "reply"} /\ effect' = effect /\ RowFrame(h)
               /\ \/ row'[Twin(h)][hand[h].upd] \in {"captured", "deferred"}
                  \/ row'[Twin(h)][hand[h].upd] = "failed" /\ hand[h].pc = "markFailed"
      BY <1>f, <2>1, <2>2, <2>4, <2>9
    <2>10. QED
      BY <1>9, <2>6, <2>7, <2>8, <2>9, CaptureMoves
  <1>10. ASSUME Crash
         PROVE  Once'
    <2>1. \A g \in Handlers : hand'[g].pc \notin FreshPcs
      BY <1>10, IdleRecord DEF Crash, FreshPcs
    <2>2. QED
      BY <1>k, <1>10, <2>1 DEF Crash, rows
  <1>11. QED
    BY <1>1, <1>2, <1>3, <1>4, <1>5, <1>6, <1>7, <1>8, <1>9, <1>10, StepKinds DEF GoesOn

\* A message takes effect for the twin it is handled for.
LEMMA HereStep ==
    ASSUME TypeOK, Requests, Alone, Here, Next
    PROVE  Here'
  <1> USE TelegramAssumption
  <1> DEFINE Placed == MsgPcs \ {"resolve"}
  <1>0. effect \in [Twins -> [Msgs -> Nat]]
    BY DEF TypeOK
  <1>p. {"idle", "linkRead", "resolve", "reply", "audit"} \intersect Placed = {}
        /\ LinkPcs \intersect Placed = {} /\ ClaimPcs \subseteq Placed /\ ClaimedPcs \subseteq Placed
    BY DEF MsgPcs, LinkPcs, AskPcs, ClaimPcs, ClaimedPcs
  <1> HIDE DEF Placed
  <1>d. Here <=> \A m \in Msgs \ (overlapped \union moved) :
           /\ \A s, t \in Twins : effect[s][m] > 0 /\ effect[t][m] > 0 => s = t
           /\ \A h \in Handlers, s \in Twins :
                 hand[h].upd = m /\ hand[h].pc \in Placed /\ s # hand[h].twin => effect[s][m] = 0
    BY DEF Here, Placed, Twin
  <1>n. Here' <=> \A m \in Msgs \ (overlapped' \union moved') :
           /\ \A s, t \in Twins : effect'[s][m] > 0 /\ effect'[t][m] > 0 => s = t
           /\ \A h \in Handlers, s \in Twins :
                 hand'[h].upd = m /\ hand'[h].pc \in Placed /\ s # hand'[h].twin => effect'[s][m] = 0
    BY DEF Here, Placed, Twin
  <1>k. ASSUME effect' = effect, overlapped \subseteq overlapped', moved \subseteq moved',
               \A g \in Handlers : hand'[g].pc \in Placed =>
                  hand[g].pc \in Placed /\ hand'[g].upd = hand[g].upd /\ hand'[g].twin = hand[g].twin
        PROVE  Here'
    BY <1>d, <1>k, <1>n
  \* A step of one request, the only one its message has.
  <1>f. ASSUME NEW h \in Handlers, Frame(h), Mine(h), UNCHANGED <<overlapped, moved>>,
               hand[h].pc \in Placed, hand'[h].twin = hand[h].twin, effect' = effect \/ EffectFrame(h)
        PROVE  Here'
    <2> SUFFICES ASSUME NEW m \in Msgs \ (overlapped \union moved)
                 PROVE  /\ \A s, t \in Twins : effect'[s][m] > 0 /\ effect'[t][m] > 0 => s = t
                        /\ \A g \in Handlers, s \in Twins :
                              hand'[g].upd = m /\ hand'[g].pc \in Placed /\ s # hand'[g].twin
                                 => effect'[s][m] = 0
      BY <1>f, <1>n
    <2>1. \A s \in Twins : m # hand[h].upd \/ s # hand[h].twin => effect'[s][m] = effect[s][m]
      BY <1>f DEF EffectFrame, Twin
    <2>2. CASE m = hand[h].upd
      <3>1. \A s \in Twins : s # hand[h].twin => effect'[s][m] = 0
        BY <1>d, <1>f, <2>1, <2>2
      <3>2. \A g \in Handlers : hand'[g].upd = m => g = h
        BY <1>f, <2>2 DEF Frame, Alone
      <3>3. \A s \in Twins : effect'[s][m] > 0 => s = hand[h].twin
        BY <3>1
      <3>4. QED
        BY <1>f, <3>1, <3>2, <3>3
    <2>3. CASE m # hand[h].upd
      <3>1. \A s \in Twins : effect'[s][m] = effect[s][m]
        BY <2>1, <2>3
      <3>2. \A g \in Handlers : hand'[g].upd = m => hand'[g] = hand[g]
        BY <1>f, <2>3 DEF Frame
      <3>3. QED
        BY <1>d, <3>1, <3>2
    <2>4. QED
      BY <2>2, <2>3
  <1>1. ASSUME NEW t \in Twins, App(t)
        PROVE  Here'
    BY <1>1, <1>k, AppMoves
  <1>2. ASSUME NEW u \in Updates, NEW what \in Kinds, Send(u, what)
        PROVE  Here'
    BY <1>2, <1>k DEF Send, rows, history
  <1>3. ASSUME NEW h \in Handlers, NEW u \in Updates, Deliver(h, u)
        PROVE  Here'
    <2>1. effect' = effect /\ overlapped \subseteq overlapped' /\ moved' = moved
      BY <1>3, DeliverMoves
    <2>2. \A g \in Handlers : hand'[g] = hand[g] \/ hand'[g].pc \in {"linkRead", "resolve"}
      BY <1>3, DeliverMoves
    <2>3. QED
      BY <1>k, <1>p, <2>1, <2>2
  <1>4. ASSUME NEW h \in Handlers, TimeOut(h)
        PROVE  Here'
    BY <1>k, <1>4, TimeOutMoves
  <1>5. ASSUME NEW h \in Handlers, Rests(h)
        PROVE  Here'
    <2>1. \A g \in Handlers : hand'[g] = hand[g] \/ hand'[g].pc = "idle"
      BY <1>5, RestMoves, IdleRecord
    <2>2. QED
      BY <1>k, <1>5, <1>p, <2>1, RestMoves
  <1>6. ASSUME NEW h \in Handlers, LinkStep(h)
        PROVE  Here'
    <2>1. hand'[h].pc \notin Placed
      BY <1>6, <1>p, LinkMoves
    <2>2. QED
      BY <1>k, <1>6, <2>1, LinkMoves DEF Frame
  <1>7. ASSUME NEW h \in Handlers, AskStep(h)
        PROVE  Here'
    <2>1. /\ Frame(h) /\ overlapped' = overlapped /\ hand[h].upd \in Msgs /\ hand[h].pc \in MsgPcs
      BY <1>7, AskMoves
    <2>2. CASE hand[h].pc # "resolve"
      <3>1. /\ Mine(h) /\ moved' = moved /\ hand'[h].twin = hand[h].twin
            /\ effect' = effect \/ EffectFrame(h)
        BY <1>7, <2>2, AskMoves
      <3>2. hand[h].pc \in Placed
        BY <2>1, <2>2 DEF Placed
      <3>3. QED
        BY <1>f, <2>1, <3>1, <3>2
    <2>3. CASE hand[h].pc = "resolve"
      <3>1. /\ effect' = effect /\ moved \subseteq moved'
            /\ hand'[h].pc \in MsgPcs /\ hand[h].upd \notin moved' =>
                  \A s \in Twins \ {hand'[h].twin} : ~(effect[s][hand[h].upd] > 0)
        BY <1>7, <2>3, AskMoves
      <3>2. hand'[h].pc \in Placed /\ hand[h].upd \notin moved' =>
                  \A s \in Twins \ {hand'[h].twin} : effect[s][hand[h].upd] = 0
        BY <1>0, <2>1, <3>1 DEF Placed
      <3>3. \A g \in Handlers \ {h} : hand'[g] = hand[g]
        BY <2>1 DEF Frame
      <3>4. hand'[h].upd = hand[h].upd
        BY <2>1 DEF Frame
      <3>5. QED
        BY <1>d, <1>n, <2>1, <3>1, <3>2, <3>3, <3>4
    <2>4. QED
      BY <2>2, <2>3
  <1>8. ASSUME NEW h \in Handlers, ClaimStep(h)
        PROVE  Here'
    BY <1>f, <1>p, <1>8, ClaimMoves
  <1>9. ASSUME NEW h \in Handlers, CaptureStep(h)
        PROVE  Here'
    <2>1. effect' = effect \/ EffectFrame(h)
      BY <1>9, CaptureMoves
    <2>2. QED
      BY <1>f, <1>p, <1>9, <2>1, CaptureMoves
  <1>10. ASSUME Crash
         PROVE  Here'
    <2>1. \A g \in Handlers : hand'[g].pc = "idle"
      BY <1>10, IdleRecord DEF Crash
    <2>2. QED
      BY <1>k, <1>10, <1>p, <2>1 DEF Crash, rows
  <1>11. QED
    BY <1>1, <1>2, <1>3, <1>4, <1>5, <1>6, <1>7, <1>8, <1>9, <1>10, StepKinds DEF GoesOn

\* What is told to be captured stays so: its only request does not write it again.
LEMMA SettledStays ==
    ASSUME TypeOK, Requests, Known, NEW h \in Handlers, GoesOn(h),
           NEW m \in Msgs \ overlapped, Settled(m)
    PROVE  Settled(m)'
  <1>1. PICK t \in Twins : row[t][m] \in {"captured", "deferred"}
    BY DEF Settled
  <1>2. CASE LinkStep(h) \/ AskStep(h)
    BY <1>1, <1>2, LinkMoves, AskMoves DEF Settled
  <1>3. CASE ClaimStep(h)
    <2>1. CASE row' = row
      BY <1>1, <2>1 DEF Settled
    <2>2. CASE RowFrame(h) /\ hand[h].pc \in {"claimUpdate", "claimInsert"} /\ Mine(h)
      <3>1. hand[h].upd = m => row[Twin(h)][m] \in {"failed", "none"}
        BY <2>2 DEF Known, At, Row
      <3>2. row'[t][m] = row[t][m]
        BY <1>1, <2>2, <3>1 DEF RowFrame
      <3>3. QED
        BY <1>1, <3>2 DEF Settled
    <2>3. QED
      BY <1>3, <2>1, <2>2, ClaimMoves
  <1>4. CASE CaptureStep(h)
    <2>1. CASE row' = row
      BY <1>1, <2>1 DEF Settled
    <2>2. CASE RowFrame(h) /\ hand[h].pc \in ClaimedPcs /\ Mine(h)
      <3>1. hand[h].upd = m => row[Twin(h)][m] = "processing"
        BY <2>2 DEF Known, Row
      <3>2. row'[t][m] = row[t][m]
        BY <1>1, <2>2, <3>1 DEF RowFrame
      <3>3. QED
        BY <1>1, <3>2 DEF Settled
    <2>3. QED
      BY <1>4, <2>1, <2>2, CaptureMoves
  <1>5. QED
    BY <1>2, <1>3, <1>4 DEF GoesOn

\* A duplicate is reported of what is settled.
LEMMA ReportedStep ==
    ASSUME TypeOK, Requests, Alone, Known, Held, Reported, Next
    PROVE  Reported'
  <1>k. ASSUME row' = row, overlapped \subseteq overlapped', cut \subseteq cut', told' = told,
               \A g \in Handlers : hand'[g].reply = "duplicate" =>
                  hand[g].reply = "duplicate" /\ hand'[g].upd = hand[g].upd
        PROVE  Reported'
    BY <1>k DEF Reported, Settled
  <1>f. ASSUME NEW h \in Handlers, GoesOn(h), Frame(h), UNCHANGED <<overlapped, cut, told>>,
               \/ hand'[h].reply = hand[h].reply \/ hand'[h].reply # "duplicate"
               \/ hand[h].upd \in Msgs \ (overlapped \union cut) => Settled(hand[h].upd)
        PROVE  Reported'
    <2> SUFFICES ASSUME NEW m \in Msgs \ (overlapped \union cut)
                 PROVE  /\ <<m, "duplicate">> \in told => Settled(m)'
                        /\ \A g \in Handlers : hand'[g].upd = m /\ hand'[g].reply = "duplicate"
                              => Settled(m)'
      BY <1>f DEF Reported
    <2>1. Settled(m) => Settled(m)'
      BY <1>f, SettledStays
    <2>2. <<m, "duplicate">> \in told => Settled(m)
      BY DEF Reported
    <2>3. \A g \in Handlers : hand[g].upd = m /\ hand[g].reply = "duplicate" => Settled(m)
      BY DEF Reported
    <2>4. ASSUME NEW g \in Handlers, hand'[g].upd = m, hand'[g].reply = "duplicate"
          PROVE  Settled(m)
      <3>1. CASE g = h
        <4>1. hand[h].upd = m
          BY <1>f, <2>4, <3>1 DEF Frame
        <4>2. QED
          BY <1>f, <2>3, <2>4, <3>1, <4>1
      <3>2. CASE g # h
        BY <1>f, <2>3, <2>4, <3>2 DEF Frame
      <3>3. QED
        BY <3>1, <3>2
    <2>5. QED
      BY <2>1, <2>2, <2>4
  <1>1. ASSUME NEW t \in Twins, App(t)
        PROVE  Reported'
    <2>1. cut' = cut
      BY <1>1 DEF App, MintRevoke, MintInsert, RevokeRead, RevokeAccounts, RevokeSources,
                  RevokeTokens, AppOnly, history
    <2>2. QED
      BY <1>1, <1>k, <2>1, AppMoves
  <1>2. ASSUME NEW u \in Updates, NEW what \in Kinds, Send(u, what)
        PROVE  Reported'
    BY <1>2, <1>k DEF Send, rows, history
  <1>3. ASSUME NEW h \in Handlers, NEW u \in Updates, Deliver(h, u)
        PROVE  Reported'
    <2>1. row' = row /\ overlapped \subseteq overlapped' /\ cut' = cut /\ told' = told
      BY <1>3, DeliverMoves
    <2>2. \A g \in Handlers : hand'[g] = hand[g] \/ hand'[g].reply = "other"
      BY <1>3, DeliverMoves
    <2>3. QED
      BY <1>k, <2>1, <2>2
  <1>4. ASSUME NEW h \in Handlers, TimeOut(h)
        PROVE  Reported'
    BY <1>k, <1>4, TimeOutMoves
  <1>5. ASSUME NEW h \in Handlers, Rests(h)
        PROVE  Reported'
    <2>1. /\ UNCHANGED <<row, overlapped>> /\ cut \subseteq cut'
          /\ \A g \in Handlers \ {h} : hand'[g] = hand[g]
          /\ hand'[h].reply = "other"
      BY <1>5, RestMoves, IdleRecord
    <2>2. \A g \in Handlers : hand'[g].reply = "duplicate" => hand'[g] = hand[g]
      BY <2>1
    <2>3. CASE told' = told
      BY <1>k, <2>1, <2>2, <2>3
    <2>4. CASE /\ hand[h].upd \in Msgs /\ told' = told \union {<<hand[h].upd, hand[h].reply>>}
      <3>1. ASSUME NEW m \in Msgs, <<m, "duplicate">> \in told'
            PROVE  \/ <<m, "duplicate">> \in told
                   \/ hand[h].upd = m /\ hand[h].reply = "duplicate"
        <4>1. \/ <<m, "duplicate">> \in told
              \/ <<m, "duplicate">> = <<hand[h].upd, hand[h].reply>>
          BY <2>4, <3>1
        <4>2. QED
          BY <4>1
      <3>2. ASSUME NEW m \in Msgs \ (overlapped' \union cut')
            PROVE  /\ <<m, "duplicate">> \in told' => Settled(m)'
                   /\ \A g \in Handlers : hand'[g].upd = m /\ hand'[g].reply = "duplicate" => Settled(m)'
        <4>1. m \in Msgs \ (overlapped \union cut) /\ Settled(m)' = Settled(m)
          BY <2>1, <3>2 DEF Settled
        <4>2. <<m, "duplicate">> \in told \/ (\E g \in Handlers : hand[g].upd = m /\ hand[g].reply = "duplicate")
                 => Settled(m)
          BY <4>1 DEF Reported
        <4>3. QED
          BY <2>2, <3>1, <4>1, <4>2
      <3>3. QED
        BY <3>2 DEF Reported
    <2>5. QED
      BY <1>5, <2>3, <2>4, RestMoves
  <1>6. ASSUME NEW h \in Handlers, LinkStep(h) \/ AskStep(h) \/ CaptureStep(h)
        PROVE  Reported'
    <2>1. /\ Frame(h) /\ UNCHANGED <<overlapped, cut, told>>
          /\ hand'[h].reply = hand[h].reply \/ hand'[h].reply # "duplicate"
      BY <1>6, LinkMoves, AskMoves, CaptureMoves
    <2>2. QED
      BY <1>6, <1>f, <2>1 DEF GoesOn
  <1>7. ASSUME NEW h \in Handlers, ClaimStep(h)
        PROVE  Reported'
    <2>1. Frame(h) /\ UNCHANGED <<overlapped, cut, told>> /\ Mine(h) /\ hand[h].pc \in ClaimPcs
      BY <1>7, ClaimMoves
    <2>2. CASE hand'[h].reply = hand[h].reply
      BY <1>7, <1>f, <2>1, <2>2 DEF GoesOn
    <2>3. CASE /\ hand[h].pc # "claimUpdate" /\ Row(h) # "none"
               /\ hand[h].pc = "claimRead" => Row(h) # "failed"
      <3>1. ASSUME hand[h].upd \in Msgs \ (overlapped \union cut)
            PROVE  Settled(hand[h].upd)
        <4>1. hand[h].pc = "claimRead"
          BY <2>1, <2>3, <3>1 DEF Known, At, ClaimPcs
        <4>2. Row(h) # "processing"
          <5>1. SUFFICES ASSUME Row(h) = "processing"
                         PROVE  FALSE
            OBVIOUS
          <5>2. PICK g \in Handlers : hand[g].upd = hand[h].upd /\ hand[g].pc \in ClaimedPcs
            BY <2>1, <3>1, <5>1 DEF Held, Row, Mine, Twin
          <5>3. g = h
            BY <3>1, <5>2 DEF Alone
          <5>4. QED
            BY <4>1, <5>2, <5>3 DEF ClaimedPcs
        <4>3. Row(h) \in {"none", "processing", "captured", "deferred", "failed"}
          BY <2>1 DEF TypeOK, Row, Mine, Twin
        <4>4. QED
          BY <2>1, <2>3, <4>1, <4>2, <4>3 DEF Settled, Row, Mine, Twin
      <3>2. QED
        BY <1>7, <1>f, <2>1, <3>1 DEF GoesOn
    <2>4. QED
      BY <1>7, <2>2, <2>3, ClaimMoves
  <1>8. ASSUME Crash
        PROVE  Reported'
    <2>1. \A g \in Handlers : hand'[g].reply = "other"
      BY <1>8, IdleRecord DEF Crash
    <2>2. QED
      BY <1>k, <1>8, <2>1 DEF Crash, rows
  <1>9. QED
    BY <1>1, <1>2, <1>3, <1>4, <1>5, <1>6, <1>7, <1>8, StepKinds DEF GoesOn

\* Every step keeps the types of the variables.
LEMMA TypeStep ==
    ASSUME TypeOK, Requests, Next
    PROVE  TypeOK'
  <1> USE TelegramAssumption
  <1>h. hand \in [Handlers -> Requesting]
    BY DEF TypeOK, Requesting
  <1> DEFINE Statuses == {"none", "connected", "disconnected"}
             TokenStatuses == {"none", "pending", "consumed", "revoked", "expired"}
             RowType == [Twins -> [Msgs -> {"none", "processing", "captured", "deferred", "failed"}]]
             EffectType == [Twins -> [Msgs -> Nat]]
             AppType == [Twins -> [pc : {"idle", "mint", "revokeLinked", "revokeUnlinked",
                                         "revokeSources", "revokeTokens"},
                                   token : Tokens \union {None}]]
             UpdateType == [Updates -> {"unsent", "waiting", "posted", "done"}]
  <1>t. /\ account \in [Twins -> Statuses] /\ source \in [Twins -> Statuses]
        /\ token \in [Tokens -> TokenStatuses] /\ row \in RowType /\ effect \in EffectType
        /\ app \in AppType /\ update \in UpdateType /\ kind \in [Msgs -> Kinds]
        /\ used \in 0..MaxUpdates /\ told \subseteq Msgs \X Replies
        /\ overlapped \subseteq Updates /\ cut \subseteq Updates /\ moved \subseteq Msgs
        /\ revokes \in Nat /\ mishaps \in Nat
    BY DEF TypeOK
  <1>g. ASSUME account' \in [Twins -> Statuses], source' \in [Twins -> Statuses],
               token' \in [Tokens -> TokenStatuses], row' \in RowType, effect' \in EffectType,
               app' \in AppType, update' \in UpdateType, kind' \in [Msgs -> Kinds],
               hand' \in [Handlers -> Requesting], used' \in 0..MaxUpdates,
               told' \subseteq Msgs \X Replies, overlapped' \subseteq Updates,
               cut' \subseteq Updates, moved' \subseteq Msgs, revokes' \in Nat, mishaps' \in Nat
        PROVE  TypeOK'
    BY <1>g DEF TypeOK, Requesting
  <1> HIDE DEF RowType, EffectType, AppType, UpdateType
  <1>1. ASSUME NEW t \in Twins, App(t)
        PROVE  TypeOK'
    <2>1. /\ UNCHANGED <<row, effect, update, kind, used, hand, told, overlapped, moved, mishaps>>
          /\ cut' = cut
      BY <1>1, AppMoves DEF App, MintRevoke, MintInsert, RevokeRead, RevokeAccounts, RevokeSources,
             RevokeTokens, AppOnly, history
    <2>2. account' \in [Twins -> Statuses] /\ source' \in [Twins -> Statuses]
      BY <1>1, <1>t DEF App, MintRevoke, MintInsert, RevokeRead, RevokeAccounts, RevokeSources,
             RevokeTokens
    <2>3. token' \in [Tokens -> TokenStatuses]
      BY <1>1, <1>t DEF App, MintRevoke, MintInsert, RevokeRead, RevokeAccounts, RevokeSources,
             RevokeTokens, RevokePending
    <2>4. app' \in AppType
      BY <1>1, <1>t DEF App, MintRevoke, MintInsert, RevokeRead, RevokeAccounts, RevokeSources,
             RevokeTokens, AppType
    <2>5. revokes' \in Nat
      BY <1>1, <1>t DEF App, MintRevoke, MintInsert, RevokeRead, RevokeAccounts, RevokeSources,
             RevokeTokens
    <2>6. QED
      BY <1>g, <1>h, <1>t, <2>1, <2>2, <2>3, <2>4, <2>5
  <1>2. ASSUME NEW u \in Updates, NEW what \in Kinds, Send(u, what)
        PROVE  TypeOK'
    <2>1. /\ UNCHANGED <<account, source, token, row, effect, app, used, hand, told, overlapped,
                         cut, moved, revokes, mishaps>>
      BY <1>2 DEF Send, rows, history, bounds
    <2>2. update' \in UpdateType /\ kind' \in [Msgs -> Kinds]
      BY <1>2, <1>t DEF Send, UpdateType
    <2>3. QED
      BY <1>g, <1>h, <1>t, <2>1, <2>2
  <1>3. ASSUME NEW h \in Handlers, NEW u \in Updates, Deliver(h, u)
        PROVE  TypeOK'
    <2>1. /\ UNCHANGED <<account, source, token, row, effect, app, kind, told, cut, moved, revokes, mishaps>>
          /\ update' \in UpdateType /\ used' \in 0..MaxUpdates
      BY <1>3, DeliverMoves DEF UpdateType
    <2>2. hand' \in [Handlers -> Requesting] /\ overlapped' \subseteq Updates
      BY <1>3, <1>h, <1>t, DeliverMoves
    <2>3. QED
      BY <1>g, <1>t, <2>1, <2>2
  <1>4. ASSUME NEW h \in Handlers, TimeOut(h)
        PROVE  TypeOK'
    <2>1. /\ UNCHANGED <<account, source, token, row, effect, app, kind, used, told, overlapped,
                         cut, moved, revokes>>
          /\ hand' \in [Handlers -> Requesting] /\ update' \in UpdateType
      BY <1>4, TimeOutMoves DEF UpdateType
    <2>2. mishaps' \in Nat
      BY <1>4, <1>t DEF TimeOut, Mishap
    <2>3. QED
      BY <1>g, <1>t, <2>1, <2>2
  <1>5. ASSUME NEW h \in Handlers, Rests(h)
        PROVE  TypeOK'
    <2>1. /\ UNCHANGED <<account, source, token, row, effect, app, kind, used, overlapped, moved, revokes>>
          /\ hand' \in [Handlers -> Requesting] /\ update' \in UpdateType
      BY <1>5, RestMoves DEF UpdateType
    <2>2. hand[h].reply \in Replies /\ hand[h].upd \in Updates
      BY <1>5, <1>h, RestMoves DEF Requesting
    <2>3. told' \subseteq Msgs \X Replies /\ cut' \subseteq Updates
      BY <1>5, <1>t, <2>2, RestMoves
    <2>4. mishaps' \in Nat
      BY <1>5, <1>t DEF Rests, Fault, InsertRefused, Reply, Mishap, bounds
    <2>5. QED
      BY <1>g, <1>t, <2>1, <2>3, <2>4
  <1>6. ASSUME NEW h \in Handlers, LinkStep(h)
        PROVE  TypeOK'
    <2>1. /\ UNCHANGED <<app, update, kind, used, told, overlapped, cut, moved, revokes, mishaps, row, effect>>
          /\ hand' \in [Handlers -> Requesting]
      BY <1>6, LinkMoves DEF Frame
    <2>2. account' \in [Twins -> Statuses] /\ source' \in [Twins -> Statuses]
      BY <1>6, <1>t DEF LinkStep, LinkRead, LinkExpire, LinkAccount, LinkInsertAccount,
             LinkSource, LinkInsertSource, FindSource, InsertSource, LinkOthers, LinkDisconnect, LinkDisconnectSources, LinkConsume, rows
    <2>3. token' \in [Tokens -> TokenStatuses]
      BY <1>6, <1>t DEF LinkStep, LinkRead, LinkExpire, LinkAccount, LinkInsertAccount,
             LinkSource, LinkInsertSource, FindSource, InsertSource, LinkOthers, LinkDisconnect, LinkDisconnectSources, LinkConsume, rows
    <2>4. QED
      BY <1>g, <1>t, <2>1, <2>2, <2>3
  <1>7. ASSUME NEW h \in Handlers, AskStep(h)
        PROVE  TypeOK'
    <2>1. /\ UNCHANGED <<app, update, kind, used, told, overlapped, cut, revokes, mishaps, row, token>>
          /\ hand' \in [Handlers -> Requesting] /\ moved' \subseteq moved \union {hand[h].upd}
          /\ hand[h].upd \in Msgs
      BY <1>7, AskMoves DEF Frame
    <2>2. effect' \in EffectType
      BY <1>7, <1>t, AskMoves DEF EffectFrame, EffectType
    <2>3. account' \in [Twins -> Statuses] /\ source' \in [Twins -> Statuses]
      BY <1>7, <1>t DEF AskStep, Resolve, UnlinkAccount, UnlinkSource, UpsertSource,
             UpsertInsertSource, FindSource, InsertSource, AnswerRead, AnswerQuestion, AnswerFails, rows
    <2>4. QED
      BY <1>g, <1>t, <2>1, <2>2, <2>3
  <1>8. ASSUME NEW h \in Handlers, ClaimStep(h) \/ CaptureStep(h)
        PROVE  TypeOK'
    <2>1. /\ UNCHANGED <<app, update, kind, used, told, overlapped, cut, moved, revokes, mishaps,
                         account, source, token>>
          /\ hand' \in [Handlers -> Requesting]
      BY <1>8, ClaimMoves, CaptureMoves DEF Frame
    <2>2. effect' \in EffectType
      BY <1>8, <1>t, ClaimMoves, CaptureMoves DEF EffectFrame, EffectType
    <2>3. row' \in RowType
      BY <1>8, <1>t, ClaimMoves, CaptureMoves DEF RowFrame, RowType
    <2>4. QED
      BY <1>g, <1>t, <2>1, <2>2, <2>3
  <1>9. ASSUME Crash
        PROVE  TypeOK'
    <2>1. UNCHANGED <<account, source, token, row, effect, kind, told, overlapped, moved, revokes>>
      BY <1>9 DEF Crash, rows
    <2>2. hand' \in [Handlers -> Requesting]
      BY <1>9, IdleRecord DEF Crash
    <2>3. update' \in UpdateType /\ app' \in AppType
      BY <1>9, <1>t DEF Crash, UpdateType, AppType
    <2>4. used' \in 0..MaxUpdates /\ mishaps' \in Nat
      BY <1>9, <1>t DEF Crash, Mishap
    <2>5. \A h \in Handlers : hand[h].pc # "idle" => hand[h].upd \in Updates
      BY <1>h DEF Requests, Asked, Requesting
    <2>6. cut' \subseteq Updates
      BY <1>9, <1>t, <2>5 DEF Crash, At
    <2>7. QED
      BY <1>g, <1>t, <2>1, <2>2, <2>3, <2>4, <2>6
  <1>10. QED
    BY <1>1, <1>2, <1>3, <1>4, <1>5, <1>6, <1>7, <1>8, <1>9, StepKinds DEF GoesOn

-----------------------------------------------------------------------------
(* The theorems *)

\* The invariant holds initially.
LEMMA InitHolds == Init => IInv
  <1> SUFFICES ASSUME Init
               PROVE  IInv
    OBVIOUS
  <1> USE TelegramAssumption
  <1>1. PICK start \in Scenarios :
          /\ account = [t \in Twins |-> IF t = start.linked THEN "connected" ELSE "none"]
          /\ source = account
          /\ token = [k \in Tokens |-> IF k \in start.sent THEN "none" ELSE "revoked"]
          /\ update = [u \in Updates |-> IF u \in start.sent THEN "unsent" ELSE "done"]
          /\ revokes = start.revokes
          /\ mishaps = start.mishaps
    BY DEF Init
  <1>2. start.revokes \in Nat /\ start.mishaps \in Nat
    BY DEF Scenario
  <1>3. \A h \in Handlers : hand[h] = Idle
    BY DEF Init
  <1>4. TypeOK
    <2>1. hand \in [Handlers -> Requesting]
      BY IdleRecord DEF Init
    <2>2. /\ account \in [Twins -> {"none", "connected", "disconnected"}]
          /\ source \in [Twins -> {"none", "connected", "disconnected"}]
          /\ update \in [Updates -> {"unsent", "waiting", "posted", "done"}]
          /\ token \in [Tokens -> {"none", "pending", "consumed", "revoked", "expired"}]
          /\ revokes \in Nat /\ mishaps \in Nat
      BY <1>1, <1>2
    <2>3. /\ row \in [Twins -> [Msgs -> {"none", "processing", "captured", "deferred", "failed"}]]
          /\ effect \in [Twins -> [Msgs -> Nat]]
          /\ kind \in [Msgs -> Kinds]
      BY DEF Init, Kinds
    <2>4. /\ app \in [Twins -> [pc : {"idle", "mint", "revokeLinked", "revokeUnlinked",
                                      "revokeSources", "revokeTokens"},
                                token : Tokens \union {None}]]
      BY DEF Init
    <2>5. used \in 0..MaxUpdates /\ told = {} /\ overlapped = {} /\ cut = {} /\ moved = {}
      BY DEF Init
    <2>6. QED
      BY <2>1, <2>2, <2>3, <2>4, <2>5 DEF TypeOK, Requesting
  <1>5. Requests
    BY <1>3, IdleRecord DEF Requests, Asked, LinkPcs, MsgPcs, AskPcs, ClaimPcs, ClaimedPcs
  <1>6. Unsent
    BY <1>3, IdleRecord DEF Init, Unsent
  <1>7. Parted
    BY <1>1 DEF Parted, Connected
  <1>8. Alone
    BY <1>3, IdleRecord DEF Alone
  <1>9. Known
    BY <1>3, IdleRecord DEF Known
  <1>10. Held /\ Once /\ Here
    BY DEF Init, Held, Once, Here
  <1>11. Reported
    BY <1>3, IdleRecord DEF Init, Reported
  <1>12. QED
    BY <1>4, <1>5, <1>6, <1>7, <1>8, <1>9, <1>10, <1>11 DEF IInv

\* Every step keeps the invariant.
LEMMA StepHolds == IInv /\ [Next]_vars => IInv'
  <1> SUFFICES ASSUME IInv, [Next]_vars
               PROVE  IInv'
    OBVIOUS
  <1>1. CASE Next
    <2>1. TypeOK' /\ Requests' /\ Unsent' /\ Parted'
      BY <1>1, TypeStep, RequestsStep, UnsentStep, PartedStep DEF IInv
    <2>2. Alone' /\ Known' /\ Held'
      BY <1>1, AloneStep, KnownStep, HeldStep DEF IInv
    <2>3. Once' /\ Here' /\ Reported'
      BY <1>1, OnceStep, HereStep, ReportedStep DEF IInv
    <2>4. QED
      BY <2>1, <2>2, <2>3 DEF IInv
  <1>2. CASE UNCHANGED vars
    <2> USE DEF vars, rows, chat, history, bounds
    <2>1. TypeOK'
      BY <1>2 DEF IInv, TypeOK
    <2>2. Requests' /\ Unsent' /\ Alone'
      BY <1>2 DEF IInv, Requests, Asked, Unsent, Alone
    <2>3. Parted'
      BY <1>2 DEF IInv, Parted, Parts, Connected
    <2>4. Known' /\ Held' /\ Once' /\ Here'
      BY <1>2 DEF IInv, Known, Held, Once, Here, Row, Twin, At
    <2>5. Reported'
      BY <1>2 DEF IInv, Reported, Settled
    <2>6. QED
      BY <2>1, <2>2, <2>3, <2>4, <2>5 DEF IInv
  <1>3. QED
    BY <1>1, <1>2

\* IInv is an invariant, for every number of twins, tokens, messages and requests.
THEOREM Inductive == Spec => []IInv
<1>. QED BY InitHolds, StepHolds, PTL DEF Spec

\* Rows, updates, requests and replies hold values their readers know.
THEOREM TypeCorrect == Spec => []TypeOK
<1>1. IInv => TypeOK BY DEF IInv
<1>. QED BY Inductive, <1>1, PTL

\* When no link command is under way and none was cut off, the Telegram user is
\* connected to one twin at most.
THEOREM OneTwinAtATime == Spec => []OneAccount
<1>1. IInv => OneAccount
  <2> SUFFICES ASSUME IInv, cut \intersect Tokens = {},
                      \A h \in Handlers : hand[h].pc \notin {"linkSource", "linkInsertSource", "linkOthers", "linkDisconnect"}
               PROVE  Cardinality(Connected) <= 1
    BY DEF OneAccount
  <2>1. \A a \in Connected, b \in Connected : a = b
    BY DEF IInv, Parted, Parts
  <2>2. CASE Connected = {}
    BY <2>2, FS_EmptySet
  <2>3. CASE Connected # {}
    <3>1. PICK a \in Connected : Connected = {a}
      BY <2>1, <2>3
    <3>2. Cardinality(Connected) = 1
      BY <3>1, FS_Singleton
    <3>3. QED
      BY <3>2
  <2>4. QED
    BY <2>2, <2>3
<1>. QED BY Inductive, <1>1, PTL

\* A message makes one artifact, or one answer, of one twin, however often Telegram posts
\* it: unless two requests handled it at once, or it came again for another twin.
THEOREM OneEffectEach == Spec => []OneEffect
<1>1. IInv => OneEffect BY DEF IInv, Once, Here, OneEffect
<1>. QED BY Inductive, <1>1, PTL

\* What the user is told is a duplicate has been captured or deferred.
THEOREM DuplicatesAreSettled == Spec => []DuplicateIsSettled
<1>1. IInv => DuplicateIsSettled BY DEF IInv, Reported, Settled, DuplicateIsSettled
<1>. QED BY Inductive, <1>1, PTL
=============================================================================
