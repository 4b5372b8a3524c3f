------------------------------ MODULE ChatTurn ------------------------------
(***************************************************************************)
(* One chat page and the API that answers it.  The page sends a message,   *)
(* the API creates two messages and a turn, takes in what should be        *)
(* remembered, answers, and streams what it does to the page; the page may *)
(* stop the stream, retry a failed message or show another thread.  After  *)
(* a completed turn the exchange is queued to be learned from.             *)
(*                                                                         *)
(* A send is one call of sendContent with the request, the handler and the *)
(* rows it leads to.  Every row is written by its id, whatever it holds.   *)
(***************************************************************************)
EXTENDS Naturals, Sequences, FiniteSets

CONSTANTS
    MaxSends,     \* bound: messages sent, first attempts and retries together
    Threads,
    MaxMishaps,   \* bound: failed calls, broken connections, API crashes
    MaxMoves      \* bound: streams stopped and threads changed by the user

ASSUME ChatAssumption ==
    /\ MaxSends \in Nat \ {0}
    /\ Threads # {}
    /\ MaxMishaps \in Nat
    /\ MaxMoves \in Nat

VARIABLES
    turn, answer,           \* rows: chat_turns.status, status of the assistant message
    hot, learned,           \* canonical memories taken in; learning artifacts inserted
    hpc, late, generated,   \* the handler; is its "retrieving_context" write under way?
    lpc,                    \* the learning that a completed turn has started
    aborted,                \* the abort signal of the request
    wire,                   \* events on their way to the page
    cpc, told,              \* the send, and the terminal event it has received
    thread, content, private,   \* what was sent: to which thread, first sent as, kept private?
    page, shown, loading, failed, abortRef,     \* the state of the page
    marred,                 \* history: turns that lost a write
    mishaps, moves          \* how many there may still be

rows    == <<turn, answer, hot, learned>>
handler == <<hpc, late, generated, lpc>>
request == <<thread, content, private>>
client  == <<cpc, told, request>>
ui      == <<page, shown, loading, failed, abortRef>>
budget  == <<mishaps, moves>>
vars    == <<rows, handler, aborted, wire, client, ui, marred, budget>>

Sends == 1..MaxSends
None == 0

Busy == {"sending", "retrieving_context", "streaming"}
Final == {"completed", "failed", "cancelled"}
InTry == {"context", "intake", "branch", "mark_turn", "mark_answer", "stream", "streamed",
          "complete_answer", "complete_turn"}
InCatch == {"cancel_turn", "cancel_answer", "fail_turn", "fail_answer"}
Creating == {"messages", "turn", "link"}
Events == {"ready", "delta", "end", "broken"} \cup Final
Running == Creating \cup InTry \cup InCatch \cup {"report", "catch"}

Init ==
    /\ turn = [s \in Sends |-> "none"]
    /\ answer = [s \in Sends |-> "none"]
    /\ hot = [s \in Sends |-> FALSE]
    /\ learned = [s \in Sends |-> 0]
    /\ hpc = [s \in Sends |-> "idle"]
    /\ late = [s \in Sends |-> FALSE]
    /\ generated = [s \in Sends |-> FALSE]
    /\ lpc = [s \in Sends |-> "idle"]
    /\ aborted = [s \in Sends |-> FALSE]
    /\ wire = [s \in Sends |-> <<>>]
    /\ cpc = [s \in Sends |-> "idle"]
    /\ told = [s \in Sends |-> "none"]
    /\ thread \in [Sends -> {CHOOSE t \in Threads : TRUE}]
    /\ content = [s \in Sends |-> s]
    /\ private = [s \in Sends |-> FALSE]
    /\ page = "ready" /\ shown = thread[1] /\ loading = FALSE
    /\ failed = None /\ abortRef = None
    /\ marred = [s \in Sends |-> FALSE]
    /\ mishaps = MaxMishaps /\ moves = MaxMoves

Mishap ==
    /\ mishaps > 0
    /\ mishaps' = mishaps - 1
    /\ UNCHANGED moves

Move ==
    /\ moves > 0
    /\ moves' = moves - 1
    /\ UNCHANGED mishaps

HGoto(s, label) == hpc' = [hpc EXCEPT ![s] = label]

\* Writes to a closed connection are swallowed.
Emit(s, events) ==
    wire' = [wire EXCEPT ![s] = IF cpc[s] = "reading" THEN @ \o events ELSE @]
\* The handler is over, and its locals with it.
Returns(s) ==
    /\ HGoto(s, "done")
    /\ generated' = [generated EXCEPT ![s] = FALSE]
    /\ aborted' = [aborted EXCEPT ![s] = FALSE]

SetTurn(s, status) == turn' = [turn EXCEPT ![s] = status]
SetAnswer(s, status) == answer' = [answer EXCEPT ![s] = status]

-----------------------------------------------------------------------------
(* createQueuedTurn: the messages, the turn, the link *)

InsertMessages(s) ==
    /\ hpc[s] = "messages"
    /\ SetAnswer(s, "pending")
    /\ HGoto(s, "turn")
    /\ UNCHANGED <<turn, hot, learned, late, generated, lpc, aborted, wire, client, ui,
                   marred, budget>>

InsertTurn(s) ==
    /\ hpc[s] = "turn"
    /\ SetTurn(s, "queued")
    /\ HGoto(s, "link")
    /\ UNCHANGED <<answer, hot, learned, late, generated, lpc, aborted, wire, client, ui,
                   marred, budget>>

\* The messages get the id of the turn and the page is told of the three rows; then
\* five calls start at once: four reads, and the UPDATE to "retrieving_context".
LinkMessages(s) ==
    /\ hpc[s] = "link"
    /\ late' = [late EXCEPT ![s] = TRUE]
    /\ HGoto(s, "context")
    /\ UNCHANGED <<rows, generated, lpc, aborted, wire, client, ui, marred, budget>>

\* A failure here is outside the try: the stream ends without another event.
CreateFails(s) ==
    /\ hpc[s] \in Creating
    /\ Mishap
    /\ marred' = [marred EXCEPT ![s] = TRUE]
    /\ Returns(s)
    /\ Emit(s, <<"end">>)
    /\ UNCHANGED <<rows, late, lpc, client, ui>>

-----------------------------------------------------------------------------
(* The turn *)

\* markTurnRetrievingContext, whenever the connection that runs it comes to it.
RetrievingWritten(s) ==
    /\ late[s]
    /\ late' = [late EXCEPT ![s] = FALSE]
    /\ SetTurn(s, "retrieving_context")
    /\ UNCHANGED <<answer, hot, learned, hpc, generated, lpc, aborted, wire, client, ui,
                   marred, budget>>

\* Mutant: the write is not among the promises that are awaited.
ContextLoadedAlone(s) ==
    /\ hpc[s] = "context"
    /\ HGoto(s, "intake")
    /\ UNCHANGED <<rows, late, generated, lpc, aborted, wire, client, ui, marred, budget>>

\* Promise.all: the four reads and the write.
ContextLoaded(s) ==
    /\ hpc[s] = "context"
    /\ ~late[s]
    /\ HGoto(s, "intake")
    /\ UNCHANGED <<rows, late, generated, lpc, aborted, wire, client, ui, marred, budget>>

\* One of the reads fails: the others, and the write, are not waited for.
ContextFails(s) ==
    /\ hpc[s] = "context"
    /\ Mishap
    /\ marred' = [marred EXCEPT ![s] = late[s]]
    /\ HGoto(s, "catch")
    /\ UNCHANGED <<rows, late, generated, lpc, aborted, wire, client, ui>>

\* The message is resolved, what it states is taken in unless it is private, and
\* the outcome is noted in the metadata of both rows.  Every message is taken to
\* state something worth keeping.
Intake(s) ==
    /\ hpc[s] = "intake"
    /\ hot' = [hot EXCEPT ![s] = ~private[s]]
    /\ HGoto(s, "branch")
    /\ UNCHANGED <<turn, answer, learned, late, generated, lpc, aborted, wire, client, ui,
                   marred, budget>>

\* An acknowledgement, an answer from the identity or a fallback needs no stream.
AnswerAtOnce(s) ==
    /\ hpc[s] = "branch"
    /\ Emit(s, <<"ready", "delta">>)
    /\ HGoto(s, "complete_answer")
    /\ UNCHANGED <<rows, late, generated, lpc, aborted, client, ui, marred, budget>>

ContextReady(s) ==
    /\ hpc[s] = "branch"
    /\ Emit(s, <<"ready">>)
    /\ generated' = [generated EXCEPT ![s] = TRUE]
    /\ HGoto(s, "mark_turn")
    /\ UNCHANGED <<rows, late, lpc, aborted, client, ui, marred, budget>>

\* markTurnGenerating: the turn, then the message.
MarkTurn(s) ==
    /\ hpc[s] = "mark_turn"
    /\ SetTurn(s, "generating")
    /\ HGoto(s, "mark_answer")
    /\ UNCHANGED <<answer, hot, learned, late, generated, lpc, aborted, wire, client, ui,
                   marred, budget>>

MarkAnswer(s) ==
    /\ hpc[s] = "mark_answer"
    /\ SetAnswer(s, "streaming")
    /\ HGoto(s, "stream")
    /\ UNCHANGED <<turn, hot, learned, late, generated, lpc, aborted, wire, client, ui,
                   marred, budget>>

\* One delta stands for all.
Delta(s) ==
    /\ hpc[s] = "stream"
    /\ ~aborted[s]
    /\ Emit(s, <<"delta">>)
    /\ HGoto(s, "streamed")
    /\ UNCHANGED <<rows, late, generated, lpc, aborted, client, ui, marred, budget>>

EndOfText(s) ==
    /\ hpc[s] \in {"stream", "streamed"}
    /\ HGoto(s, "complete_answer")
    /\ UNCHANGED <<rows, late, generated, lpc, aborted, wire, client, ui, marred, budget>>

\* The loop, or the call to the provider, sees the abort.
Cancelled(s) ==
    /\ hpc[s] \in {"stream", "streamed"}
    /\ aborted[s]
    /\ HGoto(s, "catch")
    /\ UNCHANGED <<rows, late, generated, lpc, aborted, wire, client, ui, marred, budget>>

\* Mutant: the learning starts with the answer.
CompleteAnswerLearned(s) ==
    /\ hpc[s] = "complete_answer"
    /\ SetAnswer(s, "completed")
    /\ lpc' = [lpc EXCEPT ![s] = IF private[s] THEN "idle" ELSE "learn"]
    /\ HGoto(s, "complete_turn")
    /\ UNCHANGED <<turn, hot, learned, late, generated, aborted, wire, client, ui,
                   marred, budget>>

\* completeStreamingTurn: the message, then the turn.
CompleteAnswer(s) ==
    /\ hpc[s] = "complete_answer"
    /\ SetAnswer(s, "completed")
    /\ HGoto(s, "complete_turn")
    /\ UNCHANGED <<turn, hot, learned, late, generated, lpc, aborted, wire, client, ui,
                   marred, budget>>

CompleteTurn(s) ==
    /\ hpc[s] = "complete_turn"
    /\ SetTurn(s, "completed")
    /\ HGoto(s, "report")
    /\ UNCHANGED <<answer, hot, learned, late, generated, lpc, aborted, wire, client, ui,
                   marred, budget>>

\* assistant.completed; the learning is started and not waited for.
Report(s) ==
    /\ hpc[s] = "report"
    /\ Emit(s, <<"completed", "end">>)
    /\ lpc' = [lpc EXCEPT ![s] = IF generated[s] /\ ~private[s] THEN "learn" ELSE "idle"]
    /\ Returns(s)
    /\ UNCHANGED <<rows, late, client, ui, marred, budget>>

\* A call between the context and the completion throws.  Memories of an intake
\* that fails in the middle stay.
TryFails(s) ==
    /\ hpc[s] \in InTry \ {"context"}
    /\ Mishap
    /\ hot' = [hot EXCEPT ![s] = @ \/ (hpc[s] = "intake" /\ ~private[s])]
    /\ HGoto(s, "catch")
    /\ UNCHANGED <<turn, answer, learned, late, generated, lpc, aborted, wire, client, ui,
                   marred>>

-----------------------------------------------------------------------------
(* The catch block *)

Catch(s) ==
    /\ hpc[s] = "catch"
    /\ IF aborted[s]
       THEN HGoto(s, "cancel_turn") /\ UNCHANGED wire
       ELSE HGoto(s, "fail_turn") /\ Emit(s, <<"failed">>)
    /\ UNCHANGED <<rows, late, generated, lpc, aborted, client, ui, marred, budget>>

\* markTurnCancelled, then turn.cancelled.
CancelTurn(s) ==
    /\ hpc[s] = "cancel_turn"
    /\ SetTurn(s, "cancelled")
    /\ HGoto(s, "cancel_answer")
    /\ UNCHANGED <<answer, hot, learned, late, generated, lpc, aborted, wire, client, ui,
                   marred, budget>>

CancelAnswer(s) ==
    /\ hpc[s] = "cancel_answer"
    /\ SetAnswer(s, "cancelled")
    /\ Emit(s, <<"cancelled", "end">>)
    /\ Returns(s)
    /\ UNCHANGED <<turn, hot, learned, late, lpc, client, ui,
                   marred, budget>>

\* markTurnFailed, after turn.failed.
FailTurn(s) ==
    /\ hpc[s] = "fail_turn"
    /\ SetTurn(s, "failed")
    /\ HGoto(s, "fail_answer")
    /\ UNCHANGED <<answer, hot, learned, late, generated, lpc, aborted, wire, client, ui,
                   marred, budget>>

\* Mutant: only the turn is marked.
FailAnswerKept(s) ==
    /\ hpc[s] = "fail_answer"
    /\ Emit(s, <<"end">>)
    /\ Returns(s)
    /\ UNCHANGED <<rows, late, lpc, client, ui, marred, budget>>

FailAnswer(s) ==
    /\ hpc[s] = "fail_answer"
    /\ SetAnswer(s, "failed")
    /\ Emit(s, <<"end">>)
    /\ Returns(s)
    /\ UNCHANGED <<turn, hot, learned, late, lpc, client, ui,
                   marred, budget>>

CatchFails(s) ==
    /\ hpc[s] \in InCatch
    /\ Mishap
    /\ marred' = [marred EXCEPT ![s] = TRUE]
    /\ Returns(s)
    /\ Emit(s, <<"end">>)
    /\ UNCHANGED <<rows, late, lpc, client, ui>>

\* The signal of the request fires when the page has closed the connection.
AbortSignal(s) ==
    /\ hpc[s] \in Running
    /\ cpc[s] \in {"stopped", "done"}
    /\ aborted' = [aborted EXCEPT ![s] = TRUE]
    /\ UNCHANGED <<rows, handler, wire, client, ui, marred, budget>>

\* enqueueCompletedChatTurnLearning: an artifact is inserted and queued, unless the
\* answer only repeats memories or the storage fails.
Learn(s) ==
    /\ lpc[s] = "learn"
    /\ lpc' = [lpc EXCEPT ![s] = "idle"]
    /\ learned' = [learned EXCEPT ![s] = @ + 1]
    /\ UNCHANGED <<turn, answer, hot, hpc, late, generated, aborted, wire, client, ui,
                   marred, budget>>

\* The API process dies; a statement that was sent may still be executed.
Crash ==
    /\ Mishap
    /\ LET dead == {s \in Sends : hpc[s] \in Running} IN
       /\ hpc' = [s \in Sends |-> IF s \in dead THEN "done" ELSE hpc[s]]
       /\ marred' = [s \in Sends |-> marred[s] \/ s \in dead]
       /\ wire' = [s \in Sends |-> IF s \in dead /\ cpc[s] = "reading"
                                   THEN Append(wire[s], "broken") ELSE wire[s]]
    /\ lpc' = [s \in Sends |-> "idle"]
    /\ generated' = [s \in Sends |-> FALSE]
    /\ aborted' = [s \in Sends |-> FALSE]
    /\ UNCHANGED <<rows, late, client, ui>>

HandlerStep(s) ==
    \/ InsertMessages(s) \/ InsertTurn(s) \/ LinkMessages(s)
    \/ ContextLoaded(s) \/ Intake(s) \/ AnswerAtOnce(s) \/ ContextReady(s)
    \/ MarkTurn(s) \/ MarkAnswer(s) \/ Delta(s) \/ EndOfText(s) \/ Cancelled(s)
    \/ CompleteAnswer(s) \/ CompleteTurn(s) \/ Report(s)
    \/ Catch(s) \/ CancelTurn(s) \/ CancelAnswer(s) \/ FailTurn(s) \/ FailAnswer(s)

HandlerFails(s) == CreateFails(s) \/ ContextFails(s) \/ TryFails(s) \/ CatchFails(s)

-----------------------------------------------------------------------------
(* The page: useChatMessageActions and the thread actions *)

SetPage(status) == page' = status

\* sendContent, up to the request: a new call takes over the one abort reference.
Start(s, t, c, p) ==
    /\ cpc[s] = "idle"
    /\ \A r \in 1..(s - 1) : cpc[r] # "idle"
    /\ cpc' = [cpc EXCEPT ![s] = "reading"]
    /\ thread' = [thread EXCEPT ![s] = t]
    /\ content' = [content EXCEPT ![s] = c]
    /\ private' = [private EXCEPT ![s] = p]
    /\ SetPage("sending")
    /\ failed' = None
    /\ abortRef' = s
    /\ HGoto(s, "messages")
    /\ UNCHANGED <<rows, late, generated, lpc, aborted, wire, told, shown, loading,
                   marred, budget>>

\* A new message is not sent while the last one has failed.
Send(s) ==
    /\ page \notin Busy \cup {"failed"}
    /\ \E p \in BOOLEAN : Start(s, shown, s, p)

\* Mutant: the retry takes what the composer is set to now.
RetryAsSet(s) ==
    /\ page = "failed"
    /\ failed # None
    /\ \E p \in BOOLEAN : Start(s, shown, content[failed], p)

\* The failed message is sent again, to the thread that is shown, with its intent.
Retry(s) ==
    /\ page = "failed"
    /\ failed # None
    /\ Start(s, shown, content[failed], private[failed])

\* applyStreamEvent
Receive(s) ==
    /\ cpc[s] = "reading"
    /\ wire[s] # <<>>
    /\ Head(wire[s]) \notin {"end", "broken"}
    /\ LET e == Head(wire[s]) IN
       /\ told' = [told EXCEPT ![s] = IF e \in Final THEN e ELSE @]
       /\ page' = CASE e = "ready" -> "retrieving_context"
                    [] e = "delta" -> "streaming"
                    [] e = "failed" -> "failed"
                    [] e = "cancelled" -> "ready"
                    [] OTHER -> page
       /\ failed' = IF e = "failed" THEN s ELSE failed
    /\ wire' = [wire EXCEPT ![s] = Tail(@)]
    /\ UNCHANGED <<rows, handler, aborted, cpc, request, shown, loading, abortRef,
                   marred, budget>>

\* The stream has ended: the threads are loaded again.
StreamEnds(s) ==
    /\ cpc[s] = "reading"
    /\ wire[s] # <<>>
    /\ Head(wire[s]) = "end"
    /\ cpc' = [cpc EXCEPT ![s] = "threads"]
    /\ wire' = [wire EXCEPT ![s] = <<>>]
    /\ UNCHANGED <<rows, handler, aborted, told, request, ui, marred, budget>>

\* Mutant: only an answer makes the page ready again.
ThreadsLoadedAnswered(s) ==
    /\ cpc[s] = "threads"
    /\ cpc' = [cpc EXCEPT ![s] = "done"]
    /\ IF told[s] = "completed" THEN SetPage("ready") ELSE UNCHANGED page
    /\ abortRef' = None
    /\ UNCHANGED <<rows, handler, aborted, wire, told, request, shown, loading, failed,
                   marred, budget>>

\* The page is ready unless a failure was told; the reference is cleared, whose
\* ever it is by now.
ThreadsLoaded(s) ==
    /\ cpc[s] = "threads"
    /\ cpc' = [cpc EXCEPT ![s] = "done"]
    /\ IF told[s] = "failed" THEN UNCHANGED page ELSE SetPage("ready")
    /\ abortRef' = None
    /\ UNCHANGED <<rows, handler, aborted, wire, told, request, shown, loading, failed,
                   marred, budget>>

\* The catch block of sendContent.
SendFails(s) ==
    /\ cpc' = [cpc EXCEPT ![s] = "done"]
    /\ SetPage("failed")
    /\ failed' = s
    /\ abortRef' = None
    /\ wire' = [wire EXCEPT ![s] = <<>>]
    /\ UNCHANGED <<rows, told, request, shown, loading>>

\* The page learns that the API has died.
Broken(s) ==
    /\ cpc[s] = "reading"
    /\ wire[s] # <<>>
    /\ Head(wire[s]) = "broken"
    /\ SendFails(s)
    /\ UNCHANGED <<handler, aborted, marred, budget>>

\* The connection breaks, or the threads cannot be loaded.
Disconnected(s) ==
    /\ cpc[s] \in {"reading", "threads"}
    /\ Mishap
    /\ SendFails(s)
    /\ UNCHANGED <<handler, aborted, marred>>

\* The request is refused before its handler does anything.
Refused(s) ==
    /\ cpc[s] = "reading"
    /\ hpc[s] = "messages"
    /\ Mishap
    /\ Returns(s)
    /\ SendFails(s)
    /\ UNCHANGED <<late, lpc, marred>>

\* stopStreaming aborts the request that the reference names, if it is still read.
Stop ==
    /\ Move
    /\ page \in Busy
    /\ abortRef # None
    /\ cpc[abortRef] = "reading"
    /\ cpc' = [cpc EXCEPT ![abortRef] = "stopped"]
    /\ wire' = [wire EXCEPT ![abortRef] = <<>>]
    /\ UNCHANGED <<rows, handler, aborted, told, request, ui, marred>>

\* The pending read is rejected with an AbortError.
Stopped(s) ==
    /\ cpc[s] = "stopped"
    /\ cpc' = [cpc EXCEPT ![s] = "done"]
    /\ SetPage("ready")
    /\ abortRef' = None
    /\ wire' = [wire EXCEPT ![s] = <<>>]
    /\ UNCHANGED <<rows, handler, aborted, told, request, shown, loading, failed,
                   marred, budget>>

\* runSwitchChatThread: the page shows another thread and loads its messages (bound:
\* one load at a time); nothing looks at what is being streamed.
Switch ==
    /\ ~loading
    /\ Move
    /\ shown' \in Threads \ {shown}
    /\ loading' = TRUE
    /\ SetPage("booting")
    /\ UNCHANGED <<rows, handler, aborted, wire, client, failed, abortRef, marred>>

MessagesLoaded ==
    /\ loading
    /\ loading' = FALSE
    /\ \/ SetPage("ready") /\ failed' = None /\ UNCHANGED budget
       \/ SetPage("failed") /\ UNCHANGED failed /\ Mishap
    /\ UNCHANGED <<rows, handler, aborted, wire, client, shown, abortRef, marred>>

ClientStep(s) == Receive(s) \/ StreamEnds(s) \/ ThreadsLoaded(s) \/ Broken(s) \/ Stopped(s)

Progress ==
    \/ \E s \in Sends : HandlerStep(s) \/ RetrievingWritten(s) \/ Learn(s) \/ ClientStep(s)
    \/ MessagesLoaded

Next ==
    \/ Progress
    \/ \E s \in Sends :
          \/ HandlerFails(s) \/ AbortSignal(s)
          \/ Send(s) \/ Retry(s) \/ Disconnected(s) \/ Refused(s)
    \/ Crash \/ Stop \/ Switch

Spec == Init /\ [][Next]_vars

\* Handlers, statements and the event loop of the page go on; nothing is assumed of
\* users, of failures or of the abort signal.  A send has finitely many steps, so
\* what is fair to all of them together is fair to each.
Fairness == WF_vars(Progress)

FairSpec == Spec /\ Fairness

-----------------------------------------------------------------------------
(* Properties *)

RowsOK ==
    /\ turn \in [Sends -> {"none", "queued", "retrieving_context", "generating"} \cup Final]
    /\ answer \in [Sends -> {"none", "pending", "streaming"} \cup Final]
    /\ hot \in [Sends -> BOOLEAN]
    /\ learned \in [Sends -> Nat]

HandlerOK ==
    /\ hpc \in [Sends -> Running \cup {"idle", "done"}]
    /\ late \in [Sends -> BOOLEAN] /\ generated \in [Sends -> BOOLEAN]
    /\ lpc \in [Sends -> {"idle", "learn"}]
    /\ aborted \in [Sends -> BOOLEAN] /\ marred \in [Sends -> BOOLEAN]

ClientOK ==
    /\ wire \in [Sends -> Seq(Events)]
    /\ cpc \in [Sends -> {"idle", "reading", "threads", "stopped", "done"}]
    /\ told \in [Sends -> Final \cup {"none"}]
    /\ thread \in [Sends -> Threads] /\ content \in [Sends -> Sends]
    /\ private \in [Sends -> BOOLEAN]

PageOK ==
    /\ page \in Busy \cup {"ready", "booting", "failed"}
    /\ shown \in Threads /\ loading \in BOOLEAN
    /\ failed \in Sends \cup {None} /\ abortRef \in Sends \cup {None}
    /\ mishaps \in 0..MaxMishaps /\ moves \in 0..MaxMoves

\* The types of the variables.
TypeOK == RowsOK /\ HandlerOK /\ ClientOK /\ PageOK

\* An answer the page has been given is completed in both rows and stays so,
\* and so is a cancellation: no other step of the turn writes after it.
ToldIsStored ==
    \A s \in Sends : told[s] \in {"completed", "cancelled"} =>
        turn[s] = told[s] /\ answer[s] = told[s]

\* A message that the user kept private is neither taken in nor learned from, by
\* its first attempt or by any retry.
PrivateStaysPrivate ==
    \A s \in Sends : private[content[s]] => ~hot[s] /\ learned[s] = 0

\* Only what has been answered is learned from, and once.
LearnedFromAnswers ==
    \A s \in Sends : learned[s] <= 1 /\ (learned[s] = 1 => turn[s] = "completed")

\* Turn and message come to the same end, however the turn is cancelled or fails,
\* unless the API died, or a last write was lost or overtaken.
TurnSettles ==
    <>[](\A s \in Sends :
            turn[s] # "none" => marred[s] \/ (turn[s] \in Final /\ answer[s] = turn[s]))

\* The page does not stay busy.
PageSettles == []<>(page \notin Busy)

\* ... while one of its streams is read, the stop button reaches a stream.
StopReaches ==
    (page \in Busy /\ \E s \in Sends : cpc[s] = "reading") => abortRef # None

\* A stream whose events the page applies belongs to the thread it shows.
StreamIsShown ==
    \A s \in Sends : cpc[s] = "reading" => thread[s] = shown

\* What is retried belongs to the thread it failed in.
RetryStays ==
    \A s \in Sends : thread[s] = thread[content[s]]

\* Every turn comes to an end, also when the API has died in the middle.
TurnEnds == \A s \in Sends : turn[s] # "none" ~> turn[s] \in Final

\* A send whose stream has ended was told how the turn ended.
EndIsTold ==
    \A s \in Sends : cpc[s] = "threads" => told[s] # "none"

\* A message is answered once: what has been answered is not sent again.
AnsweredOnce ==
    \A r, s \in Sends :
        r # s /\ content[r] = content[s] => {turn[r], turn[s]} # {"completed"}

\* When the page shows a failure there is something to retry.
CanGoOn ==
    page = "failed" => failed # None

=============================================================================
