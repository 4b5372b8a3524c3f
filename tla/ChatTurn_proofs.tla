--------------------------- MODULE ChatTurn_proofs --------------------------
(***************************************************************************)
(* What a chat page and the API never do, for every number of messages,    *)
(* threads, failed calls, crashes and stopped streams: TypeOK, ToldIsStored,*)
(* PrivateStaysPrivate and LearnedFromAnswers are invariants.              *)
(*                                                                         *)
(* None of the last three is inductive.  What the page is told has been on *)
(* its way before (Heard), and it was put there after the rows were        *)
(* written, with no write of the turn left under way (Ordered); a          *)
(* cancellation is never on its way, because only the page's closing of    *)
(* the stream aborts a request (Aborts).  A retry is as private as the     *)
(* message it repeats (FirstSent), and nothing of a private message waits  *)
(* to be learned from (Kept).                                              *)
(***************************************************************************)
EXTENDS ChatTurn, TLAPS

\* An event is among those on their way.
Has(q, e) == \E i \in 1..Len(q) : q[i] = e

\* A send that was not made has nothing; its handler starts with it.
Unsent ==
    \A s \in Sends :
        /\ cpc[s] = "idle" <=> hpc[s] = "idle"
        /\ cpc[s] = "idle" => content[s] = s
        /\ hpc[s] # "done" => learned[s] = 0 /\ lpc[s] = "idle"
        /\ cpc[s] = "idle" => ~hot[s]

\* What a message keeps of the first attempt to send it.
FirstSent ==
    /\ \A s \in Sends : /\ cpc[s] # "idle" => cpc[content[s]] # "idle"
                        /\ private[content[s]] = private[s]
    /\ failed # None => cpc[failed] # "idle"

\* Nothing of a private message is kept, nor will be.
Kept == \A s \in Sends : private[s] => ~hot[s] /\ learned[s] = 0 /\ lpc[s] = "idle"

\* Only the page's closing of the stream aborts a request, and only an aborted
\* request is cancelled.
Aborts ==
    \A s \in Sends :
        /\ aborted[s] => cpc[s] \in {"stopped", "done"}
        /\ hpc[s] \in {"cancel_turn", "cancel_answer"} => aborted[s]

\* The turn is over, both rows say so and no write is under way.
Answered(s) ==
    /\ hpc[s] = "done" /\ ~late[s]
    /\ turn[s] = "completed" /\ answer[s] = "completed"

\* The write of "retrieving_context" is over before the answer is begun, and the
\* rows are written before anybody hears of it.
Ordered ==
    \A s \in Sends :
        /\ hpc[s] \in (InTry \ {"context"}) \cup {"report"} => ~late[s]
        /\ hpc[s] \in {"complete_turn", "report"} => answer[s] = "completed"
        /\ hpc[s] = "report" => turn[s] = "completed"

\* Who has heard of an answer: the page, or the learning.
Heard ==
    \A s \in Sends :
        /\ Has(wire[s], "completed") \/ told[s] = "completed" => Answered(s)
        /\ ~Has(wire[s], "cancelled") /\ told[s] # "cancelled"
        /\ lpc[s] = "learn" => Answered(s) /\ learned[s] = 0
        /\ learned[s] <= 1 /\ (learned[s] = 1 => Answered(s))

IInv == TypeOK /\ Unsent /\ FirstSent /\ Kept /\ Aborts /\ Ordered /\ Heard

-----------------------------------------------------------------------------
(* Events on their way *)

\* An event is among two joined queues when it is among one of them.
LEMMA HasJoined ==
    ASSUME NEW S, NEW q \in Seq(S), NEW r \in Seq(S), NEW e, Has(q \o r, e)
    PROVE  Has(q, e) \/ Has(r, e)
  <1>1. PICK i \in 1..Len(q \o r) : (q \o r)[i] = e
    BY DEF Has
  <1>2. Len(q \o r) = Len(q) + Len(r) /\ Len(q) \in Nat /\ Len(r) \in Nat
    OBVIOUS
  <1>3. CASE i <= Len(q)
    BY <1>1, <1>2, <1>3 DEF Has
  <1>4. CASE i > Len(q)
    <2>1. i - Len(q) \in 1..Len(r) /\ r[i - Len(q)] = e
      BY <1>1, <1>2, <1>4
    <2>2. QED
      BY <2>1 DEF Has
  <1>5. QED
    BY <1>2, <1>3, <1>4

\* What is left of a queue was in it.
LEMMA HasTail ==
    ASSUME NEW S, NEW q \in Seq(S), q # <<>>, NEW e, Has(Tail(q), e)
    PROVE  Has(q, e)
  <1>1. PICK i \in 1..Len(Tail(q)) : Tail(q)[i] = e
    BY DEF Has
  <1>2. i + 1 \in 1..Len(q) /\ q[i + 1] = e
    BY <1>1
  <1>3. QED
    BY <1>2 DEF Has

\* Few events are written at once.
LEMMA HasFew ==
    ASSUME NEW a, NEW b, NEW e
    PROVE  /\ ~Has(<<>>, e)
           /\ Has(<<a>>, e) <=> e = a
           /\ Has(<<a, b>>, e) <=> e = a \/ e = b
  BY DEF Has

\* What is written to a stream is what it held and the new events, while it is read.
LEMMA EmitFacts ==
    ASSUME ClientOK, NEW s \in Sends, NEW ev \in Seq(Events), Emit(s, ev)
    PROVE  /\ wire' \in [Sends -> Seq(Events)]
           /\ \A r \in Sends : r # s => wire'[r] = wire[r]
           /\ \A e : Has(wire'[s], e) => Has(wire[s], e) \/ (cpc[s] = "reading" /\ Has(ev, e))
  <1>1. wire[s] \in Seq(Events) /\ wire[s] \o ev \in Seq(Events)
    BY DEF ClientOK
  <1>2. wire'[s] = IF cpc[s] = "reading" THEN wire[s] \o ev ELSE wire[s]
    BY DEF Emit, ClientOK
  <1>3. wire' \in [Sends -> Seq(Events)] /\ \A r \in Sends : r # s => wire'[r] = wire[r]
    BY <1>1 DEF Emit, ClientOK
  <1>4. QED
    BY <1>1, <1>2, <1>3, HasJoined

\* What any step may put on its way: an answer only by its report, a cancellation
\* only by a cancelled turn whose stream is read.
LEMMA WireStep ==
    ASSUME TypeOK, Next
    PROVE  /\ wire' \in [Sends -> Seq(Events)]
           /\ \A s \in Sends : Has(wire'[s], "completed") =>
                Has(wire[s], "completed") \/ Report(s)
           /\ \A s \in Sends : Has(wire'[s], "cancelled") =>
                Has(wire[s], "cancelled") \/ (CancelAnswer(s) /\ cpc[s] = "reading")
  <1> USE DEF TypeOK
  <1> DEFINE Fine ==
           /\ wire' \in [Sends -> Seq(Events)]
           /\ \A s \in Sends : Has(wire'[s], "completed") =>
                Has(wire[s], "completed") \/ Report(s)
           /\ \A s \in Sends : Has(wire'[s], "cancelled") =>
                Has(wire[s], "cancelled") \/ (CancelAnswer(s) /\ cpc[s] = "reading")
  <1> SUFFICES Fine
    OBVIOUS
  <1>1. ASSUME UNCHANGED wire
        PROVE  Fine
    BY <1>1 DEF ClientOK
  <1>2. ASSUME NEW s \in Sends, NEW ev \in {<<"end">>, <<"ready", "delta">>, <<"ready">>,
                                           <<"delta">>, <<"failed">>}, Emit(s, ev)
        PROVE  Fine
    <2>1. ev \in Seq(Events) /\ ~Has(ev, "completed") /\ ~Has(ev, "cancelled")
      <3>0. ev = <<"end">> \/ ev = <<"ready", "delta">> \/ ev = <<"ready">>
              \/ ev = <<"delta">> \/ ev = <<"failed">>
        BY <1>2
      <3>1. /\ <<"end">> \in Seq(Events) /\ <<"ready", "delta">> \in Seq(Events)
            /\ <<"ready">> \in Seq(Events) /\ <<"delta">> \in Seq(Events)
            /\ <<"failed">> \in Seq(Events)
        BY DEF Events, Final
      <3>2. \A e \in {"completed", "cancelled"} :
              /\ ~Has(<<"end">>, e) /\ ~Has(<<"ready", "delta">>, e) /\ ~Has(<<"ready">>, e)
              /\ ~Has(<<"delta">>, e) /\ ~Has(<<"failed">>, e)
        <4> TAKE e \in {"completed", "cancelled"}
        <4>1. ~Has(<<"end">>, e)
          BY HasFew
        <4>2. ~Has(<<"ready", "delta">>, e)
          <5>1. e # "ready" /\ e # "delta"
            OBVIOUS
          <5>2. Has(<<"ready", "delta">>, e) <=> e = "ready" \/ e = "delta"
            BY HasFew
          <5>3. QED
            BY <5>1, <5>2
        <4>3. ~Has(<<"ready">>, e)
          BY HasFew
        <4>4. ~Has(<<"delta">>, e)
          BY HasFew
        <4>5. ~Has(<<"failed">>, e)
          BY HasFew
        <4>6. QED
          BY <4>1, <4>2, <4>3, <4>4, <4>5
      <3>3. QED
        BY <3>0, <3>1, <3>2
    <2>2. QED
      BY <1>2, <2>1, EmitFacts
  <1>3. ASSUME NEW s \in Sends, Report(s)
        PROVE  Fine
    <2>1. <<"completed", "end">> \in Seq(Events) /\ ~Has(<<"completed", "end">>, "cancelled")
      <3>1. <<"completed", "end">> \in Seq(Events)
        BY DEF Events, Final
      <3>2. QED
        BY <3>1, HasFew
    <2>2. QED
      BY <1>3, <2>1, EmitFacts DEF Report
  <1>4. ASSUME NEW s \in Sends, CancelAnswer(s)
        PROVE  Fine
    <2>1. <<"cancelled", "end">> \in Seq(Events) /\ ~Has(<<"cancelled", "end">>, "completed")
      <3>1. <<"cancelled", "end">> \in Seq(Events)
        BY DEF Events, Final
      <3>2. QED
        BY <3>1, HasFew
    <2>2. QED
      BY <1>4, <2>1, EmitFacts DEF CancelAnswer
  <1>5. ASSUME NEW s \in Sends, wire' = [wire EXCEPT ![s] = <<>>]
        PROVE  Fine
    <2>1. <<>> \in Seq(Events)
      OBVIOUS
    <2>2. ~Has(<<>>, "completed") /\ ~Has(<<>>, "cancelled")
      BY HasFew
    <2>3. wire' \in [Sends -> Seq(Events)] /\ \A r \in Sends : wire'[r] \in {<<>>, wire[r]}
      BY <1>5, <2>1 DEF ClientOK
    <2>4. QED
      BY <2>2, <2>3
  <1>6. ASSUME NEW s \in Sends, Receive(s)
        PROVE  Fine
    <2>1. wire[s] \in Seq(Events) /\ wire[s] # <<>> /\ wire' = [wire EXCEPT ![s] = Tail(@)]
      BY <1>6 DEF Receive, ClientOK
    <2>2. Tail(wire[s]) \in Seq(Events)
      BY <2>1
    <2>3. \A e : Has(wire'[s], e) => Has(wire[s], e)
      BY <2>1, HasTail DEF ClientOK
    <2>4. QED
      BY <2>1, <2>2, <2>3 DEF ClientOK
  <1>7. CASE Crash
    <2>1. \A s \in Sends : wire[s] \in Seq(Events) /\ Append(wire[s], "broken") \in Seq(Events)
      BY DEF ClientOK, Events
    <2>2. \A s \in Sends : wire'[s] \in {wire[s], Append(wire[s], "broken")}
      BY <1>7 DEF Crash
    <2>3. ASSUME NEW q \in Seq(Events), NEW e, e # "broken", Has(Append(q, "broken"), e)
          PROVE  Has(q, e)
      BY <2>3 DEF Has
    <2>4. wire' \in [Sends -> Seq(Events)]
      BY <1>7, <2>1 DEF Crash
    <2>5. QED
      BY <2>1, <2>2, <2>3, <2>4
  <1> HIDE DEF Fine
  <1>8. ASSUME NEW s \in Sends, HandlerStep(s)
        PROVE  Fine
    BY <1>1, <1>2, <1>3, <1>4, <1>8 DEF HandlerStep, InsertMessages, InsertTurn, LinkMessages,
       ContextLoaded, Intake, AnswerAtOnce, ContextReady, MarkTurn, MarkAnswer, Delta, EndOfText,
       Cancelled, CompleteAnswer, CompleteTurn, Catch, CancelTurn, FailTurn, FailAnswer
  <1>9. ASSUME NEW s \in Sends, HandlerFails(s) \/ AbortSignal(s) \/ RetrievingWritten(s) \/ Learn(s)
        PROVE  Fine
    BY <1>1, <1>2, <1>9 DEF HandlerFails, CreateFails, ContextFails, TryFails, CatchFails,
       AbortSignal, RetrievingWritten, Learn
  <1>10. ASSUME NEW s \in Sends, ClientStep(s) \/ Disconnected(s) \/ Refused(s)
         PROVE  Fine
    BY <1>1, <1>5, <1>6, <1>10 DEF ClientStep, StreamEnds, ThreadsLoaded, Broken, Stopped,
       Disconnected, Refused, SendFails
  <1>11. ASSUME NEW s \in Sends, Send(s) \/ Retry(s)
         PROVE  UNCHANGED wire
    BY <1>11 DEF Send, Retry, Start
  <1>12. CASE Stop
    <2>1. PICK s \in Sends : s = abortRef
      BY <1>12 DEF Stop, PageOK
    <2>2. QED
      BY <1>5, <1>12, <2>1 DEF Stop
  <1>13. CASE Switch \/ MessagesLoaded
    BY <1>1, <1>13 DEF Switch, MessagesLoaded
  <1>14. QED
    BY <1>1, <1>7, <1>8, <1>9, <1>10, <1>11, <1>12, <1>13 DEF Next, Progress

\* The page is only told what was on its way to it.
LEMMA ToldStep ==
    ASSUME TypeOK, Next
    PROVE  /\ told' \in [Sends -> Final \cup {"none"}]
           /\ \A s \in Sends : told'[s] = told[s] \/ Has(wire[s], told'[s])
  <1> USE DEF TypeOK, ClientOK
  <1>1. ASSUME NEW s \in Sends, Receive(s)
        PROVE  /\ told' \in [Sends -> Final \cup {"none"}]
               /\ \A r \in Sends : told'[r] = told[r] \/ Has(wire[r], told'[r])
    <2>1. Has(wire[s], Head(wire[s]))
      <3>1. wire[s] \in Seq(Events) /\ wire[s] # <<>>
        BY <1>1 DEF Receive
      <3>2. 1 \in 1..Len(wire[s]) /\ Head(wire[s]) = wire[s][1]
        BY <3>1
      <3>3. QED
        BY <3>2 DEF Has
    <2>2. QED
      BY <1>1, <2>1 DEF Receive
  <1>2. ASSUME ~\E s \in Sends : Receive(s)
        PROVE  UNCHANGED told
    <2>1. ASSUME NEW s \in Sends, HandlerStep(s)
          PROVE  UNCHANGED told
      BY <2>1 DEF HandlerStep, InsertMessages, InsertTurn, LinkMessages, client,
       ContextLoaded, Intake, AnswerAtOnce, ContextReady, MarkTurn, MarkAnswer, Delta, EndOfText,
       Cancelled, CompleteAnswer, CompleteTurn, Report, Catch, CancelTurn, CancelAnswer, FailTurn,
       FailAnswer
    <2>2. ASSUME NEW s \in Sends, HandlerFails(s) \/ AbortSignal(s) \/ RetrievingWritten(s) \/ Learn(s)
          PROVE  UNCHANGED told
      BY <2>2 DEF HandlerFails, CreateFails, ContextFails, TryFails, CatchFails,
         AbortSignal, RetrievingWritten, Learn, client
    <2>3. ASSUME NEW s \in Sends, ClientStep(s) \/ Disconnected(s) \/ Refused(s)
                                    \/ Send(s) \/ Retry(s)
          PROVE  UNCHANGED told
      BY <1>2, <2>3 DEF ClientStep, StreamEnds, ThreadsLoaded, Broken, Stopped, Disconnected,
         Refused, SendFails, Send, Retry, Start
    <2>4. CASE Crash \/ Stop \/ Switch \/ MessagesLoaded
      BY <2>4 DEF Crash, Stop, Switch, MessagesLoaded, client
    <2>5. QED
      BY <2>1, <2>2, <2>3, <2>4 DEF Next, Progress
  <1>3. QED
    BY <1>1, <1>2

-----------------------------------------------------------------------------
(* Types *)

\* Every step leaves the rows, the handlers and the events well typed,
LEMMA RowsType ==
    ASSUME TypeOK, Next
    PROVE  RowsOK'
  <1> USE DEF TypeOK, RowsOK, Final
  <1>1. ASSUME UNCHANGED rows
        PROVE  RowsOK'
    BY <1>1 DEF rows
  <1>2. ASSUME NEW s \in Sends, HandlerStep(s)
        PROVE  RowsOK'
    <2>1. CASE InsertMessages(s) \/ InsertTurn(s)
      BY <2>1 DEF InsertMessages, InsertTurn, SetAnswer, SetTurn
    <2>2. CASE MarkTurn(s) \/ MarkAnswer(s)
      BY <2>2 DEF MarkTurn, MarkAnswer, SetAnswer, SetTurn
    <2>3. CASE CompleteAnswer(s) \/ CompleteTurn(s)
      BY <2>3 DEF CompleteAnswer, CompleteTurn, SetAnswer, SetTurn
    <2>4. CASE CancelTurn(s) \/ CancelAnswer(s)
      BY <2>4 DEF CancelTurn, CancelAnswer, SetAnswer, SetTurn
    <2>5. CASE FailTurn(s) \/ FailAnswer(s)
      BY <2>5 DEF FailTurn, FailAnswer, SetAnswer, SetTurn
    <2>6. CASE Intake(s)
      BY <2>6 DEF Intake, HandlerOK, ClientOK
    <2>7. QED
      BY <1>1, <1>2, <2>1, <2>2, <2>3, <2>4, <2>5, <2>6 DEF HandlerStep, LinkMessages,
         ContextLoaded, AnswerAtOnce, ContextReady, Delta, EndOfText, Cancelled, Report, Catch
  <1>3. ASSUME NEW s \in Sends, TryFails(s)
        PROVE  RowsOK'
    BY <1>3 DEF TryFails, ClientOK
  <1>4. ASSUME NEW s \in Sends, RetrievingWritten(s) \/ Learn(s)
        PROVE  RowsOK'
    BY <1>4 DEF RetrievingWritten, Learn, SetTurn
  <1>5. ASSUME NEW s \in Sends, CreateFails(s) \/ ContextFails(s) \/ CatchFails(s) \/ AbortSignal(s)
        PROVE  UNCHANGED rows
    BY <1>5 DEF CreateFails, ContextFails, CatchFails, AbortSignal
  <1>6. ASSUME NEW s \in Sends, ClientStep(s) \/ Disconnected(s) \/ Refused(s) \/ Send(s) \/ Retry(s)
        PROVE  UNCHANGED rows
    BY <1>6 DEF ClientStep, Receive, StreamEnds, ThreadsLoaded, Broken, Stopped, Disconnected,
       Refused, SendFails, Send, Retry, Start
  <1>7. ASSUME Crash \/ Stop \/ Switch \/ MessagesLoaded
        PROVE  UNCHANGED rows
    BY <1>7 DEF Crash, Stop, Switch, MessagesLoaded
  <1>8. QED
    BY <1>1, <1>2, <1>3, <1>4, <1>5, <1>6, <1>7 DEF Next, Progress, HandlerFails

\* ... the places of handlers and of learning,
LEMMA HandlerType ==
    ASSUME TypeOK, Next
    PROVE  HandlerOK'
  <1> USE DEF TypeOK, HandlerOK, Running, Creating, InTry, InCatch, HGoto, Returns
  <1>1. ASSUME UNCHANGED <<handler, aborted, marred>>
        PROVE  HandlerOK'
    BY <1>1 DEF handler
  <1>2. ASSUME NEW s \in Sends, HandlerStep(s)
        PROVE  HandlerOK'
    <2>1. marred' = marred
      BY <1>2 DEF HandlerStep, InsertMessages, InsertTurn, LinkMessages,
         ContextLoaded, Intake, AnswerAtOnce, ContextReady, MarkTurn, MarkAnswer, Delta, EndOfText,
         Cancelled, CompleteAnswer, CompleteTurn, Report, Catch, CancelTurn, CancelAnswer,
         FailTurn, FailAnswer
    <2>2. CASE InsertMessages(s) \/ InsertTurn(s) \/ LinkMessages(s) \/ ContextLoaded(s)
      BY <2>1, <2>2 DEF InsertMessages, InsertTurn, LinkMessages, ContextLoaded
    <2>3. CASE Intake(s) \/ AnswerAtOnce(s) \/ ContextReady(s) \/ MarkTurn(s) \/ MarkAnswer(s)
      BY <2>1, <2>3 DEF Intake, AnswerAtOnce, ContextReady, MarkTurn, MarkAnswer
    <2>4. CASE Delta(s) \/ EndOfText(s) \/ Cancelled(s) \/ CompleteAnswer(s) \/ CompleteTurn(s)
      BY <2>1, <2>4 DEF Delta, EndOfText, Cancelled, CompleteAnswer, CompleteTurn
    <2>5. CASE Report(s)
      BY <2>1, <2>5 DEF Report
    <2>6. CASE Catch(s) \/ CancelTurn(s) \/ FailTurn(s)
      BY <2>1, <2>6 DEF Catch, CancelTurn, FailTurn
    <2>7. CASE CancelAnswer(s) \/ FailAnswer(s)
      BY <2>1, <2>7 DEF CancelAnswer, FailAnswer
    <2>8. QED
      BY <1>2, <2>2, <2>3, <2>4, <2>5, <2>6, <2>7 DEF HandlerStep
  <1>3. ASSUME NEW s \in Sends, CreateFails(s) \/ CatchFails(s)
        PROVE  HandlerOK'
    BY <1>3 DEF CreateFails, CatchFails
  <1>4. ASSUME NEW s \in Sends, ContextFails(s) \/ TryFails(s)
        PROVE  HandlerOK'
    BY <1>4 DEF ContextFails, TryFails
  <1>5. ASSUME NEW s \in Sends, RetrievingWritten(s) \/ Learn(s) \/ AbortSignal(s)
        PROVE  HandlerOK'
    BY <1>5 DEF RetrievingWritten, Learn, AbortSignal, handler
  <1>6. ASSUME NEW s \in Sends, Refused(s)
        PROVE  HandlerOK'
    BY <1>6 DEF Refused
  <1>7. ASSUME NEW s \in Sends, Send(s) \/ Retry(s)
        PROVE  HandlerOK'
    BY <1>7 DEF Send, Retry, Start
  <1>8. ASSUME NEW s \in Sends, ClientStep(s) \/ Disconnected(s)
        PROVE  UNCHANGED <<handler, aborted, marred>>
    BY <1>8 DEF ClientStep, Receive, StreamEnds, ThreadsLoaded, Broken, Stopped, Disconnected
  <1>9. CASE Crash
    <2>1. \A s \in Sends : hpc'[s] \in {"done", hpc[s]} /\ marred'[s] \in BOOLEAN
      BY <1>9 DEF Crash
    <2>2. QED
      BY <1>9, <2>1 DEF Crash
  <1>10. ASSUME Stop \/ Switch \/ MessagesLoaded
         PROVE  UNCHANGED <<handler, aborted, marred>>
    BY <1>10 DEF Stop, Switch, MessagesLoaded
  <1>11. QED
    BY <1>1, <1>2, <1>3, <1>4, <1>5, <1>6, <1>7, <1>8, <1>9, <1>10 DEF Next, Progress, HandlerFails

\* ... and what the page holds.
LEMMA ClientType ==
    ASSUME TypeOK, Next
    PROVE  ClientOK' /\ PageOK'
  <1> USE DEF TypeOK, PageOK, ui, budget
  <1>1. wire' \in [Sends -> Seq(Events)] /\ told' \in [Sends -> Final \cup {"none"}]
    BY WireStep, ToldStep
  <1> DEFINE SendsOK == /\ cpc \in [Sends -> {"idle", "reading", "threads", "stopped", "done"}]
                        /\ thread \in [Sends -> Threads] /\ content \in [Sends -> Sends]
                        /\ private \in [Sends -> BOOLEAN]
  <1>2. SendsOK
    BY DEF ClientOK
  <1>3. ASSUME SendsOK'
        PROVE  ClientOK'
    BY <1>1, <1>3 DEF ClientOK
  <1>4. ASSUME UNCHANGED client, UNCHANGED ui, \/ UNCHANGED budget \/ Mishap
        PROVE  SendsOK' /\ PageOK'
    BY <1>2, <1>4, ChatAssumption DEF client, request, Mishap
  <1>5. ASSUME NEW s \in Sends, HandlerStep(s) \/ RetrievingWritten(s) \/ Learn(s)
        PROVE  UNCHANGED client /\ UNCHANGED ui /\ UNCHANGED budget
    BY <1>5 DEF HandlerStep, InsertMessages, InsertTurn, LinkMessages,
       ContextLoaded, Intake, AnswerAtOnce, ContextReady, MarkTurn, MarkAnswer, Delta, EndOfText,
       Cancelled, CompleteAnswer, CompleteTurn, Report, Catch, CancelTurn, CancelAnswer,
       FailTurn, FailAnswer, RetrievingWritten, Learn
  <1>6. ASSUME NEW s \in Sends, HandlerFails(s) \/ AbortSignal(s)
        PROVE  UNCHANGED client /\ UNCHANGED ui /\ (UNCHANGED budget \/ Mishap)
    BY <1>6 DEF HandlerFails, CreateFails, ContextFails, TryFails, CatchFails, AbortSignal
  <1>7. CASE Crash
    BY <1>3, <1>4, <1>7 DEF Crash
  <1>8. ASSUME NEW s \in Sends, NEW t \in Threads, NEW c \in Sends, NEW p \in BOOLEAN,
               Start(s, t, c, p)
        PROVE  SendsOK' /\ PageOK'
    BY <1>2, <1>8 DEF Start, SetPage, Busy
  <1>9. ASSUME NEW s \in Sends, Send(s) \/ Retry(s)
        PROVE  SendsOK' /\ PageOK'
    <2>1. CASE Send(s)
      BY <1>8, <2>1 DEF Send
    <2>2. CASE Retry(s)
      <3>1. failed \in Sends /\ content[failed] \in Sends /\ private[failed] \in BOOLEAN
        BY <2>2 DEF Retry, ClientOK, None
      <3>2. QED
        BY <1>8, <2>2, <3>1 DEF Retry
    <2>3. QED
      BY <1>9, <2>1, <2>2
  <1>10. ASSUME NEW s \in Sends, Receive(s)
         PROVE  SendsOK' /\ PageOK'
    <2>1. SendsOK'
      BY <1>2, <1>10 DEF Receive, request
    <2>2. PageOK'
      BY <1>10 DEF Receive, Busy
    <2>3. QED
      BY <2>1, <2>2
  <1>11. ASSUME NEW s \in Sends, StreamEnds(s) \/ ThreadsLoaded(s) \/ Stopped(s)
         PROVE  SendsOK' /\ PageOK'
    BY <1>2, <1>11 DEF StreamEnds, ThreadsLoaded, Stopped, SetPage, request
  <1>12. ASSUME NEW s \in Sends, SendFails(s), Mishap \/ UNCHANGED budget
         PROVE  SendsOK' /\ PageOK'
    BY <1>2, <1>12, ChatAssumption DEF SendFails, SetPage, request, Mishap
  <1>13. ASSUME NEW s \in Sends, Broken(s) \/ Disconnected(s) \/ Refused(s)
         PROVE  SendsOK' /\ PageOK'
    BY <1>12, <1>13 DEF Broken, Disconnected, Refused
  <1>14. ASSUME Stop
         PROVE  SendsOK' /\ PageOK'
    BY <1>2, <1>14, ChatAssumption DEF Stop, Move, request
  <1>15. ASSUME Switch \/ MessagesLoaded
         PROVE  SendsOK' /\ PageOK'
    <2>1. SendsOK'
      BY <1>2, <1>15 DEF Switch, MessagesLoaded, client, request
    <2>2. CASE Switch
      BY <2>1, <2>2, ChatAssumption DEF Switch, Move, SetPage
    <2>3. CASE MessagesLoaded
      <3>1. failed' \in Sends \cup {None} /\ page' \in Busy \cup {"ready", "booting", "failed"}
        BY <2>3 DEF MessagesLoaded, SetPage
      <3>2. mishaps' \in 0..MaxMishaps /\ moves' \in 0..MaxMoves
        BY <2>3, ChatAssumption DEF MessagesLoaded, Mishap
      <3>3. QED
        BY <2>1, <2>3, <3>1, <3>2 DEF MessagesLoaded
    <2>4. QED
      BY <1>15, <2>2, <2>3
  <1> HIDE DEF SendsOK
  <1>16. QED
    BY <1>3, <1>4, <1>5, <1>6, <1>7, <1>9, <1>10, <1>11, <1>13, <1>14, <1>15
       DEF Next, Progress, ClientStep

-----------------------------------------------------------------------------
(* What a step does to the sends *)

\* The request, once made, is what it is; a send that is made stays made, and
\* only the page makes one.
LEMMA SendsKept ==
    ASSUME TypeOK, Next
    PROVE  \/ /\ UNCHANGED request
              /\ \A r \in Sends : cpc'[r] = "idle" <=> cpc[r] = "idle"
              /\ failed' = failed \/ failed' = None \/ (failed' \in Sends /\ cpc[failed'] # "idle")
           \/ \E s \in Sends : Send(s) \/ Retry(s)
  <1> USE DEF TypeOK, ClientOK, ui
  <1>1. ASSUME UNCHANGED client, UNCHANGED ui
        PROVE  /\ UNCHANGED request /\ failed' = failed
               /\ \A r \in Sends : cpc'[r] = "idle" <=> cpc[r] = "idle"
    BY <1>1 DEF client
  <1>2. ASSUME NEW s \in Sends, HandlerStep(s) \/ RetrievingWritten(s) \/ Learn(s)
        PROVE  UNCHANGED client /\ UNCHANGED ui
    BY <1>2 DEF HandlerStep, InsertMessages, InsertTurn, LinkMessages,
       ContextLoaded, Intake, AnswerAtOnce, ContextReady, MarkTurn, MarkAnswer, Delta, EndOfText,
       Cancelled, CompleteAnswer, CompleteTurn, Report, Catch, CancelTurn, CancelAnswer,
       FailTurn, FailAnswer, RetrievingWritten, Learn
  <1>3. ASSUME (\E s \in Sends : HandlerFails(s) \/ AbortSignal(s)) \/ Crash
        PROVE  UNCHANGED client /\ UNCHANGED ui
    BY <1>3 DEF HandlerFails, CreateFails, ContextFails, TryFails, CatchFails, AbortSignal, Crash
  <1>4. ASSUME NEW s \in Sends, Receive(s)
        PROVE  /\ UNCHANGED request /\ UNCHANGED cpc /\ cpc[s] # "idle" /\ failed' \in {s, failed}
    BY <1>4 DEF Receive
  <1>5. ASSUME NEW s \in Sends, StreamEnds(s) \/ ThreadsLoaded(s) \/ Stopped(s)
        PROVE  /\ UNCHANGED request /\ failed' = failed
               /\ \A r \in Sends : cpc'[r] = "idle" <=> cpc[r] = "idle"
    BY <1>5 DEF StreamEnds, ThreadsLoaded, Stopped
  <1>6. ASSUME NEW s \in Sends, Broken(s) \/ Disconnected(s) \/ Refused(s)
        PROVE  /\ UNCHANGED request /\ failed' = s /\ cpc[s] # "idle"
               /\ \A r \in Sends : cpc'[r] = "idle" <=> cpc[r] = "idle"
    BY <1>6 DEF Broken, Disconnected, Refused, SendFails
  <1>7. ASSUME Stop
        PROVE  /\ UNCHANGED request /\ failed' = failed
               /\ \A r \in Sends : cpc'[r] = "idle" <=> cpc[r] = "idle"
    BY <1>7 DEF Stop
  <1>8. ASSUME Switch \/ MessagesLoaded
        PROVE  UNCHANGED client /\ (failed' = failed \/ failed' = None)
    BY <1>8 DEF Switch, MessagesLoaded
  <1>9. QED
    BY <1>1, <1>2, <1>3, <1>4, <1>5, <1>6, <1>7, <1>8 DEF Next, Progress, ClientStep, client

\* A call of sendContent fills in the send that is next.
LEMMA SendFacts ==
    ASSUME TypeOK, Unsent, FirstSent, NEW s \in Sends, Send(s) \/ Retry(s)
    PROVE  \E t \in Threads, c \in Sends, p \in BOOLEAN :
             /\ Start(s, t, c, p)
             /\ c = s \/ (c # s /\ cpc[c] # "idle" /\ private[c] = p)
  <1>1. CASE Send(s)
    BY <1>1 DEF Send, TypeOK, PageOK
  <1>2. CASE Retry(s)
    <2>1. failed \in Sends /\ cpc[failed] # "idle" /\ cpc[s] = "idle"
      BY <1>2 DEF Retry, Start, FirstSent, TypeOK, PageOK, None
    <2>2. PICK c \in Sends, p \in BOOLEAN : c = content[failed] /\ p = private[failed]
      BY <2>1 DEF TypeOK, ClientOK
    <2>3. cpc[c] # "idle" /\ private[c] = p
      BY <2>1, <2>2 DEF FirstSent
    <2>4. Start(s, shown, c, p) /\ shown \in Threads
      BY <1>2, <2>2 DEF Retry, TypeOK, PageOK
    <2>5. QED
      BY <2>1, <2>3, <2>4
  <1>3. QED
    BY <1>1, <1>2

\* No step changes what a message keeps of the first attempt to send it.
LEMMA FirstSentStep ==
    ASSUME TypeOK, Unsent, FirstSent, Next
    PROVE  FirstSent'
  <1>1. CASE /\ UNCHANGED request
             /\ \A r \in Sends : cpc'[r] = "idle" <=> cpc[r] = "idle"
             /\ failed' = failed \/ failed' = None \/ (failed' \in Sends /\ cpc[failed'] # "idle")
    <2>1. failed' # None => failed' \in Sends /\ cpc[failed'] # "idle"
      BY <1>1 DEF FirstSent, TypeOK, PageOK
    <2>2. \A r \in Sends : content[r] \in Sends /\ content'[r] = content[r] /\ private'[r] = private[r]
      BY <1>1 DEF request, TypeOK, ClientOK
    <2>3. QED
      BY <1>1, <2>1, <2>2 DEF FirstSent
  <1>2. ASSUME NEW s \in Sends, Send(s) \/ Retry(s)
        PROVE  FirstSent'
    <2>1. PICK t \in Threads, c \in Sends, p \in BOOLEAN :
             /\ Start(s, t, c, p)
             /\ c = s \/ (c # s /\ cpc[c] # "idle" /\ private[c] = p)
      BY <1>2, SendFacts
    <2>2. /\ cpc[s] = "idle" /\ cpc'[s] = "reading" /\ content'[s] = c /\ private'[s] = p
          /\ \A r \in Sends : r # s => /\ cpc'[r] = cpc[r] /\ content'[r] = content[r]
                                        /\ private'[r] = private[r]
          /\ failed' = None
      BY <2>1 DEF Start, TypeOK, ClientOK
    <2>3. \A r \in Sends : r # s /\ cpc[r] # "idle" => content[r] # s /\ content[r] \in Sends
      BY <2>2 DEF FirstSent, TypeOK, ClientOK
    <2>4. \A r \in Sends : r # s /\ cpc[r] = "idle" => content[r] = r
      BY DEF Unsent
    <2>5. QED
      BY <2>1, <2>2, <2>3, <2>4 DEF FirstSent
  <1>3. QED
    BY <1>1, <1>2, SendsKept

\* Nothing of a private message is taken in or queued to be learned from.
LEMMA KeptStep ==
    ASSUME TypeOK, Unsent, FirstSent, Kept, Next
    PROVE  Kept'
  <1> USE DEF TypeOK, RowsOK, HandlerOK, ClientOK, HGoto, Returns,
          rows, client, request, Kept, Unsent
  <1>1. ASSUME NEW s \in Sends, InsertMessages(s) \/ InsertTurn(s) \/ LinkMessages(s) \/ ContextLoaded(s)
        PROVE  Kept'
    BY <1>1 DEF InsertMessages, InsertTurn, LinkMessages, ContextLoaded, SetAnswer, SetTurn
  <1>2. ASSUME NEW s \in Sends, Intake(s) \/ AnswerAtOnce(s) \/ ContextReady(s)
        PROVE  Kept'
    <2>1. CASE Intake(s)
      BY <1>2, <2>1 DEF Intake
    <2>2. CASE AnswerAtOnce(s) \/ ContextReady(s)
      BY <1>2, <2>2 DEF AnswerAtOnce, ContextReady
    <2>3. QED
      BY <1>2, <2>1, <2>2
  <1>3. ASSUME NEW s \in Sends, MarkTurn(s) \/ MarkAnswer(s) \/ Delta(s) \/ EndOfText(s) \/ Cancelled(s)
        PROVE  Kept'
    BY <1>3 DEF MarkTurn, MarkAnswer, Delta, EndOfText, Cancelled, SetTurn, SetAnswer
  <1>4. ASSUME NEW s \in Sends, CompleteAnswer(s) \/ CompleteTurn(s) \/ Report(s)
        PROVE  Kept'
    BY <1>4 DEF CompleteAnswer, CompleteTurn, Report, SetTurn, SetAnswer
  <1>5. ASSUME NEW s \in Sends, Catch(s) \/ CancelTurn(s) \/ FailTurn(s)
        PROVE  Kept'
    BY <1>5 DEF Catch, CancelTurn, FailTurn, SetTurn
  <1>6. ASSUME NEW s \in Sends, CancelAnswer(s) \/ FailAnswer(s)
        PROVE  Kept'
    BY <1>6 DEF CancelAnswer, FailAnswer, SetAnswer
  <1>7. ASSUME NEW s \in Sends, HandlerFails(s)
        PROVE  Kept'
    <2>1. CASE CreateFails(s)
      BY <1>7, <2>1 DEF CreateFails, Creating
    <2>2. CASE ContextFails(s)
      BY <1>7, <2>2 DEF ContextFails
    <2>3. CASE TryFails(s)
      BY <1>7, <2>3 DEF TryFails, InTry
    <2>4. CASE CatchFails(s)
      BY <1>7, <2>4 DEF CatchFails, InCatch
    <2>5. QED
      BY <1>7, <2>1, <2>2, <2>3, <2>4 DEF HandlerFails
  <1>8. ASSUME NEW s \in Sends, RetrievingWritten(s) \/ Learn(s) \/ AbortSignal(s)
        PROVE  Kept'
    BY <1>8 DEF RetrievingWritten, Learn, AbortSignal, SetTurn, Running, Creating, InTry, InCatch, handler
  <1>9. ASSUME NEW s \in Sends, ClientStep(s) \/ Disconnected(s)
        PROVE  Kept'
    BY <1>9 DEF ClientStep, Receive, StreamEnds, ThreadsLoaded, Broken, Stopped, Disconnected, SendFails, handler
  <1>10. ASSUME NEW s \in Sends, Refused(s)
        PROVE  Kept'
    BY <1>10 DEF Refused, SendFails
  <1>11. ASSUME NEW s \in Sends, NEW t \in Threads, NEW c \in Sends, NEW p \in BOOLEAN,
               Start(s, t, c, p)
        PROVE  Kept'
    BY <1>11 DEF Start
  <1>12. ASSUME Crash
        PROVE  Kept'
    BY <1>12 DEF Crash, rows, client, request, Running, Creating, InTry, InCatch
  <1>13. ASSUME Stop \/ Switch \/ MessagesLoaded
        PROVE  Kept'
    BY <1>13 DEF Stop, Switch, MessagesLoaded, handler
  <1>14. QED
    BY <1>1, <1>2, <1>3, <1>4, <1>5, <1>6, <1>7, <1>8, <1>9, <1>10, <1>11, <1>12, <1>13, SendFacts DEF Next, Progress, HandlerStep

\* Nothing but a closed stream aborts a request.
LEMMA AbortsStep ==
    ASSUME TypeOK, Unsent, FirstSent, Aborts, Next
    PROVE  Aborts'
  <1> USE DEF TypeOK, RowsOK, HandlerOK, ClientOK, HGoto, Returns,
          rows, client, request, Aborts, Unsent
  <1>1. ASSUME NEW s \in Sends, InsertMessages(s) \/ InsertTurn(s) \/ LinkMessages(s) \/ ContextLoaded(s)
        PROVE  Aborts'
    BY <1>1 DEF InsertMessages, InsertTurn, LinkMessages, ContextLoaded, SetAnswer, SetTurn
  <1>2. ASSUME NEW s \in Sends, Intake(s) \/ AnswerAtOnce(s) \/ ContextReady(s)
        PROVE  Aborts'
    BY <1>2 DEF Intake, AnswerAtOnce, ContextReady
  <1>3. ASSUME NEW s \in Sends, MarkTurn(s) \/ MarkAnswer(s) \/ Delta(s) \/ EndOfText(s) \/ Cancelled(s)
        PROVE  Aborts'
    BY <1>3 DEF MarkTurn, MarkAnswer, Delta, EndOfText, Cancelled, SetTurn, SetAnswer
  <1>4. ASSUME NEW s \in Sends, CompleteAnswer(s) \/ CompleteTurn(s) \/ Report(s)
        PROVE  Aborts'
    BY <1>4 DEF CompleteAnswer, CompleteTurn, Report, SetTurn, SetAnswer
  <1>5. ASSUME NEW s \in Sends, Catch(s) \/ CancelTurn(s) \/ FailTurn(s)
        PROVE  Aborts'
    BY <1>5 DEF Catch, CancelTurn, FailTurn, SetTurn
  <1>6. ASSUME NEW s \in Sends, CancelAnswer(s) \/ FailAnswer(s)
        PROVE  Aborts'
    <2>1. CASE CancelAnswer(s)
      BY <1>6, <2>1 DEF CancelAnswer, SetAnswer
    <2>2. CASE FailAnswer(s)
      BY <1>6, <2>2 DEF FailAnswer, SetAnswer
    <2>3. QED
      BY <1>6, <2>1, <2>2
  <1>7. ASSUME NEW s \in Sends, HandlerFails(s)
        PROVE  Aborts'
    BY <1>7 DEF HandlerFails, CreateFails, ContextFails, TryFails, CatchFails, Creating, InTry, InCatch
  <1>8. ASSUME NEW s \in Sends, RetrievingWritten(s) \/ Learn(s) \/ AbortSignal(s)
        PROVE  Aborts'
    <2>1. CASE RetrievingWritten(s)
      BY <1>8, <2>1 DEF RetrievingWritten, SetTurn
    <2>2. CASE Learn(s)
      BY <1>8, <2>2 DEF Learn
    <2>3. CASE AbortSignal(s)
      BY <1>8, <2>3 DEF AbortSignal, handler
    <2>4. QED
      BY <1>8, <2>1, <2>2, <2>3
  <1>9. ASSUME NEW s \in Sends, ClientStep(s) \/ Disconnected(s)
        PROVE  Aborts'
    BY <1>9 DEF ClientStep, Receive, StreamEnds, ThreadsLoaded, Broken, Stopped, Disconnected, SendFails, handler
  <1>10. ASSUME NEW s \in Sends, Refused(s)
        PROVE  Aborts'
    BY <1>10 DEF Refused, SendFails
  <1>11. ASSUME NEW s \in Sends, NEW t \in Threads, NEW c \in Sends, NEW p \in BOOLEAN,
               Start(s, t, c, p)
        PROVE  Aborts'
    BY <1>11 DEF Start
  <1>12. ASSUME Crash
        PROVE  Aborts'
    BY <1>12 DEF Crash, rows, client, request, Running, Creating, InTry, InCatch
  <1>13. ASSUME Stop \/ Switch \/ MessagesLoaded
        PROVE  Aborts'
    BY <1>13 DEF Stop, Switch, MessagesLoaded, handler
  <1>14. QED
    BY <1>1, <1>2, <1>3, <1>4, <1>5, <1>6, <1>7, <1>8, <1>9, <1>10, <1>11, <1>12, <1>13, SendFacts DEF Next, Progress, HandlerStep

\* Every write of the turn is over before its answer is reported.
LEMMA OrderedStep ==
    ASSUME TypeOK, Unsent, FirstSent, Ordered, Next
    PROVE  Ordered'
  <1> USE DEF TypeOK, RowsOK, HandlerOK, ClientOK, HGoto, Returns,
          rows, client, request, Ordered, InTry
  <1>1. ASSUME NEW s \in Sends, InsertMessages(s) \/ InsertTurn(s) \/ LinkMessages(s) \/ ContextLoaded(s)
        PROVE  Ordered'
    BY <1>1 DEF InsertMessages, InsertTurn, LinkMessages, ContextLoaded, SetAnswer, SetTurn
  <1>2. ASSUME NEW s \in Sends, Intake(s) \/ AnswerAtOnce(s) \/ ContextReady(s)
        PROVE  Ordered'
    BY <1>2 DEF Intake, AnswerAtOnce, ContextReady
  <1>3. ASSUME NEW s \in Sends, MarkTurn(s) \/ MarkAnswer(s) \/ Delta(s) \/ EndOfText(s) \/ Cancelled(s)
        PROVE  Ordered'
    BY <1>3 DEF MarkTurn, MarkAnswer, Delta, EndOfText, Cancelled, SetTurn, SetAnswer
  <1>4. ASSUME NEW s \in Sends, CompleteAnswer(s) \/ CompleteTurn(s) \/ Report(s)
        PROVE  Ordered'
    BY <1>4 DEF CompleteAnswer, CompleteTurn, Report, SetTurn, SetAnswer
  <1>5. ASSUME NEW s \in Sends, Catch(s) \/ CancelTurn(s) \/ FailTurn(s)
        PROVE  Ordered'
    BY <1>5 DEF Catch, CancelTurn, FailTurn, SetTurn
  <1>6. ASSUME NEW s \in Sends, CancelAnswer(s) \/ FailAnswer(s)
        PROVE  Ordered'
    BY <1>6 DEF CancelAnswer, FailAnswer, SetAnswer
  <1>7. ASSUME NEW s \in Sends, HandlerFails(s)
        PROVE  Ordered'
    BY <1>7 DEF HandlerFails, CreateFails, ContextFails, TryFails, CatchFails, Creating, InTry, InCatch
  <1>8. ASSUME NEW s \in Sends, RetrievingWritten(s) \/ Learn(s) \/ AbortSignal(s)
        PROVE  Ordered'
    <2>1. CASE RetrievingWritten(s)
      BY <1>8, <2>1 DEF RetrievingWritten, SetTurn
    <2>2. CASE Learn(s)
      BY <1>8, <2>2 DEF Learn
    <2>3. CASE AbortSignal(s)
      BY <1>8, <2>3 DEF AbortSignal, handler
    <2>4. QED
      BY <1>8, <2>1, <2>2, <2>3
  <1>9. ASSUME NEW s \in Sends, ClientStep(s) \/ Disconnected(s)
        PROVE  Ordered'
    BY <1>9 DEF ClientStep, Receive, StreamEnds, ThreadsLoaded, Broken, Stopped, Disconnected, SendFails, handler
  <1>10. ASSUME NEW s \in Sends, Refused(s)
        PROVE  Ordered'
    BY <1>10 DEF Refused, SendFails
  <1>11. ASSUME NEW s \in Sends, NEW t \in Threads, NEW c \in Sends, NEW p \in BOOLEAN,
               Start(s, t, c, p)
        PROVE  Ordered'
    BY <1>11 DEF Start
  <1>12. ASSUME Crash
        PROVE  Ordered'
    BY <1>12 DEF Crash, rows, client, request, Running, Creating, InTry, InCatch
  <1>13. ASSUME Stop \/ Switch \/ MessagesLoaded
        PROVE  Ordered'
    BY <1>13 DEF Stop, Switch, MessagesLoaded, handler
  <1>14. QED
    BY <1>1, <1>2, <1>3, <1>4, <1>5, <1>6, <1>7, <1>8, <1>9, <1>10, <1>11, <1>12, <1>13, SendFacts DEF Next, Progress, HandlerStep

\* A send that is not made stays empty, and nothing is learned before the handler is over.
LEMMA UnsentStep ==
    ASSUME TypeOK, Unsent, FirstSent, Next
    PROVE  Unsent'
  <1> USE DEF TypeOK, RowsOK, HandlerOK, ClientOK, HGoto, Returns,
          rows, client, request, Unsent
  <1>1. ASSUME NEW s \in Sends, InsertMessages(s) \/ InsertTurn(s) \/ LinkMessages(s) \/ ContextLoaded(s)
        PROVE  Unsent'
    BY <1>1 DEF InsertMessages, InsertTurn, LinkMessages, ContextLoaded, SetAnswer, SetTurn
  <1>2. ASSUME NEW s \in Sends, Intake(s) \/ AnswerAtOnce(s) \/ ContextReady(s)
        PROVE  Unsent'
    <2>1. CASE Intake(s)
      BY <1>2, <2>1 DEF Intake
    <2>2. CASE AnswerAtOnce(s) \/ ContextReady(s)
      BY <1>2, <2>2 DEF AnswerAtOnce, ContextReady
    <2>3. QED
      BY <1>2, <2>1, <2>2
  <1>3. ASSUME NEW s \in Sends, MarkTurn(s) \/ MarkAnswer(s) \/ Delta(s) \/ EndOfText(s) \/ Cancelled(s)
        PROVE  Unsent'
    BY <1>3 DEF MarkTurn, MarkAnswer, Delta, EndOfText, Cancelled, SetTurn, SetAnswer
  <1>4. ASSUME NEW s \in Sends, CompleteAnswer(s) \/ CompleteTurn(s) \/ Report(s)
        PROVE  Unsent'
    BY <1>4 DEF CompleteAnswer, CompleteTurn, Report, SetTurn, SetAnswer
  <1>5. ASSUME NEW s \in Sends, Catch(s) \/ CancelTurn(s) \/ FailTurn(s)
        PROVE  Unsent'
    BY <1>5 DEF Catch, CancelTurn, FailTurn, SetTurn
  <1>6. ASSUME NEW s \in Sends, CancelAnswer(s) \/ FailAnswer(s)
        PROVE  Unsent'
    BY <1>6 DEF CancelAnswer, FailAnswer, SetAnswer
  <1>7. ASSUME NEW s \in Sends, HandlerFails(s)
        PROVE  Unsent'
    <2>1. CASE CreateFails(s)
      BY <1>7, <2>1 DEF CreateFails, Creating
    <2>2. CASE ContextFails(s)
      BY <1>7, <2>2 DEF ContextFails
    <2>3. CASE TryFails(s)
      BY <1>7, <2>3 DEF TryFails, InTry
    <2>4. CASE CatchFails(s)
      BY <1>7, <2>4 DEF CatchFails, InCatch
    <2>5. QED
      BY <1>7, <2>1, <2>2, <2>3, <2>4 DEF HandlerFails
  <1>8. ASSUME NEW s \in Sends, RetrievingWritten(s) \/ Learn(s) \/ AbortSignal(s)
        PROVE  Unsent'
    BY <1>8 DEF RetrievingWritten, Learn, AbortSignal, SetTurn, Running, Creating, InTry, InCatch, handler
  <1>9. ASSUME NEW s \in Sends, ClientStep(s) \/ Disconnected(s)
        PROVE  Unsent'
    BY <1>9 DEF ClientStep, Receive, StreamEnds, ThreadsLoaded, Broken, Stopped, Disconnected, SendFails, handler
  <1>10. ASSUME NEW s \in Sends, Refused(s)
        PROVE  Unsent'
    BY <1>10 DEF Refused, SendFails
  <1>11. ASSUME NEW s \in Sends, NEW t \in Threads, NEW c \in Sends, NEW p \in BOOLEAN,
               Start(s, t, c, p)
        PROVE  Unsent'
    BY <1>11 DEF Start
  <1>12. ASSUME Crash
        PROVE  Unsent'
    BY <1>12 DEF Crash, rows, client, request, Running, Creating, InTry, InCatch
  <1>13. ASSUME Stop \/ Switch \/ MessagesLoaded
        PROVE  Unsent'
    BY <1>13 DEF Stop, Switch, MessagesLoaded, handler
  <1>14. QED
    BY <1>1, <1>2, <1>3, <1>4, <1>5, <1>6, <1>7, <1>8, <1>9, <1>10, <1>11, <1>12, <1>13, SendFacts DEF Next, Progress, HandlerStep

\* Nothing writes to an answered turn.
LEMMA AnsweredStays ==
    ASSUME TypeOK, Unsent, FirstSent, Next, NEW q \in Sends, Answered(q)
    PROVE  Answered(q)'
  <1> USE DEF TypeOK, RowsOK, HandlerOK, ClientOK, HGoto, Returns,
          rows, client, request, Unsent, Answered, InTry
  <1>1. ASSUME NEW s \in Sends, InsertMessages(s) \/ InsertTurn(s) \/ LinkMessages(s) \/ ContextLoaded(s)
        PROVE  Answered(q)'
    BY <1>1 DEF InsertMessages, InsertTurn, LinkMessages, ContextLoaded, SetAnswer, SetTurn
  <1>2. ASSUME NEW s \in Sends, Intake(s) \/ AnswerAtOnce(s) \/ ContextReady(s)
        PROVE  Answered(q)'
    <2>1. CASE Intake(s)
      BY <1>2, <2>1 DEF Intake
    <2>2. CASE AnswerAtOnce(s) \/ ContextReady(s)
      BY <1>2, <2>2 DEF AnswerAtOnce, ContextReady
    <2>3. QED
      BY <1>2, <2>1, <2>2
  <1>3. ASSUME NEW s \in Sends, MarkTurn(s) \/ MarkAnswer(s) \/ Delta(s) \/ EndOfText(s) \/ Cancelled(s)
        PROVE  Answered(q)'
    BY <1>3 DEF MarkTurn, MarkAnswer, Delta, EndOfText, Cancelled, SetTurn, SetAnswer
  <1>4. ASSUME NEW s \in Sends, CompleteAnswer(s) \/ CompleteTurn(s) \/ Report(s)
        PROVE  Answered(q)'
    BY <1>4 DEF CompleteAnswer, CompleteTurn, Report, SetTurn, SetAnswer
  <1>5. ASSUME NEW s \in Sends, Catch(s) \/ CancelTurn(s) \/ FailTurn(s)
        PROVE  Answered(q)'
    BY <1>5 DEF Catch, CancelTurn, FailTurn, SetTurn
  <1>6. ASSUME NEW s \in Sends, CancelAnswer(s) \/ FailAnswer(s)
        PROVE  Answered(q)'
    BY <1>6 DEF CancelAnswer, FailAnswer, SetAnswer
  <1>7. ASSUME NEW s \in Sends, HandlerFails(s)
        PROVE  Answered(q)'
    <2>1. CASE CreateFails(s)
      BY <1>7, <2>1 DEF CreateFails, Creating
    <2>2. CASE ContextFails(s)
      BY <1>7, <2>2 DEF ContextFails
    <2>3. CASE TryFails(s)
      BY <1>7, <2>3 DEF TryFails, InTry
    <2>4. CASE CatchFails(s)
      BY <1>7, <2>4 DEF CatchFails, InCatch
    <2>5. QED
      BY <1>7, <2>1, <2>2, <2>3, <2>4 DEF HandlerFails
  <1>8. ASSUME NEW s \in Sends, RetrievingWritten(s) \/ Learn(s) \/ AbortSignal(s)
        PROVE  Answered(q)'
    BY <1>8 DEF RetrievingWritten, Learn, AbortSignal, SetTurn, Running, Creating, InTry, InCatch, handler
  <1>9. ASSUME NEW s \in Sends, ClientStep(s) \/ Disconnected(s)
        PROVE  Answered(q)'
    BY <1>9 DEF ClientStep, Receive, StreamEnds, ThreadsLoaded, Broken, Stopped, Disconnected, SendFails, handler
  <1>10. ASSUME NEW s \in Sends, Refused(s)
        PROVE  Answered(q)'
    BY <1>10 DEF Refused, SendFails
  <1>11. ASSUME NEW s \in Sends, NEW t \in Threads, NEW c \in Sends, NEW p \in BOOLEAN,
               Start(s, t, c, p)
        PROVE  Answered(q)'
    BY <1>11 DEF Start
  <1>12. ASSUME Crash
        PROVE  Answered(q)'
    BY <1>12 DEF Crash, rows, client, request, Running, Creating, InTry, InCatch
  <1>13. ASSUME Stop \/ Switch \/ MessagesLoaded
        PROVE  Answered(q)'
    BY <1>13 DEF Stop, Switch, MessagesLoaded, handler
  <1>14. QED
    BY <1>1, <1>2, <1>3, <1>4, <1>5, <1>6, <1>7, <1>8, <1>9, <1>10, <1>11, <1>12, <1>13, SendFacts DEF Next, Progress, HandlerStep

\* Only a report starts the learning, and only the learning adds to what is learned.
LEMMA LearnStep ==
    ASSUME TypeOK, Unsent, FirstSent, Next
    PROVE  \A q \in Sends :
              /\ lpc'[q] = "learn" => (lpc[q] = "learn" \/ Report(q)) /\ learned'[q] = learned[q]
              /\ learned'[q] = learned[q] \/ (lpc[q] = "learn" /\ learned'[q] = learned[q] + 1)
  <1> DEFINE LearnsRight == \A q \in Sends :
                         /\ lpc'[q] = "learn" => (lpc[q] = "learn" \/ Report(q)) /\ learned'[q] = learned[q]
                         /\ learned'[q] = learned[q] \/ (lpc[q] = "learn" /\ learned'[q] = learned[q] + 1)
  <1> SUFFICES LearnsRight
    OBVIOUS
  <1> USE DEF TypeOK, RowsOK, HandlerOK, ClientOK, HGoto, Returns,
          rows, client, request
  <1>1. ASSUME NEW s \in Sends, InsertMessages(s) \/ InsertTurn(s) \/ LinkMessages(s) \/ ContextLoaded(s)
        PROVE  LearnsRight
    BY <1>1 DEF InsertMessages, InsertTurn, LinkMessages, ContextLoaded, SetAnswer, SetTurn
  <1>2. ASSUME NEW s \in Sends, Intake(s) \/ AnswerAtOnce(s) \/ ContextReady(s)
        PROVE  LearnsRight
    <2>1. CASE Intake(s)
      BY <1>2, <2>1 DEF Intake
    <2>2. CASE AnswerAtOnce(s) \/ ContextReady(s)
      BY <1>2, <2>2 DEF AnswerAtOnce, ContextReady
    <2>3. QED
      BY <1>2, <2>1, <2>2
  <1>3. ASSUME NEW s \in Sends, MarkTurn(s) \/ MarkAnswer(s) \/ Delta(s) \/ EndOfText(s) \/ Cancelled(s)
        PROVE  LearnsRight
    BY <1>3 DEF MarkTurn, MarkAnswer, Delta, EndOfText, Cancelled, SetTurn, SetAnswer
  <1>4. ASSUME NEW s \in Sends, CompleteAnswer(s) \/ CompleteTurn(s) \/ Report(s)
        PROVE  LearnsRight
    BY <1>4 DEF CompleteAnswer, CompleteTurn, Report, SetTurn, SetAnswer
  <1>5. ASSUME NEW s \in Sends, Catch(s) \/ CancelTurn(s) \/ FailTurn(s)
        PROVE  LearnsRight
    BY <1>5 DEF Catch, CancelTurn, FailTurn, SetTurn
  <1>6. ASSUME NEW s \in Sends, CancelAnswer(s) \/ FailAnswer(s)
        PROVE  LearnsRight
    BY <1>6 DEF CancelAnswer, FailAnswer, SetAnswer
  <1>7. ASSUME NEW s \in Sends, HandlerFails(s)
        PROVE  LearnsRight
    <2>1. CASE CreateFails(s)
      BY <1>7, <2>1 DEF CreateFails, Creating
    <2>2. CASE ContextFails(s)
      BY <1>7, <2>2 DEF ContextFails
    <2>3. CASE TryFails(s)
      BY <1>7, <2>3 DEF TryFails, InTry
    <2>4. CASE CatchFails(s)
      BY <1>7, <2>4 DEF CatchFails, InCatch
    <2>5. QED
      BY <1>7, <2>1, <2>2, <2>3, <2>4 DEF HandlerFails
  <1>8. ASSUME NEW s \in Sends, RetrievingWritten(s) \/ Learn(s) \/ AbortSignal(s)
        PROVE  LearnsRight
    BY <1>8 DEF RetrievingWritten, Learn, AbortSignal, SetTurn, Running, Creating, InTry, InCatch, handler
  <1>9. ASSUME NEW s \in Sends, ClientStep(s) \/ Disconnected(s)
        PROVE  LearnsRight
    BY <1>9 DEF ClientStep, Receive, StreamEnds, ThreadsLoaded, Broken, Stopped, Disconnected, SendFails, handler
  <1>10. ASSUME NEW s \in Sends, Refused(s)
        PROVE  LearnsRight
    BY <1>10 DEF Refused, SendFails
  <1>11. ASSUME NEW s \in Sends, NEW t \in Threads, NEW c \in Sends, NEW p \in BOOLEAN,
               Start(s, t, c, p)
        PROVE  LearnsRight
    BY <1>11 DEF Start
  <1>12. ASSUME Crash
        PROVE  LearnsRight
    BY <1>12 DEF Crash, rows, client, request, Running, Creating, InTry, InCatch
  <1>13. ASSUME Stop \/ Switch \/ MessagesLoaded
        PROVE  LearnsRight
    BY <1>13 DEF Stop, Switch, MessagesLoaded, handler
  <1>14. QED
    BY <1>1, <1>2, <1>3, <1>4, <1>5, <1>6, <1>7, <1>8, <1>9, <1>10, <1>11, <1>12, <1>13, SendFacts DEF Next, Progress, HandlerStep

\* A report is made when both rows are written and no write is left.
LEMMA ReportAnswers ==
    ASSUME TypeOK, Ordered, NEW s \in Sends, Report(s)
    PROVE  Answered(s)'
  BY DEF Report, Returns, HGoto, Ordered, InTry, Answered, TypeOK, RowsOK, HandlerOK, rows

\* The page and the learning only hear of what is answered.
LEMMA HeardStep ==
    ASSUME TypeOK, Unsent, FirstSent, Aborts, Ordered, Heard, Next
    PROVE  Heard'
  <1> SUFFICES ASSUME NEW s \in Sends
               PROVE  /\ Has(wire'[s], "completed") \/ told'[s] = "completed" => Answered(s)'
                      /\ ~Has(wire'[s], "cancelled") /\ told'[s] # "cancelled"
                      /\ lpc'[s] = "learn" => Answered(s)' /\ learned'[s] = 0
                      /\ learned'[s] <= 1 /\ (learned'[s] = 1 => Answered(s)')
    BY DEF Heard, Has
  <1>1. Answered(s) => Answered(s)'
    BY AnsweredStays
  <1>2. Report(s) => Answered(s)' /\ lpc[s] = "idle" /\ learned[s] = 0
    BY ReportAnswers DEF Report, Unsent
  <1>3. Has(wire'[s], "completed") \/ told'[s] = "completed" => Answered(s)'
    BY <1>1, <1>2, WireStep, ToldStep DEF Heard
  <1>4. ~(CancelAnswer(s) /\ cpc[s] = "reading")
    BY DEF CancelAnswer, Aborts
  <1>5. ~Has(wire'[s], "cancelled") /\ told'[s] # "cancelled"
    BY <1>4, WireStep, ToldStep DEF Heard
  <1>6. /\ lpc'[s] = "learn" => (lpc[s] = "learn" \/ Report(s)) /\ learned'[s] = learned[s]
        /\ learned'[s] = learned[s] \/ (lpc[s] = "learn" /\ learned'[s] = learned[s] + 1)
    BY LearnStep
  <1>7. /\ lpc[s] = "learn" => Answered(s) /\ learned[s] = 0
        /\ learned[s] <= 1 /\ (learned[s] = 1 => Answered(s))
        /\ learned[s] \in Nat
    BY DEF Heard, TypeOK, RowsOK
  <1>8. lpc'[s] = "learn" => Answered(s)' /\ learned'[s] = 0
    BY <1>1, <1>2, <1>6, <1>7
  <1>9. learned'[s] <= 1 /\ (learned'[s] = 1 => Answered(s)')
    BY <1>1, <1>6, <1>7
  <1>10. QED
    BY <1>3, <1>5, <1>8, <1>9

-----------------------------------------------------------------------------
(* The theorems *)

\* The invariant holds initially.
LEMMA InitHolds == Init => IInv
  <1> SUFFICES ASSUME Init
               PROVE  IInv
    OBVIOUS
  <1>1. TypeOK
    <2>1. (CHOOSE t \in Threads : TRUE) \in Threads /\ 1 \in Sends
      BY ChatAssumption DEF Sends
    <2>2. RowsOK
      BY ChatAssumption DEF Init, RowsOK
    <2>6. HandlerOK
      BY DEF Init, HandlerOK, Running
    <2>7. PageOK
      <3>1. thread \in [Sends -> Threads]
        BY <2>1 DEF Init
      <3>2. thread[1] \in Threads
        BY <3>1, <2>1
      <3>3. QED
        <4>1. mishaps = MaxMishaps /\ moves = MaxMoves /\ shown = thread[1] /\ page = "ready"
          BY DEF Init
        <4>2. loading = FALSE /\ failed = None /\ abortRef = None
          BY DEF Init
        <4>3. mishaps \in 0..MaxMishaps /\ moves \in 0..MaxMoves
          BY <4>1, ChatAssumption
        <4>4. QED
          BY <3>2, <4>1, <4>2, <4>3 DEF PageOK
    <2>3. <<>> \in Seq(Events)
      OBVIOUS
    <2>4. ClientOK
      BY <2>1, <2>3 DEF Init, ClientOK
    <2>5. QED
      BY <2>2, <2>4, <2>6, <2>7 DEF TypeOK
  <1>2. Unsent /\ FirstSent /\ Kept
    BY DEF Init, Unsent, FirstSent, Kept
  <1>3. Aborts /\ Ordered
    BY DEF Init, Aborts, Ordered, InTry
  <1>4. Heard
    <2>1. \A s \in Sends : wire[s] = <<>> /\ told[s] = "none" /\ lpc[s] = "idle" /\ learned[s] = 0
      BY DEF Init
    <2>2. \A s \in Sends, e \in {"completed", "cancelled"} : ~Has(wire[s], e)
      BY <2>1 DEF Has
    <2>3. QED
      BY <2>1, <2>2 DEF Heard
  <1>5. QED
    BY <1>1, <1>2, <1>3, <1>4 DEF IInv

\* Every step keeps the invariant.
LEMMA StepHolds == IInv /\ [Next]_vars => IInv'
  <1> SUFFICES ASSUME IInv, [Next]_vars
               PROVE  IInv'
    OBVIOUS
  <1>1. CASE Next
    <2>1. TypeOK'
      BY <1>1, RowsType, HandlerType, ClientType DEF IInv, TypeOK
    <2>2. Unsent' /\ FirstSent' /\ Kept'
      BY <1>1, UnsentStep, FirstSentStep, KeptStep DEF IInv
    <2>3. Aborts' /\ Ordered' /\ Heard'
      BY <1>1, AbortsStep, OrderedStep, HeardStep DEF IInv
    <2>4. QED
      BY <2>1, <2>2, <2>3 DEF IInv
  <1>2. CASE UNCHANGED vars
    <2> USE DEF vars, rows, handler, client, request, ui, budget
    <2>1. TypeOK'
      BY <1>2 DEF IInv, TypeOK, RowsOK, HandlerOK, ClientOK, PageOK
    <2>2. Unsent' /\ FirstSent' /\ Kept' /\ Aborts' /\ Ordered'
      BY <1>2 DEF IInv, Unsent, FirstSent, Kept, Aborts, Ordered
    <2>3. Heard'
      BY <1>2 DEF IInv, Heard, Answered, Has
    <2>4. QED
      BY <2>1, <2>2, <2>3 DEF IInv
  <1>3. QED
    BY <1>1, <1>2

\* IInv is an invariant, for every number of messages, threads, failures and moves.
THEOREM Inductive == Spec => []IInv
<1>. QED BY InitHolds, StepHolds, PTL DEF Spec

\* Rows, handlers, events, sends and the page hold values their readers know.
THEOREM TypeCorrect == Spec => []TypeOK
<1>1. IInv => TypeOK BY DEF IInv
<1>. QED BY Inductive, <1>1, PTL

\* An answer the page was given is in both rows, and no later step of the turn,
\* of its retries or of a crash takes it back.
THEOREM AnswersAreStored == Spec => []ToldIsStored
<1>1. IInv => ToldIsStored BY DEF IInv, Heard, ToldIsStored, Answered
<1>. QED BY Inductive, <1>1, PTL

\* A message first sent as private leaves nothing behind, whichever send carries it.
THEOREM PrivateIsNotKept == Spec => []PrivateStaysPrivate
<1>1. IInv => PrivateStaysPrivate BY DEF IInv, FirstSent, Kept, PrivateStaysPrivate
<1>. QED BY Inductive, <1>1, PTL

\* Only a completed turn is learned from, and once.
THEOREM LearningIsEarned == Spec => []LearnedFromAnswers
<1>1. IInv => LearnedFromAnswers BY DEF IInv, Heard, LearnedFromAnswers, Answered
<1>. QED BY Inductive, <1>1, PTL
=============================================================================
