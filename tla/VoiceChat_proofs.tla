--------------------------- MODULE VoiceChat_proofs --------------------------
(***************************************************************************)
(* TypeOK is an invariant of VoiceChat for every number of events, faults, *)
(* sockets that hang and events that stray.  TakenOnce, MicIsHeld and      *)
(* WordsAreTheirs are invariants, and every step keeps EndsItsOwn: they    *)
(* promise something for as long as no event has strayed, which is to say  *)
(* begun where the page has not rendered the start of another, by a        *)
(* recognizer that was told to stop, on a page that was left, or past a    *)
(* ref which no longer leads to the turn that speaks.  After such an       *)
(* event TLC shows all four promises to be false.                          *)
(*                                                                         *)
(* None of the four is inductive.  Refs are shared by all events, so that  *)
(* an action of one event acts on whatever another has put there.  What    *)
(* keeps them apart is the page: words are awaited of one event at a time  *)
(* (OneCaptured), which is the event the page shows, and whose phase keeps *)
(* the Space key and the wake phrase from opening another (CaptureShown,   *)
(* Waiting); then its turn is the one that the page shows, and the ref by  *)
(* which a key press cuts it short leads to it or nowhere (TurnShown):     *)
(* an older turn, cut short, may still speak and empty it.                 *)
(***************************************************************************)
EXTENDS VoiceChat, TLAPS

Phases == Pressing \cup Working \cup Resting \cup {"speaking", "failed"}
Page == [phase : Phases, active : EventOrNone, heard : EventOrNone, answer : EventOrNone,
         thread : EventOrNone]

\* The page rests when no event is active, and the phrase is waited for at rest only.
Fit(u) ==
    /\ u \in Page
    /\ u.active = None <=> u.phase \in Resting \cup {"failed"}
    /\ u.phase = "armed_wake" => wakeOn

PageOK ==
    /\ Fit(ui) /\ Fit(seen)
    /\ mounted \in BOOLEAN /\ wakeOn \in BOOLEAN

CaptureOK ==
    /\ sess \in [Events -> {"unused", "asking", "token", "opening", "listening", "over"}]
    /\ mic = [e \in Events |-> mic[e]]
    /\ {fallback, transcriber, batchRef} \subseteq EventOrNone
    /\ batch \in [Events -> {"none", "recording", "stopped", "over"}]
    /\ stt \in [Events -> {"none", "open", "closing", "over"} \cup Settled]
    /\ chain \in [Events -> [event : EventOrNone, audio : BOOLEAN]]

\* What a session has before it listens, and on which of two ways it listens.
Refs ==
    /\ transcriber # None => /\ sess[transcriber] = "listening"
                             /\ stt[transcriber] \in {"open"} \cup Settled
    /\ fallback # None => mic[fallback] /\ batch[fallback] = "none"
    /\ \A e \in Events :
          /\ sess[e] # "listening" => chain[e] = Nothing /\ batch[e] = "none"
          /\ sess[e] \notin {"listening", "over"} => stt[e] = "none"
          /\ sess[e] \in {"unused", "asking"} => ~mic[e]
          /\ sess[e] = "over" => stt[e] \in {"none", "closing", "over"}
          /\ chain[e] # Nothing => chain[e].event # None /\ transcriber # e
          /\ batch[e] # "none" => chain[e] = Nothing /\ transcriber # e

ClocksOK ==
    /\ timers \subseteq Events /\ timerRef \in EventOrNone
    /\ strayed \subseteq Events /\ asked \subseteq Keys

Steps == {"upload", "thread", "token", "socket", "chat", "speech", "playing", "hung", "over"}
TurnsOK ==
    /\ turn \in [Events -> {"none"} \cup Steps]
    /\ room \in [Events -> EventOrNone] /\ taken \in [Events -> Nat]
    /\ abortRef \in EventOrNone /\ (abortRef # None => turn[abortRef] # "none")
    /\ aborted \cup audio \cup spoken \subseteq Events
    /\ \A e \in aborted \cup audio \cup spoken : turn[e] # "none"

IInv == PageOK /\ CaptureOK /\ Refs /\ ClocksOK /\ TurnsOK

-----------------------------------------------------------------------------
(* The parts of a step *)

\* Callbacks on the way to the words, their taking up, and those of the turn.
CaptureStep(e) ==
    \/ Granted(e) \/ Denied(e) \/ SessionCreated(e) \/ SocketOpens(e) \/ RealtimeFails(e)
    \/ SocketCloses(e) \/ Hears(e) \/ EndsEarly(e) \/ Finalized(e) \/ TimerFires(e)
    \/ WakeHeard(e)
TakeStep(e) == ActOnWords(e) \/ ActOnCopy(e) \/ BatchStops(e)
TurnStep(e) ==
    \/ Uploaded(e) \/ ThreadCreated(e) \/ VoiceCreated(e) \/ SpeechReady(e) \/ Delta(e)
    \/ AudioStarts(e) \/ ChatCompleted(e) \/ TurnFails(e) \/ SpeechDone(e) \/ SpeechHangs(e)
    \/ PlaybackEnds(e) \/ QueuePlayedOut(e)
PageStep ==
    \/ Commit \/ SettingsReady \/ KeyStop \/ KeyIgnored \/ RecognitionEnds
    \/ SessionRefreshed \/ Leave

LEMMA StepParts ==
    ASSUME [Next]_vars
    PROVE  \/ \E e \in Events : CaptureStep(e) \/ TakeStep(e) \/ TurnStep(e) \/ KeyStart(e)
           \/ PageStep
           \/ UNCHANGED vars
  BY DEF Next, Listening, Speaking, Otherwise, CaptureStep, TakeStep, TurnStep, PageStep

LEMMA CaptureLeaves ==
    ASSUME NEW e \in Events, CaptureStep(e)
    PROVE  UNCHANGED <<turns, mounted, wakeOn>>
  BY DEF CaptureStep, Granted, Denied, SessionCreated, SocketOpens, RealtimeFails, SocketCloses,
         Hears, EndsEarly, Finalized, TimerFires, WakeHeard

LEMMA TurnLeaves ==
    ASSUME NEW e \in Events, TurnStep(e)
    PROVE  UNCHANGED <<seen, recognition, capture, clocks, taken, mounted, wakeOn, history>>
  BY DEF TurnStep, Uploaded, ThreadCreated, VoiceCreated, SpeechReady, Delta, AudioStarts,
         ChatCompleted, TurnFails, SpeechDone, SpeechHangs, PlaybackEnds, QueuePlayedOut,
         Dispatch, reducer, turns

\* What is heard or answered is shown in the phase the page is in.
Alike(u) == u.phase = ui.phase /\ u.active = ui.active

LEMMA PageFacts ==
    ASSUME PageOK, room \in [Events -> EventOrNone], NEW e \in Events
    PROVE  /\ \A u \in {Heard(e), Answering(e), Answered(e)} : Fit(u) /\ Alike(u)
           /\ Fit(InPhase(e, "transcribing")) /\ Fit(InPhase(e, "speaking"))
           /\ Fit(Understood(e)) /\ Fit(RecordingStarted(e)) /\ Fit(Failed(e))
           /\ Fit(PermissionRequested(ui, e)) /\ Fit(PermissionRequested(Interrupted(e), e))
  <1> USE VoiceAssumption DEF PageOK, Fit, Page, Phases, Pressing, Working, Resting, EventOrNone,
                              Guarded, IsActive
  <1>1. Fit(Heard(e)) /\ Alike(Heard(e))
    BY DEF Heard, Alike
  <1>2. Fit(Answering(e)) /\ Alike(Answering(e))
    BY DEF Answering, Alike
  <1>3. Fit(Answered(e)) /\ Alike(Answered(e))
    BY DEF Answered, Alike
  <1>4. Fit(InPhase(e, "transcribing")) /\ Fit(InPhase(e, "speaking"))
    BY DEF InPhase
  <1>5. Fit(Understood(e))
    BY DEF Understood, Heard
  <1>6. Fit(RecordingStarted(e))
    BY DEF RecordingStarted
  <1>7. Fit(Failed(e))
    <2>1. CASE turn[e] = "chat"
      BY <2>1, ZenonT(30) DEF Failed
    <2>2. CASE turn[e] # "chat"
      BY <2>2, ZenonT(30) DEF Failed
    <2> QED
      BY <2>1, <2>2
  <1>8. Fit(PermissionRequested(ui, e)) /\ Fit(PermissionRequested(Interrupted(e), e))
    BY DEF PermissionRequested, Interrupted
  <1> QED
    BY <1>1, <1>2, <1>3, <1>4, <1>5, <1>6, <1>7, <1>8

LEMMA StillFacts ==
    ASSUME PageOK
    PROVE  Fit(SpeechEnded) /\ Fit(Stopping)
  BY VoiceAssumption, ZenonT(30)
     DEF PageOK, Fit, Page, Phases, Pressing, Working, Resting, EventOrNone, SpeechEnded, IdlePhase,
         Stopping, InPhase, Guarded, IsActive

-----------------------------------------------------------------------------
(* Types *)

LEMMA FitShown ==
    ASSUME PageOK, UNCHANGED <<seen, mounted, wakeOn>>, NEW u, Fit(u),
           ui' = IF mounted THEN u ELSE ui
    PROVE  PageOK'
  BY DEF PageOK, Fit

LEMMA PageKept ==
    ASSUME IInv, [Next]_vars
    PROVE  PageOK'
  <1> USE VoiceAssumption DEF IInv
  <1>1. ASSUME NEW e \in Events, CaptureStep(e)
        PROVE  PageOK'
    <2> UNCHANGED <<mounted, wakeOn>>
      BY <1>1, CaptureLeaves
    <2>1. CASE UNCHANGED <<ui, seen>>
      BY <2>1 DEF PageOK, Fit
    <2>3. CASE RealtimeFails(e)
      <3>1. (UNCHANGED reducer) \/ Dispatch(Failed(e))
        BY <2>3 DEF RealtimeFails, StartBatch
      <3> QED
        BY <2>1, <3>1, PageFacts, FitShown DEF reducer, Dispatch, TurnsOK
    <2>2. CASE Granted(e) \/ Denied(e) \/ Hears(e) \/ TimerFires(e) \/ WakeHeard(e)
      BY <2>2, PageFacts, StillFacts, FitShown
         DEF Granted, Denied, Hears, TimerFires, WakeHeard, Dispatch, TurnsOK
    <2> QED
      BY <1>1, <2>1, <2>2, <2>3 DEF CaptureStep, SessionCreated, SocketOpens, SocketCloses,
         EndsEarly, Finalized, reducer
  <1>2. ASSUME NEW t \in Events, ActOnWords(t) \/ ActOnCopy(t)
        PROVE  PageOK'
    <2>1. PICK e \in Events : e = chain[t].event
      BY <1>2 DEF ActOnWords, ActOnCopy, CaptureOK, EventOrNone
    <2>2. PICK u \in {Understood(e), InPhase(e, "transcribing"), Failed(e)} :
            Dispatch(u) /\ UNCHANGED <<mounted, wakeOn>>
      BY <1>2, <2>1 DEF ActOnWords, ActOnCopy
    <2> QED
      BY <2>2, PageFacts, FitShown DEF Dispatch, TurnsOK
  <1>3. ASSUME NEW e \in Events, BatchStops(e)
        PROVE  PageOK'
    BY <1>3, PageFacts, FitShown DEF BatchStops, Dispatch, TurnsOK
  <1>4. ASSUME NEW e \in Events, TurnStep(e)
        PROVE  PageOK'
    <2> UNCHANGED <<seen, mounted, wakeOn>>
      BY <1>4, TurnLeaves
    <2>1. CASE UNCHANGED ui
      BY <2>1 DEF PageOK, Fit
    <2>2. CASE \/ Uploaded(e) \/ Delta(e) \/ AudioStarts(e) \/ ChatCompleted(e) \/ TurnFails(e)
               \/ PlaybackEnds(e)
      <3>1. PICK u \in {Understood(e), Answering(e), InPhase(e, "speaking"), Answered(e),
                        Failed(e), SpeechEnded, ui} : Dispatch(u)
        BY <2>2 DEF Uploaded, Delta, AudioStarts, ChatCompleted, TurnFails, PlaybackEnds
      <3> QED
        BY <3>1, PageFacts, StillFacts, FitShown DEF Dispatch, TurnsOK, PageOK
    <2> QED
      BY <1>4, <2>1, <2>2 DEF TurnStep, ThreadCreated, VoiceCreated, SpeechReady, SpeechDone,
         SpeechHangs, QueuePlayedOut, reducer
  <1>5. ASSUME NEW e \in Events, KeyStart(e)
        PROVE  PageOK'
    BY <1>5, PageFacts DEF KeyStart, Render, TurnsOK, PageOK, Fit
  <1>6. CASE PageStep
    <2>1. CASE Commit \/ KeyStop \/ KeyIgnored
      BY <2>1, StillFacts DEF Commit, KeyStop, KeyIgnored, Render, PageOK, Fit
    <2>2. CASE SettingsReady
      BY <2>2 DEF SettingsReady, Dispatch, PageOK, Fit, Page, Phases, Resting
    <2>3. CASE RecognitionEnds \/ SessionRefreshed \/ Leave
      BY <2>3 DEF RecognitionEnds, SessionRefreshed, Leave, PageOK, Fit
    <2> QED
      BY <1>6, <2>1, <2>2, <2>3 DEF PageStep
  <1>7. CASE UNCHANGED vars
    BY <1>7 DEF vars, reducer, PageOK, Fit
  <1> QED
    BY <1>1, <1>2, <1>3, <1>4, <1>5, <1>6, <1>7, StepParts DEF TakeStep

LEMMA ClocksKept ==
    ASSUME IInv, [Next]_vars
    PROVE  ClocksOK'
  <1> USE VoiceAssumption DEF IInv, ClocksOK, EventOrNone, Events, clocks, history, Strays
  <1>1. ASSUME NEW e \in Events, CaptureStep(e)
        PROVE  ClocksOK'
    BY <1>1 DEF CaptureStep, Granted, Denied, SessionCreated, SocketOpens, RealtimeFails,
       SocketCloses, Hears, EndsEarly, Finalized, TimerFires, WakeHeard, StartBatch, ScheduleStop,
       StopRecording
  <1>2. ASSUME NEW e \in Events, TakeStep(e) \/ KeyStart(e)
        PROVE  ClocksOK'
    BY <1>2 DEF TakeStep, ActOnWords, ActOnCopy, BatchStops, KeyStart
  <1>3. ASSUME NEW e \in Events, TurnStep(e)
        PROVE  ClocksOK'
    BY <1>3, TurnLeaves
  <1>4. CASE PageStep
    BY <1>4 DEF PageStep, Commit, SettingsReady, KeyStop, KeyIgnored, RecognitionEnds,
       SessionRefreshed, Leave, DropStop, StopRecording
  <1>5. CASE UNCHANGED vars
    BY <1>5 DEF vars
  <1> QED
    BY <1>1, <1>2, <1>3, <1>4, <1>5, StepParts

\* The words of a transcriber are taken up in the name of an event.
LEMMA WordsFacts ==
    ASSUME IInv, NEW t \in Events, ActOnWords(t) \/ ActOnCopy(t)
    PROVE  /\ chain[t].event \in Events
           /\ stt' = [stt EXCEPT ![t] = "over"] /\ chain' = [chain EXCEPT ![t] = Nothing]
           /\ UNCHANGED <<sess, mic, fallback, transcriber, batchRef, batch>>
  BY DEF ActOnWords, ActOnCopy, IInv, CaptureOK, EventOrNone

\* What stopping does, whoever asks for it: the recorder stops, the transcriber's
\* microphone goes off, and its words will be for the event of the last render.
LEMMA StopFacts ==
    ASSUME CaptureOK, PageOK, NEW f, StopRecording(f)
    PROVE  /\ transcriber' = None /\ UNCHANGED <<sess, batchRef>>
           /\ batch' = [b \in Events |-> IF b = batchRef /\ batch[b] = "recording"
                                         THEN "stopped" ELSE batch[b]]
           /\ transcriber = None => UNCHANGED <<mic, fallback, stt, chain>>
           /\ transcriber # None =>
                 /\ mic' = [mic EXCEPT ![transcriber] = FALSE] /\ fallback' = None
                 /\ \/ /\ seen.active = None /\ UNCHANGED chain
                       /\ stt' = [stt EXCEPT ![transcriber] = "over"]
                    \/ /\ seen.active # None /\ UNCHANGED stt
                       /\ \E a \in BOOLEAN :
                             chain' = [chain EXCEPT ![transcriber] =
                                          [event |-> seen.active, audio |-> a]]
  <1>1. (fallback # None) \in BOOLEAN
    OBVIOUS
  <1>2. \A b \in Events : b \in BatchRunning <=> b = batchRef /\ batch[b] = "recording"
    BY VoiceAssumption DEF BatchRunning, CaptureOK, EventOrNone
  <1>3. batch' = [b \in Events |-> IF b = batchRef /\ batch[b] = "recording"
                                  THEN "stopped" ELSE batch[b]]
    BY <1>2 DEF StopRecording
  <1>4. CASE transcriber = None
    BY <1>3, <1>4 DEF StopRecording
  <1>5. CASE transcriber # None /\ seen.active = None
    BY <1>3, <1>5 DEF StopRecording
  <1>6. CASE transcriber # None /\ seen.active # None
    <2>1. chain' = [chain EXCEPT ![transcriber] = [event |-> seen.active, audio |-> fallback # None]]
      BY <1>6 DEF StopRecording
    <2> HIDE <1>1
    <2>2. \E a \in BOOLEAN :
             chain' = [chain EXCEPT ![transcriber] = [event |-> seen.active, audio |-> a]]
      BY <1>1, <2>1
    <2> QED
      BY <1>3, <1>6, <2>2 DEF StopRecording
  <1> QED
    BY <1>4, <1>5, <1>6

LEMMA StopKeepsKinds ==
    ASSUME CaptureOK, PageOK, NEW f, StopRecording(f)
    PROVE  CaptureOK'
  <1> USE VoiceAssumption DEF CaptureOK, EventOrNone
  <1> seen.active \in EventOrNone
    BY DEF PageOK, Fit, Page
  <1>1. chain' \in [Events -> [event : EventOrNone, audio : BOOLEAN]]
    BY StopFacts
  <1>2. stt' \in [Events -> {"none", "open", "closing", "over"} \cup Settled]
    BY StopFacts
  <1> QED
    BY <1>1, <1>2, StopFacts

LEMMA CaptureKept ==
    ASSUME IInv, [Next]_vars
    PROVE  CaptureOK'
  <1> USE VoiceAssumption DEF IInv, CaptureOK, EventOrNone, Settled, Nothing, capture
  <1> seen.active \in EventOrNone
    BY DEF PageOK, Fit, Page
  <1>1. ASSUME NEW e \in Events, CaptureStep(e)
        PROVE  CaptureOK'
    <2>1. CASE Granted(e) \/ Denied(e) \/ SessionCreated(e) \/ Hears(e) \/ WakeHeard(e)
      BY <2>1 DEF Granted, Denied, SessionCreated, Hears, WakeHeard, BeginSession
    <2>2. CASE SocketOpens(e) \/ Finalized(e)
      BY <2>2 DEF SocketOpens, Finalized
    <2>3. CASE RealtimeFails(e)
      BY <2>3 DEF RealtimeFails, StartBatch
    <2>4. CASE SocketCloses(e)
      BY <2>4 DEF SocketCloses, EndTracks
    <2>6. CASE EndsEarly(e)
      BY <2>6 DEF EndsEarly, EndTracks
    <2>5. CASE TimerFires(e)
      BY <2>5, StopKeepsKinds DEF TimerFires
    <2> QED
      BY <1>1, <2>1, <2>2, <2>3, <2>4, <2>5, <2>6 DEF CaptureStep
  <1>2. ASSUME NEW e \in Events, TakeStep(e)
        PROVE  CaptureOK'
    <2>1. CASE BatchStops(e)
      BY <2>1 DEF BatchStops
    <2>2. CASE ActOnWords(e) \/ ActOnCopy(e)
      <3>1. /\ stt' = [stt EXCEPT ![e] = "over"] /\ chain' = [chain EXCEPT ![e] = Nothing]
            /\ UNCHANGED <<sess, mic, fallback, transcriber, batchRef, batch>>
        BY <2>2, WordsFacts
      <3>2. Nothing \in [event : EventOrNone, audio : BOOLEAN]
        OBVIOUS
      <3> QED
        BY <3>1, <3>2
    <2> QED
      BY <1>2, <2>1, <2>2 DEF TakeStep
  <1>3. ASSUME NEW e \in Events, TurnStep(e)
        PROVE  CaptureOK'
    BY <1>3, TurnLeaves
  <1>4. ASSUME NEW e \in Events, KeyStart(e)
        PROVE  CaptureOK'
    BY <1>4 DEF KeyStart, BeginSession
  <1>5. CASE PageStep
    <2>1. CASE Leave
      BY <2>1 DEF Leave
    <2> QED
      BY <1>5, <2>1, StopKeepsKinds DEF PageStep, Commit, SettingsReady, KeyStop, KeyIgnored,
         RecognitionEnds, SessionRefreshed
  <1>6. CASE UNCHANGED vars
    BY <1>6 DEF vars
  <1> QED
    BY <1>1, <1>2, <1>3, <1>4, <1>5, <1>6, StepParts

LEMMA RefsStutter ==
    ASSUME Refs, UNCHANGED capture
    PROVE  Refs'
  BY DEF Refs, capture

LEMMA StopKeepsRefs ==
    ASSUME CaptureOK, PageOK, Refs, NEW f, StopRecording(f)
    PROVE  Refs'
  <1> USE VoiceAssumption DEF CaptureOK, Refs, EventOrNone
  <1>1. CASE transcriber = None
    BY <1>1, StopFacts
  <1>2. CASE transcriber # None
    <2>1. \A e \in Events : chain'[e] # chain[e] =>
             e = transcriber /\ seen.active # None /\ chain'[e].event = seen.active
      BY <1>2, StopFacts
    <2>2. \A e \in Events : e # transcriber => mic'[e] = mic[e] /\ stt'[e] = stt[e]
      BY <1>2, StopFacts
    <2> QED
      BY <1>2, <2>1, <2>2, StopFacts
  <1> QED
    BY <1>1, <1>2

LEMMA RefsKept ==
    ASSUME IInv, [Next]_vars
    PROVE  Refs'
  <1> USE VoiceAssumption DEF IInv, CaptureOK, Refs, EventOrNone, Settled, Nothing
  <1>1. ASSUME NEW e \in Events, CaptureStep(e)
        PROVE  Refs'
    <2>1. CASE Granted(e)
      BY <2>1 DEF Granted
    <2>7. CASE Denied(e)
      BY <2>7 DEF Denied
    <2>10. CASE SessionCreated(e)
      BY <2>10 DEF SessionCreated
    <2>11. CASE WakeHeard(e)
      BY <2>11 DEF WakeHeard, BeginSession
    <2>2. CASE SocketOpens(e)
      BY <2>2 DEF SocketOpens
    <2>8. CASE Finalized(e)
      BY <2>8 DEF Finalized
    <2>3. CASE RealtimeFails(e)
      BY <2>3 DEF RealtimeFails, StartBatch
    <2>4. CASE SocketCloses(e)
      BY <2>4 DEF SocketCloses, EndTracks
    <2>9. CASE EndsEarly(e)
      <3>1. PICK outcome \in Settled : stt' = [stt EXCEPT ![e] = outcome]
        BY <2>9 DEF EndsEarly
      <3>2. \/ EndTracks({e})
            \/ UNCHANGED <<mic, batch, fallback>>
        BY <2>9 DEF EndsEarly
      <3>3. stt[e] = "open" /\ UNCHANGED <<sess, transcriber, chain>>
        BY <2>9 DEF EndsEarly
      <3>4. CASE EndTracks({e})
        BY <3>1, <3>3, <3>4 DEF EndTracks
      <3>5. CASE UNCHANGED <<mic, batch, fallback>>
        BY <3>1, <3>3, <3>5
      <3> QED
        BY <3>2, <3>4, <3>5
    <2>5. CASE TimerFires(e)
      BY <2>5, StopKeepsRefs DEF TimerFires
    <2>6. CASE Hears(e)
      BY <2>6, RefsStutter DEF Hears
    <2> QED
      BY <1>1, <2>1, <2>2, <2>3, <2>4, <2>5, <2>6, <2>7, <2>8, <2>9, <2>10, <2>11
         DEF CaptureStep
  <1>2. ASSUME NEW t \in Events, ActOnWords(t) \/ ActOnCopy(t)
        PROVE  Refs'
    <2>1. chain[t] # Nothing
      BY <1>2 DEF ActOnWords, ActOnCopy
    <2>2. /\ stt' = [stt EXCEPT ![t] = "over"] /\ chain' = [chain EXCEPT ![t] = Nothing]
          /\ UNCHANGED <<sess, mic, fallback, transcriber, batchRef, batch>>
      BY <1>2, WordsFacts
    <2> QED
      BY <2>1, <2>2
  <1>3. ASSUME NEW e \in Events, BatchStops(e)
        PROVE  Refs'
    BY <1>3 DEF BatchStops
  <1>4. ASSUME NEW e \in Events, TurnStep(e)
        PROVE  Refs'
    BY <1>4, TurnLeaves, RefsStutter
  <1>5. ASSUME NEW e \in Events, KeyStart(e)
        PROVE  Refs'
    BY <1>5 DEF KeyStart, BeginSession, Unused
  <1>6. CASE PageStep
    <2>1. CASE Leave
      BY <2>1 DEF Leave, BatchRunning
    <2>2. CASE KeyStop
      BY <2>2, StopKeepsRefs DEF KeyStop
    <2>3. CASE UNCHANGED capture
      BY <2>3, RefsStutter
    <2> QED
      BY <1>6, <2>1, <2>2, <2>3 DEF PageStep, Commit, SettingsReady, KeyIgnored, RecognitionEnds,
         SessionRefreshed
  <1>7. CASE UNCHANGED vars
    BY <1>7, RefsStutter DEF vars
  <1> QED
    BY <1>1, <1>2, <1>3, <1>4, <1>5, <1>6, <1>7, StepParts DEF TakeStep

LEMMA AbortKeeps ==
    ASSUME TurnsOK, Abort, abortRef' \in {abortRef, None}, UNCHANGED <<spoken, room, taken>>
    PROVE  TurnsOK'
  BY VoiceAssumption DEF TurnsOK, Steps, EventOrNone, Abort, CutShort

LEMMA TurnsKept ==
    ASSUME IInv, [Next]_vars
    PROVE  TurnsOK'
  <1> USE VoiceAssumption DEF IInv, TurnsOK, Steps, EventOrNone, turns
  <1> seen.thread \in EventOrNone
    BY DEF PageOK, Fit, Page
  <1>1. ASSUME NEW e \in Events, CaptureStep(e)
        PROVE  TurnsOK'
    BY <1>1, CaptureLeaves
  <1>2. ASSUME NEW t \in Events, ActOnWords(t) \/ ActOnCopy(t)
        PROVE  TurnsOK'
    <2>1. PICK e \in Events : e = chain[t].event
      BY <1>2, WordsFacts
    <2>2. CASE ActOnWords(t)
      BY <2>1, <2>2 DEF ActOnWords, StartTurn, TurnTo, Taken
    <2>3. CASE ActOnCopy(t)
      BY <2>1, <2>3 DEF ActOnCopy, TurnTo, Taken
    <2> QED
      BY <1>2, <2>2, <2>3
  <1>3. ASSUME NEW e \in Events, BatchStops(e)
        PROVE  TurnsOK'
    BY <1>3 DEF BatchStops, TurnTo, Taken
  <1>4. ASSUME NEW e \in Events, TurnStep(e)
        PROVE  TurnsOK'
    <2> USE DEF TurnTo, GivesUp
    <2>1. CASE Uploaded(e) \/ ThreadCreated(e) \/ VoiceCreated(e)
      BY <2>1 DEF Uploaded, StartTurn, ThreadCreated, VoiceCreated
    <2>2. CASE SpeechReady(e) \/ Delta(e) \/ AudioStarts(e) \/ ChatCompleted(e)
      BY <2>2 DEF SpeechReady, Delta, AudioStarts, ChatCompleted
    <2>3. CASE TurnFails(e)
      BY <2>3 DEF TurnFails
    <2>4. CASE SpeechDone(e) \/ SpeechHangs(e) \/ PlaybackEnds(e) \/ QueuePlayedOut(e)
      BY <2>4 DEF SpeechDone, SpeechHangs, PlaybackEnds, QueuePlayedOut
    <2> QED
      BY <1>4, <2>1, <2>2, <2>3, <2>4 DEF TurnStep
  <1>5. ASSUME NEW e \in Events, KeyStart(e)
        PROVE  TurnsOK'
    <2>1. UNCHANGED <<spoken, room, taken>>
      BY <1>5 DEF KeyStart
    <2>2. CASE Abort /\ abortRef' \in {abortRef, None}
      BY <2>1, <2>2, AbortKeeps
    <2>3. CASE UNCHANGED <<turn, abortRef, aborted, audio>>
      BY <2>1, <2>3
    <2> QED
      BY <1>5, <2>2, <2>3 DEF KeyStart
  <1>6. CASE PageStep
    BY <1>6, AbortKeeps DEF PageStep, Commit, SettingsReady, KeyStop, KeyIgnored, RecognitionEnds,
       SessionRefreshed, Leave
  <1>7. CASE UNCHANGED vars
    BY <1>7 DEF vars
  <1> QED
    BY <1>1, <1>2, <1>3, <1>4, <1>5, <1>6, <1>7, StepParts DEF TakeStep

-----------------------------------------------------------------------------
(* The invariant *)

LEMMA InitShown ==
    ASSUME Init
    PROVE  IInv
  <1> USE VoiceAssumption DEF Init, EventOrNone
  <1>1. PageOK
    BY DEF PageOK, Fit, Page, Phases, Resting
  <1>2. CaptureOK /\ Refs
    BY DEF CaptureOK, Refs, Nothing
  <1>3. ClocksOK /\ TurnsOK
    BY DEF ClocksOK, TurnsOK
  <1> QED
    BY <1>1, <1>2, <1>3 DEF IInv

LEMMA StepKept ==
    ASSUME IInv, [Next]_vars
    PROVE  IInv'
  BY PageKept, CaptureKept, RefsKept, ClocksKept, TurnsKept DEF IInv

\* The inductive invariant, for every number of events, faults and hanging sockets:
\* what the page may show, what a session has on its way to the words, and which turns
\* can be aborted.
THEOREM Inductive == Spec => []IInv
<1>1. Init => IInv
  BY InitShown
<1>2. IInv /\ [Next]_vars => IInv'
  BY StepKept
<1>3. QED
  BY <1>1, <1>2, PTL DEF Spec

\* The refs hold what runs, a recorder on a live stream and a transcriber that was not
\* stopped, although every event empties and fills them (use-homepage-voice-chat.ts).
THEOREM TypeCorrect == Spec => []TypeOK
<1>1. IInv => TypeOK
  BY DEF IInv, PageOK, Fit, Page, CaptureOK, ClocksOK, TurnsOK, Refs, TypeOK, EventOrNone
<1>2. QED
  BY <1>1, Inductive, PTL

-----------------------------------------------------------------------------
(* The page keeps the events apart *)

\* The recognizer is on while the phrase is waited for, and nothing else is going on.
Waiting ==
    recognition = "on" => seen.phase = "armed_wake" /\ (mounted => ui.phase = "armed_wake")

\* Only a turn that has come to a request can be aborted.
Begun == {"none", "upload", "thread"}
Abortable ==
    /\ abortRef # None => turn[abortRef] \notin Begun
    /\ \A e \in aborted : turn[e] \notin Begun

Recording(e) == transcriber = e \/ batch[e] \in {"recording", "stopped"}
Capturing(e) == Starting(e) \/ Recording(e) \/ chain[e] # Nothing

\* Of one event at a time words are to come; they have not been taken up.
OneCaptured ==
    /\ \A e, f \in Events : Capturing(e) /\ Capturing(f) => e = f
    /\ \A e \in Events : Capturing(e) => /\ turn[e] = "none" /\ taken[e] = 0
                                         /\ seen.active \in {None, e}
    /\ \A e \in Events : sess[e] = "unused" => turn[e] = "none" /\ taken[e] = 0

\* What the page shows of it.
CaptureShown ==
    mounted => \A e \in Events :
        /\ Capturing(e) => ui.active = e
        /\ sess[e] = "asking" => ui.phase = "requesting_permission"
        /\ sess[e] \in {"token", "opening"} \/ Recording(e) => ui.phase = "recording_push_to_talk"
        /\ chain[e] # Nothing => ui.phase = "transcribing"
        /\ Recording(e) \/ chain[e] # Nothing =>
              seen.active = e /\ seen.phase \in {"recording_push_to_talk", "transcribing"}

Going(e) == turn[e] \notin {"none", "over"} /\ e \notin aborted

\* What the page shows of a turn that was not aborted.
TurnShown ==
    mounted => \A e \in Events : Going(e) =>
        /\ ui.active = e /\ seen.active = e
        /\ ui.phase = IF turn[e] = "upload" THEN "transcribing"
                      ELSE IF e \in spoken THEN "speaking" ELSE "thinking"
        /\ seen.phase \in {"recording_push_to_talk", "transcribing", "thinking"}
                             \cup (IF e \in spoken THEN {"speaking"} ELSE {})
        /\ turn[e] \in {"upload", "thread", "token", "socket"} => e \notin spoken
        \* the ref leads to no other turn, though another may have emptied it
        /\ turn[e] \notin Begun => abortRef \in {e, None}

OneVoice ==
    /\ Waiting /\ Abortable /\ OneCaptured /\ CaptureShown /\ TurnShown
    /\ AllOnce /\ AllHeld /\ AllTheirs

\* Words are taken up for the event they are awaited of, which then has none to come.
LEMMA TakeFacts ==
    ASSUME IInv, OneCaptured, AllTheirs, NEW t \in Events, TakeStep(t)
    PROVE  /\ Capturing(t) /\ ~Starting(t) /\ ~Capturing(t)'
           /\ \A f \in Events : f # t => chain'[f] = chain[f] /\ batch'[f] = batch[f]
           /\ \A f \in Events : mic'[f] => mic[f]
           /\ UNCHANGED <<seen, recognition, sess, transcriber, aborted, spoken, mounted, wakeOn>>
           /\ \/ Dispatch(Understood(t)) /\ StartTurn(t) /\ Taken(t)
              \/ /\ Dispatch(InPhase(t, "transcribing")) /\ TurnTo(t, "upload") /\ Taken(t)
                 /\ UNCHANGED abortRef
              \/ Dispatch(Failed(t)) /\ UNCHANGED <<turn, taken, abortRef>>
  <1> USE VoiceAssumption DEF IInv, CaptureOK, Refs
  <1>1. CASE BatchStops(t)
    <2>1. batch[t] = "stopped" /\ sess[t] = "listening" /\ chain[t] = Nothing /\ transcriber # t
      BY <1>1 DEF BatchStops
    <2>2. batch'[t] = "over" /\ UNCHANGED <<sess, chain, transcriber>>
      BY <1>1 DEF BatchStops
    <2>3. Capturing(t) /\ ~Starting(t) /\ ~Capturing(t)'
      BY <2>1, <2>2 DEF Capturing, Starting, Recording
    <2>4. \A f \in Events : (mic'[f] => mic[f]) /\ (f # t => batch'[f] = batch[f])
      BY <1>1 DEF BatchStops
    <2> QED
      BY <1>1, <2>2, <2>3, <2>4 DEF BatchStops, Dispatch
  <1>2. CASE ActOnWords(t) \/ ActOnCopy(t)
    <2>1. chain[t].event = t /\ chain[t] # Nothing
      BY <1>2, WordsFacts DEF AllTheirs, ActOnWords, ActOnCopy, Nothing
    <2>2. sess[t] = "listening" /\ batch[t] = "none" /\ transcriber # t
      BY <2>1
    <2>3. /\ chain' = [chain EXCEPT ![t] = Nothing]
          /\ UNCHANGED <<sess, mic, transcriber, batch>>
      BY <1>2, WordsFacts
    <2>4. Capturing(t) /\ ~Starting(t) /\ ~Capturing(t)'
      BY <2>1, <2>2, <2>3 DEF Capturing, Starting, Recording
    <2>5. \A f \in Events : f # t => chain'[f] = chain[f]
      BY <2>3
    <2>6. CASE ActOnWords(t)
      BY <2>1, <2>3, <2>4, <2>5, <2>6 DEF ActOnWords, Dispatch
    <2>7. CASE ActOnCopy(t)
      BY <2>1, <2>3, <2>4, <2>5, <2>7 DEF ActOnCopy, Dispatch
    <2> QED
      BY <1>2, <2>6, <2>7
  <1> QED
    BY <1>1, <1>2 DEF TakeStep

\* A callback of a turn acts on one that was begun and is not over.
LEMMA TurnMoves ==
    ASSUME TurnsOK, NEW e \in Events, TurnStep(e)
    PROVE  /\ turn[e] \notin {"none", "over"} /\ turn'[e] # "none"
           /\ \A f \in Events : f # e => turn'[f] = turn[f]
  BY DEF TurnsOK, Steps, TurnStep, Uploaded, StartTurn, ThreadCreated, VoiceCreated, SpeechReady,
     Delta, AudioStarts, ChatCompleted, TurnFails, SpeechDone, SpeechHangs, PlaybackEnds,
     QueuePlayedOut, GivesUp, TurnTo, turns

\* Then the page shows what has become of it, as the only event of which words were to come.
LEMMA TakeShown ==
    ASSUME IInv, OneVoice, NEW t \in Events, TakeStep(t)
    PROVE  /\ Capturing(t) /\ sess[t] # "unused" /\ turn[t] = "none" /\ taken[t] = 0
           /\ \A f \in Events : ~Capturing(f)'
           /\ \A f \in Events : f # t => turn'[f] = turn[f] /\ taken'[f] = taken[f]
           /\ mounted =>
                 \/ /\ ui'.active = t /\ ui'.phase = "thinking" /\ StartTurn(t)
                    /\ turn'[t] = IF seen.thread = None THEN "thread" ELSE "token"
                    /\ abortRef' = IF seen.thread = None THEN abortRef ELSE t
                 \/ /\ ui'.active = t /\ ui'.phase = "transcribing"
                    /\ turn'[t] = "upload" /\ UNCHANGED abortRef
                 \/ /\ ui'.active = None /\ ui'.phase = "failed"
                    /\ UNCHANGED <<turn, taken, abortRef>>
  <1>1. Capturing(t) /\ ~Starting(t) /\ ~Capturing(t)' /\ turn[t] = "none" /\ taken[t] = 0
    BY TakeFacts DEF OneVoice, OneCaptured
  <1>2. sess[t] # "unused"
    BY <1>1, VoiceAssumption DEF Capturing, Starting, Recording, IInv, Refs
  <1>3. \A f \in Events : ~Capturing(f)'
    <2> TAKE f \in Events
    <2>1. CASE f = t
      BY <1>1, <2>1
    <2>2. CASE f # t
      <3>1. ~Capturing(f)
        BY <1>1, <2>2 DEF OneVoice, OneCaptured
      <3>2. chain'[f] = chain[f] /\ batch'[f] = batch[f] /\ UNCHANGED <<sess, transcriber>>
        BY <2>2, TakeFacts DEF OneVoice
      <3> QED
        BY <3>1, <3>2 DEF Capturing, Starting, Recording
    <2> QED
      BY <2>1, <2>2
  <1>4. \/ Dispatch(Understood(t)) /\ StartTurn(t) /\ Taken(t)
        \/ /\ Dispatch(InPhase(t, "transcribing")) /\ TurnTo(t, "upload") /\ Taken(t)
           /\ UNCHANGED abortRef
        \/ Dispatch(Failed(t)) /\ UNCHANGED <<turn, taken, abortRef>>
    BY TakeFacts DEF OneVoice
  <1>5. \A f \in Events : f # t => turn'[f] = turn[f] /\ taken'[f] = taken[f]
    BY <1>4 DEF IInv, TurnsOK, StartTurn, TurnTo, Taken
  <1>6. ASSUME mounted
        PROVE  \/ /\ ui'.active = t /\ ui'.phase = "thinking" /\ StartTurn(t)
                  /\ turn'[t] = IF seen.thread = None THEN "thread" ELSE "token"
                  /\ abortRef' = IF seen.thread = None THEN abortRef ELSE t
               \/ /\ ui'.active = t /\ ui'.phase = "transcribing"
                  /\ turn'[t] = "upload" /\ UNCHANGED abortRef
               \/ /\ ui'.active = None /\ ui'.phase = "failed"
                  /\ UNCHANGED <<turn, taken, abortRef>>
    <2>1. ui.active = t /\ ui \in Page
      BY <1>1, <1>6 DEF OneVoice, CaptureShown, IInv, PageOK, Fit
    <2>2. CASE Dispatch(Understood(t)) /\ StartTurn(t)
      BY <1>6, <2>1, <2>2 DEF Dispatch, Understood, Heard, Guarded, IsActive, Page, IInv, TurnsOK,
         StartTurn, TurnTo
    <2>3. CASE /\ Dispatch(InPhase(t, "transcribing")) /\ TurnTo(t, "upload")
               /\ UNCHANGED abortRef
      BY <1>6, <2>1, <2>3 DEF Dispatch, InPhase, Guarded, IsActive, Page, IInv, TurnsOK, TurnTo
    <2>4. CASE Dispatch(Failed(t)) /\ UNCHANGED <<turn, taken, abortRef>>
      BY <1>6, <2>1, <2>4 DEF Dispatch, Failed, Guarded, IsActive, Page
    <2> QED
      BY <1>4, <2>2, <2>3, <2>4
  <1> QED
    BY <1>1, <1>2, <1>3, <1>5, <1>6

\* Whoever stops the recording, nothing new is recorded, and on the page the words are
\* for the event they come from.
LEMMA StopMoves ==
    ASSUME IInv, OneVoice, NEW g, StopRecording(g), NEW f \in Events
    PROVE  /\ Starting(f)' <=> Starting(f)
           /\ Capturing(f)' => Capturing(f)
           /\ Recording(f)' => Recording(f) /\ transcriber = None
           /\ chain'[f] # Nothing =>
                 (chain[f] # Nothing /\ transcriber = None) \/ transcriber = f
           /\ mounted /\ transcriber # None /\ Capturing(f) =>
                 /\ f = transcriber /\ ui.active = f
                 /\ Stopping.active = f /\ Stopping.phase = "transcribing"
           /\ transcriber = None => Stopping = ui
           /\ Stopping.active = ui.active
  <1> USE VoiceAssumption DEF IInv, CaptureOK, PageOK, Fit, Page, EventOrNone, Refs
  <1>1. UNCHANGED sess /\ transcriber' = None /\ (transcriber = None => UNCHANGED chain)
    BY StopFacts
  <1>2. batch'[f] \in {"recording", "stopped"} => batch[f] \in {"recording", "stopped"}
    BY StopFacts
  <1>3. \A b \in Events : f # transcriber => chain'[f] = chain[f]
    BY StopFacts
  <1>4. Starting(f)' <=> Starting(f)
    BY <1>1 DEF Starting
  <1>5. Capturing(f)' => Capturing(f)
    BY <1>1, <1>2, <1>3, <1>4 DEF Capturing, Recording
  <1>6. ASSUME transcriber # None, Capturing(f)
        PROVE  f = transcriber /\ batch[f] = "none"
    <2>1. Capturing(transcriber) /\ transcriber \in Events
      BY <1>6 DEF Capturing, Recording
    <2> QED
      BY <1>6, <2>1 DEF OneVoice, OneCaptured
  <1>7. Recording(f)' => Recording(f) /\ transcriber = None
    <2>1. ASSUME Recording(f)'
          PROVE  batch[f] \in {"recording", "stopped"}
      BY <1>1, <1>2, <2>1 DEF Recording
    <2> QED
      BY <2>1, <1>6 DEF Recording, Capturing
  <1>8. chain'[f] # Nothing => (chain[f] # Nothing /\ transcriber = None) \/ transcriber = f
    BY <1>1, <1>3, <1>6 DEF Capturing
  <1>9. ASSUME mounted, transcriber # None, Capturing(f)
        PROVE  ui.active = f /\ Stopping.active = f /\ Stopping.phase = "transcribing"
    <2>1. ui.active = f /\ seen.active = f
      BY <1>6, <1>9 DEF OneVoice, CaptureShown, Recording
    <2> QED
      BY <1>9, <2>1 DEF Stopping, InPhase, Guarded, IsActive
  <1>10. Stopping.active = ui.active /\ (transcriber = None => Stopping = ui)
    BY DEF Stopping, InPhase, Guarded, IsActive
  <1> QED
    BY <1>4, <1>5, <1>6, <1>7, <1>8, <1>9, <1>10

\* Space opens an event when no words are to come, and stops what is spoken.
LEMMA KeyMoves ==
    ASSUME strayed' = {}, IInv, OneVoice, NEW e \in Events, KeyStart(e)
    PROVE  /\ mounted /\ e \in Keys /\ sess[e] = "unused"
           /\ sess' = [sess EXCEPT ![e] = "asking"]
           /\ UNCHANGED <<mic, transcriber, batchRef, batch, chain, taken, spoken, mounted>>
           /\ \A f \in Events : ~Capturing(f)
           /\ \A f \in Events : Going(f) =>
                 seen.phase = "speaking" /\ abortRef = f /\ turn[f] \notin Begun
           /\ ui'.active = e /\ seen' = ui' /\ ui'.phase = "requesting_permission"
           /\ turn[e] = "none" /\ taken[e] = 0
  <1>1. e \in Unused
    BY DEF KeyStart
  <1>2. mounted /\ e \in Keys /\ sess[e] = "unused" /\ turn[e] = "none" /\ taken[e] = 0
    BY <1>1 DEF Unused, KeyStart, OneVoice, OneCaptured
  <1>3. /\ seen.phase \notin Pressing \cup Working /\ ui.phase \notin Pressing
        /\ seen.phase = "speaking" => abortRef = seen.active
    BY DEF KeyStart, Strays
  <1>4. \A f \in Events : ~Capturing(f)
    BY <1>2, <1>3 DEF OneVoice, CaptureShown, Capturing, Starting, Pressing, Working
  <1>5. ASSUME NEW f \in Events, Going(f)
        PROVE  seen.phase = "speaking" /\ abortRef = f /\ turn[f] \notin Begun
    <2>1. f \in spoken /\ seen.phase = "speaking"
      BY <1>2, <1>3, <1>5 DEF OneVoice, TurnShown, Pressing, Working
    <2>2. turn[f] \notin {"none", "upload", "thread"}
      BY <1>2, <1>5, <2>1 DEF OneVoice, TurnShown, Going
    <2> QED
      BY <1>2, <1>3, <1>5, <2>1, <2>2 DEF OneVoice, TurnShown, Begun
  <1>6. ui'.active = e /\ seen' = ui' /\ ui'.phase = "requesting_permission"
    BY DEF KeyStart, Render, PermissionRequested, Interrupted, IInv, PageOK, Fit, Page
  <1> QED
    BY <1>2, <1>4, <1>5, <1>6 DEF KeyStart, BeginSession

LEMMA FewerCaptured ==
    ASSUME OneCaptured,
           \A f \in Events : Capturing(f)' => /\ Capturing(f)
                                              /\ turn'[f] = turn[f] /\ taken'[f] = taken[f]
                                              /\ seen'.active \in {None, f},
           \A f \in Events : sess'[f] = "unused" => /\ sess[f] = "unused"
                                                    /\ turn'[f] = turn[f] /\ taken'[f] = taken[f]
    PROVE  OneCaptured'
  <1>1. \A e, f \in Events : Capturing(e)' /\ Capturing(f)' => e = f
    BY DEF OneCaptured
  <1>2. \A f \in Events : Capturing(f)' => /\ turn'[f] = "none" /\ taken'[f] = 0
                                           /\ seen'.active \in {None, f}
    BY DEF OneCaptured
  <1>3. \A f \in Events : sess'[f] = "unused" => turn'[f] = "none" /\ taken'[f] = 0
    BY DEF OneCaptured
  <1> QED
    BY <1>1, <1>2, <1>3 DEF OneCaptured

LEMMA StopKeepsOne ==
    ASSUME IInv, OneVoice, NEW g, StopRecording(g), UNCHANGED <<turn, taken>>,
           seen' = seen \/ (mounted /\ seen' = Stopping)
    PROVE  OneCaptured'
  <1>1. \A f \in Events : Capturing(f)' => Capturing(f)
    BY StopMoves
  <1>2. UNCHANGED sess
    BY DEF StopRecording
  <1>3. ASSUME NEW f \in Events, Capturing(f)
        PROVE  seen'.active \in {None, f}
    <2>1. CASE seen' = seen
      BY <1>3, <2>1 DEF OneVoice, OneCaptured
    <2>2. CASE mounted /\ seen' = Stopping
      <3>1. Stopping.active = ui.active
        BY StopMoves, <1>3
      <3> QED
        BY <1>3, <2>2, <3>1 DEF OneVoice, CaptureShown
    <2> QED
      BY <2>1, <2>2
  <1> QED
    BY <1>1, <1>2, <1>3, FewerCaptured DEF OneVoice

LEMMA StopKeepsShown ==
    ASSUME IInv, OneVoice, NEW g, StopRecording(g), UNCHANGED mounted,
           mounted => ui' = Stopping /\ seen' \in {seen, Stopping}
    PROVE  CaptureShown'
  <1> SUFFICES ASSUME mounted, NEW f \in Events
               PROVE  /\ Capturing(f)' => ui'.active = f
                      /\ sess'[f] = "asking" => ui'.phase = "requesting_permission"
                      /\ sess'[f] \in {"token", "opening"} \/ Recording(f)'
                            => ui'.phase = "recording_push_to_talk"
                      /\ chain'[f] # Nothing => ui'.phase = "transcribing"
                      /\ Recording(f)' \/ chain'[f] # Nothing =>
                            /\ seen'.active = f
                            /\ seen'.phase \in {"recording_push_to_talk", "transcribing"}
    BY DEF CaptureShown, Nothing
  <1>1. UNCHANGED sess /\ ui' = Stopping /\ seen' \in {seen, Stopping}
    BY DEF StopRecording
  <1>2. /\ Capturing(f)' => Capturing(f)
        /\ Recording(f)' => Recording(f) /\ transcriber = None
        /\ chain'[f] # Nothing => (chain[f] # Nothing /\ transcriber = None) \/ transcriber = f
        /\ transcriber # None /\ Capturing(f) =>
              /\ f = transcriber /\ ui.active = f
              /\ Stopping.active = f /\ Stopping.phase = "transcribing"
        /\ transcriber = None => Stopping = ui
    BY StopMoves
  <1>3. /\ sess[f] \in {"asking", "token", "opening"} => Capturing(f)
        /\ Recording(f) \/ chain[f] # Nothing \/ transcriber = f => Capturing(f)
        /\ transcriber = f => Recording(f)
    BY DEF Capturing, Starting, Recording
  <1>4. CASE transcriber = None
    <2>1. transcriber # f
      BY <1>4, VoiceAssumption
    <2>2. /\ Capturing(f) => ui.active = f
          /\ sess[f] = "asking" => ui.phase = "requesting_permission"
          /\ sess[f] \in {"token", "opening"} \/ Recording(f) => ui.phase = "recording_push_to_talk"
          /\ chain[f] # Nothing => ui.phase = "transcribing"
          /\ Recording(f) \/ chain[f] # Nothing =>
                seen.active = f /\ seen.phase \in {"recording_push_to_talk", "transcribing"}
      BY DEF OneVoice, CaptureShown
    <2>3. Recording(f) \/ chain[f] # Nothing =>
             ui.active = f /\ ui.phase \in {"recording_push_to_talk", "transcribing"}
      BY <1>3, <2>2
    <2> QED
      BY <1>1, <1>2, <1>4, <2>1, <2>2, <2>3
  <1>5. CASE transcriber # None
    <2>1. ~Recording(f)'
      BY <1>2, <1>5
    <2>2. CASE ~Capturing(f)
      BY <1>1, <1>2, <1>3, <1>5, <2>1, <2>2
    <2>3. CASE Capturing(f)
      <3>1. f = transcriber /\ Stopping.active = f /\ Stopping.phase = "transcribing"
        BY <1>2, <1>5, <2>3
      <3>2. seen.active = f /\ seen.phase \in {"recording_push_to_talk", "transcribing"}
        BY <1>3, <3>1 DEF OneVoice, CaptureShown
      <3>3. sess[f] = "listening"
        BY <1>5, <3>1 DEF IInv, Refs
      <3> QED
        BY <1>1, <2>1, <3>1, <3>2, <3>3
    <2> QED
      BY <2>2, <2>3
  <1> QED
    BY <1>4, <1>5

LEMMA TakeKeeps ==
    ASSUME IInv, OneVoice, NEW t \in Events, TakeStep(t)
    PROVE  OneCaptured' /\ CaptureShown'
  <1>1. \A f \in Events : ~Capturing(f)'
    BY TakeShown
  <1>2. UNCHANGED <<sess, mounted>>
    BY TakeFacts DEF OneVoice
  <1>3. OneCaptured'
    BY <1>1, <1>2, TakeShown, FewerCaptured DEF OneVoice
  <1>4. \A f \in Events : /\ ~Recording(f)' /\ chain'[f] = Nothing'
                          /\ sess'[f] \notin {"asking", "token", "opening"}
    BY <1>1 DEF Capturing, Starting
  <1>5. CaptureShown'
    BY <1>1, <1>4 DEF CaptureShown
  <1> QED
    BY <1>3, <1>5

LEMMA TakeKeepsTurn ==
    ASSUME strayed' = {}, IInv, OneVoice, NEW t \in Events, TakeStep(t)
    PROVE  TurnShown'
  <1> USE DEF IInv, TurnsOK, Steps
  <1> SUFFICES ASSUME mounted, NEW f \in Events, Going(f)'
               PROVE  /\ ui'.active = f /\ seen'.active = f
                      /\ ui'.phase = IF turn'[f] = "upload" THEN "transcribing"
                                     ELSE IF f \in spoken THEN "speaking" ELSE "thinking"
                      /\ seen'.phase \in {"recording_push_to_talk", "transcribing", "thinking"}
                                           \cup (IF f \in spoken THEN {"speaking"} ELSE {})
                      /\ turn'[f] \in {"upload", "thread", "token", "socket"} => f \notin spoken
                      /\ turn'[f] \notin Begun => abortRef' \in {f, None}
    BY TakeFacts DEF TurnShown, OneVoice
  <1>1. Capturing(t) /\ turn[t] = "none" /\ ui.active = t
    BY TakeShown DEF OneVoice, CaptureShown
  <1>2. UNCHANGED <<seen, aborted, spoken>>
    BY TakeFacts DEF OneVoice
  <1>3. seen.active = t /\ seen.phase \in {"recording_push_to_talk", "transcribing"}
    BY TakeFacts DEF OneVoice, CaptureShown, Capturing
  <1>4. f = t
    <2>1. ASSUME f # t
          PROVE  Going(f)
      BY <1>2, <2>1, TakeShown DEF Going
    <2> QED
      BY <1>1, <2>1 DEF OneVoice, TurnShown
  <1> QED
    BY <1>1, <1>2, <1>3, <1>4, TakeShown DEF Going, StartTurn, Begun

LEMMA TurnKeepsOne ==
    ASSUME IInv, OneVoice, NEW e \in Events, TurnStep(e)
    PROVE  OneCaptured'
  <1>1. UNCHANGED <<seen, sess, transcriber, batch, chain, taken>>
    BY TurnLeaves DEF capture
  <1>2. turn[e] # "none" /\ \A f \in Events : f # e => turn'[f] = turn[f]
    BY TurnMoves DEF IInv
  <1>3. \A f \in Events : Capturing(f)' <=> Capturing(f)
    BY <1>1 DEF Capturing, Starting, Recording, Nothing
  <1>4. ~Capturing(e) /\ sess[e] # "unused"
    BY <1>2 DEF OneVoice, OneCaptured
  <1>5. \A f \in Events : Capturing(f) => seen.active \in {None, f}
    BY DEF OneVoice, OneCaptured
  <1> QED
    BY <1>1, <1>2, <1>3, <1>4, <1>5, FewerCaptured DEF OneVoice

LEMMA KeyKeepsOne ==
    ASSUME strayed' = {}, IInv, OneVoice, NEW e \in Events, KeyStart(e)
    PROVE  OneCaptured'
  <1>1. \A f \in Events : f # e => ~Capturing(f)'
    <2> TAKE f \in Events
    <2>1. ~Capturing(f) /\ UNCHANGED <<transcriber, batch, chain>>
      BY KeyMoves
    <2>2. f # e => sess'[f] = sess[f]
      BY KeyMoves DEF IInv, CaptureOK
    <2> QED
      BY <2>1, <2>2 DEF Capturing, Starting, Recording, Nothing
  <1>2. seen'.active = e /\ taken'[e] = 0
    BY KeyMoves
  <1>3. \A f \in Events : turn'[f] = turn[f] \/ (turn'[f] = "over" /\ f \in CutShort)
    <2>1. CASE Abort
      BY <2>1 DEF Abort
    <2>2. CASE UNCHANGED turn
      BY <2>2
    <2> QED
      BY <2>1, <2>2 DEF KeyStart
  <1>4. \A f \in CutShort : turn[f] # "none"
    BY DEF CutShort
  <1>5. \A f \in Events : sess'[f] = "unused" \/ f = e => turn'[f] = "none" /\ taken'[f] = 0
    BY <1>3, <1>4, KeyMoves DEF OneVoice, OneCaptured, IInv, CaptureOK
  <1> QED
    BY <1>1, <1>2, <1>5 DEF OneCaptured

LEMMA KeyKeepsShown ==
    ASSUME strayed' = {}, IInv, OneVoice, NEW e \in Events, KeyStart(e)
    PROVE  CaptureShown'
  <1>1. ui'.active = e /\ ui'.phase = "requesting_permission"
    BY KeyMoves
  <1>2. \A f \in Events : ~Capturing(f) /\ UNCHANGED <<transcriber, batch, chain>>
    BY KeyMoves
  <1>3. \A f \in Events : ~Recording(f)' /\ chain'[f] = Nothing'
    BY <1>2 DEF Capturing, Recording, Nothing
  <1>4. sess'[e] = "asking" /\ \A f \in Events : f # e => sess'[f] = sess[f]
    BY KeyMoves DEF IInv, CaptureOK
  <1>5. \A f \in Events : f # e => ~Capturing(f)' /\ ~Starting(f)'
    BY <1>2, <1>3, <1>4 DEF Capturing, Starting
  <1> QED
    BY <1>1, <1>3, <1>4, <1>5 DEF CaptureShown, Starting

LEMMA KeyKeepsMic ==
    ASSUME strayed' = {}, IInv, OneVoice, NEW e \in Events, KeyStart(e)
    PROVE  AllHeld'
  <1>1. ~mic[e]
    BY KeyMoves DEF IInv, Refs
  <1> QED
    BY <1>1, KeyMoves DEF AllHeld, OneVoice, IInv, CaptureOK

\* One lemma for each part of OneVoice, by the kinds of step. The phrase is waited for
\* on a page where no words are to come.
LEMMA WaitingKept ==
    ASSUME strayed' = {}, IInv, OneVoice, [Next]_vars
    PROVE  Waiting'
  <1> USE VoiceAssumption DEF OneVoice, reducer, capture, turns, IInv, PageOK, Fit,
        Page, Phases, Pressing, Working, Resting, EventOrNone, CaptureOK, Refs, Starting,
        Recording, Capturing, Nothing, Waiting, OneCaptured, CaptureShown, TurnShown, Going
  <1>1. ASSUME NEW e \in Events, CaptureStep(e)
        PROVE  Waiting'
    <2>1. CASE \/ SessionCreated(e) \/ SocketOpens(e) \/ SocketCloses(e) \/ EndsEarly(e)
               \/ Finalized(e)
      BY <2>1 DEF SessionCreated, SocketOpens, SocketCloses, EndsEarly, Finalized
    <2>5. CASE RealtimeFails(e)
      <3>1. Rendered /\ Starting(e)
        BY <2>5 DEF RealtimeFails
      <3>2. (UNCHANGED reducer) \/ Dispatch(Failed(e))
        BY <2>5 DEF RealtimeFails, StartBatch
      <3>3. UNCHANGED mounted
        BY <2>5 DEF RealtimeFails
      <3> QED
        BY <3>1, <3>2, <3>3 DEF Dispatch, Failed, Guarded, IsActive, Rendered
    <2>2. CASE Granted(e) \/ Denied(e) \/ Hears(e)
      BY <2>2 DEF Granted, Dispatch, RecordingStarted, Denied, Failed, Guarded, IsActive,
         Hears, Heard, Rendered
    <2>3. CASE TimerFires(e)
      BY <2>3, StopFacts DEF TimerFires, Dispatch, Stopping, InPhase, Guarded, IsActive,
         Rendered
    <2>4. CASE WakeHeard(e)
      BY <2>4 DEF WakeHeard, PermissionRequested, BeginSession
    <2> QED
      BY <1>1, <2>1, <2>2, <2>3, <2>4, <2>5 DEF CaptureStep
  <1>2. ASSUME NEW e \in Events, TakeStep(e)
        PROVE  Waiting'
    BY <1>2, TakeFacts, ZenonT(30) DEF Dispatch, Understood, Heard, InPhase, Failed, Guarded,
       IsActive, StartTurn, TurnTo, Taken
  <1>3. ASSUME NEW e \in Events, TurnStep(e)
        PROVE  Waiting'
    <2>1. CASE Uploaded(e) \/ Delta(e) \/ AudioStarts(e) \/ ChatCompleted(e) \/ TurnFails(e)
      BY <2>1 DEF Uploaded, Dispatch, Understood, Heard, Guarded, IsActive, StartTurn,
         TurnTo, Rendered, Delta, Answering, AudioStarts, InPhase, ChatCompleted, Answered,
         TurnFails, GivesUp, Failed
    <2>2. CASE \/ ThreadCreated(e) \/ VoiceCreated(e) \/ SpeechReady(e) \/ SpeechDone(e)
               \/ SpeechHangs(e) \/ QueuePlayedOut(e)
      BY <2>2 DEF ThreadCreated, TurnTo, Rendered, VoiceCreated, SpeechReady, GivesUp,
         SpeechDone, SpeechHangs, QueuePlayedOut
    <2>3. CASE PlaybackEnds(e)
      BY <2>3 DEF PlaybackEnds, GivesUp, TurnTo, Dispatch, Failed, Guarded, IsActive,
         SpeechEnded, IdlePhase, Rendered
    <2> QED
      BY <1>3, <2>1, <2>2, <2>3 DEF TurnStep
  <1>4. ASSUME NEW e \in Events, KeyStart(e)
        PROVE  Waiting'
    BY <1>4 DEF KeyStart, Unused, Abort, CutShort, Render, PermissionRequested, Interrupted,
       BeginSession, Recognizing
  <1>5. CASE PageStep
    <2>1. CASE Commit \/ KeyIgnored \/ RecognitionEnds \/ SessionRefreshed \/ Leave
      BY <2>1 DEF Commit, Render, Recognizing, KeyIgnored, RecognitionEnds, Rendered,
         SessionRefreshed, Leave
    <2>2. CASE SettingsReady
      BY <2>2 DEF SettingsReady, Dispatch
    <2>3. CASE KeyStop
      BY <2>3, StopFacts DEF KeyStop, Render, Stopping, InPhase, Guarded, IsActive,
         Recognizing
    <2> QED
      BY <1>5, <2>1, <2>2, <2>3 DEF PageStep
  <1>6. CASE UNCHANGED vars
    BY <1>6 DEF vars, reducer, capture, clocks, turns
  <1> QED
    BY <1>1, <1>2, <1>3, <1>4, <1>5, <1>6, StepParts

\* The ref by which a turn is cut short leads to a turn that was begun.
LEMMA AbortableKept ==
    ASSUME strayed' = {}, IInv, OneVoice, [Next]_vars
    PROVE  Abortable'
  <1> USE VoiceAssumption DEF OneVoice, reducer, capture, turns, IInv, TurnsOK,
        Steps, EventOrNone, Abortable, Begun, OneCaptured
  <1>1. ASSUME NEW e \in Events, CaptureStep(e)
        PROVE  Abortable'
    BY <1>1, CaptureLeaves DEF turns
  <1>2. ASSUME NEW e \in Events, TakeStep(e)
        PROVE  Abortable'
    BY <1>2, TakeFacts DEF StartTurn, TurnTo
  <1>3. ASSUME NEW e \in Events, TurnStep(e)
        PROVE  Abortable'
    <2>1. CASE Uploaded(e) \/ Delta(e) \/ AudioStarts(e) \/ ChatCompleted(e) \/ QueuePlayedOut(e)
      BY <2>1 DEF Uploaded, StartTurn, TurnTo, Delta, AudioStarts, ChatCompleted,
         QueuePlayedOut
    <2>2. CASE ThreadCreated(e) \/ VoiceCreated(e) \/ SpeechReady(e)
      BY <2>2 DEF ThreadCreated, TurnTo, VoiceCreated, SpeechReady, GivesUp
    <2>3. CASE TurnFails(e)
      BY <2>3 DEF TurnFails, GivesUp, TurnTo
    <2>4. CASE SpeechDone(e) \/ SpeechHangs(e) \/ PlaybackEnds(e)
      BY <2>4 DEF SpeechDone, TurnTo, SpeechHangs, PlaybackEnds, GivesUp
    <2> QED
      BY <1>3, <2>1, <2>2, <2>3, <2>4 DEF TurnStep
  <1>4. ASSUME NEW e \in Events, KeyStart(e)
        PROVE  Abortable'
    BY <1>4 DEF KeyStart, Abort, CutShort
  <1>5. CASE PageStep
    <2>1. CASE \/ Commit \/ SettingsReady \/ KeyStop \/ KeyIgnored \/ RecognitionEnds
               \/ SessionRefreshed
      BY <2>1 DEF Commit, SettingsReady, KeyStop, KeyIgnored, RecognitionEnds, SessionRefreshed
    <2>2. CASE Leave
      BY <2>2 DEF Leave, Abort, CutShort, BatchRunning
    <2> QED
      BY <1>5, <2>1, <2>2 DEF PageStep
  <1>6. CASE UNCHANGED vars
    BY <1>6 DEF vars, reducer, capture, clocks, turns
  <1> QED
    BY <1>1, <1>2, <1>3, <1>4, <1>5, <1>6, StepParts

\* A second event cannot begin while words are to come of a first.
LEMMA OneCapturedKept ==
    ASSUME strayed' = {}, IInv, OneVoice, [Next]_vars
    PROVE  OneCaptured'
  <1>0a. ASSUME NEW e \in Events, TimerFires(e)
         PROVE  OneCaptured'
    <2>1. StopRecording(e) /\ seen' = seen /\ UNCHANGED <<turn, taken>>
      BY <1>0a DEF TimerFires, turns, Dispatch
    <2> QED
      BY <2>1, StopKeepsOne
  <1>0b. ASSUME NEW e \in Events, TakeStep(e)
         PROVE  OneCaptured'
    BY <1>0b, TakeKeeps
  <1>0c. ASSUME NEW e \in Events, TurnStep(e)
         PROVE  OneCaptured'
    BY <1>0c, TurnKeepsOne
  <1>0d. ASSUME NEW e \in Events, KeyStart(e)
         PROVE  OneCaptured'
    BY <1>0d, KeyKeepsOne
  <1>0e. ASSUME KeyStop
         PROVE  OneCaptured'
    BY <1>0e, StopKeepsOne DEF KeyStop, turns, Render
  <1> USE VoiceAssumption DEF OneVoice, reducer, capture, turns, IInv, PageOK, Fit,
        Page, Phases, Pressing, Working, Resting, EventOrNone, CaptureOK, Refs, Starting,
        Recording, Capturing, Nothing, Waiting, OneCaptured, CaptureShown, TurnShown, Going
  <1>1. ASSUME NEW e \in Events, CaptureStep(e)
        PROVE  OneCaptured'
    <2>1. CASE Granted(e)
      BY <2>1 DEF Granted, Dispatch, RecordingStarted
    <2>2. CASE Denied(e)
      BY <2>2 DEF Denied, Dispatch, Failed, Guarded, IsActive
    <2>3. CASE SessionCreated(e)
      BY <2>3 DEF SessionCreated, Rendered
    <2>4. CASE SocketOpens(e)
      BY <2>4 DEF SocketOpens, ScheduleStop, Rendered
    <2>5. CASE RealtimeFails(e)
      BY <2>5 DEF RealtimeFails, StartBatch, ScheduleStop, Rendered
    <2>6. CASE SocketCloses(e)
      BY <2>6 DEF SocketCloses, EndTracks
    <2>7. CASE Hears(e)
      BY <2>7 DEF Hears, Dispatch, Heard, Guarded, IsActive, Rendered
    <2>8. CASE EndsEarly(e)
      BY <2>8 DEF EndsEarly, EndTracks, Rendered
    <2>9. CASE Finalized(e)
      BY <2>9 DEF Finalized, Rendered
    <2>10. CASE TimerFires(e)
      BY <2>10, <1>0a
    <2>11. CASE WakeHeard(e)
      BY <2>11 DEF WakeHeard, Strays, PermissionRequested, BeginSession
    <2> QED
      BY <1>1, <2>1, <2>2, <2>3, <2>4, <2>5, <2>6, <2>7, <2>8, <2>9, <2>10, <2>11 DEF CaptureStep
  <1>2. ASSUME NEW e \in Events, TakeStep(e)
        PROVE  OneCaptured'
    BY <1>2, <1>0b
  <1>3. ASSUME NEW e \in Events, TurnStep(e)
        PROVE  OneCaptured'
    BY <1>3, <1>0c
  <1>4. ASSUME NEW e \in Events, KeyStart(e)
        PROVE  OneCaptured'
    BY <1>4, <1>0d
  <1>5. CASE PageStep
    <2>1. CASE Commit
      BY <2>1 DEF Commit, Render, Recognizing
    <2>2. CASE KeyIgnored
      BY <2>2 DEF KeyIgnored, Render, Recognizing
    <2>3. CASE RecognitionEnds
      BY <2>3 DEF RecognitionEnds, Rendered
    <2>4. CASE SettingsReady
      BY <2>4 DEF SettingsReady, Dispatch
    <2>5. CASE KeyStop
      BY <2>5, <1>0e
    <2>6. CASE Leave
      BY <2>6 DEF Leave, Abort, CutShort, BatchRunning
    <2>7. CASE SessionRefreshed
      BY <2>7 DEF SessionRefreshed
    <2> QED
      BY <1>5, <2>1, <2>2, <2>3, <2>4, <2>5, <2>6, <2>7 DEF PageStep
  <1>6. CASE UNCHANGED vars
    BY <1>6 DEF vars, reducer, capture, clocks, turns
  <1> QED
    BY <1>1, <1>2, <1>3, <1>4, <1>5, <1>6, StepParts

\* The page follows each step on the way to the words.
LEMMA CaptureShownKept ==
    ASSUME strayed' = {}, IInv, OneVoice, [Next]_vars
    PROVE  CaptureShown'
  <1>0a. ASSUME NEW e \in Events, TimerFires(e)
         PROVE  CaptureShown'
    BY <1>0a, StopKeepsShown DEF TimerFires, Dispatch
  <1>0b. ASSUME NEW e \in Events, TakeStep(e)
         PROVE  CaptureShown'
    BY <1>0b, TakeKeeps
  <1>0c. ASSUME KeyStop
         PROVE  CaptureShown'
    BY <1>0c, StopKeepsShown DEF KeyStop, Render
  <1>0d. ASSUME NEW e \in Events, KeyStart(e)
         PROVE  CaptureShown'
    BY <1>0d, KeyKeepsShown
  <1> USE VoiceAssumption DEF OneVoice, reducer, capture, turns, IInv, PageOK, Fit,
        Page, Phases, Pressing, Working, Resting, EventOrNone, CaptureOK, Refs, Starting,
        Recording, Capturing, Nothing, Waiting, OneCaptured, CaptureShown, TurnShown, Going
  <1>1. ASSUME NEW e \in Events, CaptureStep(e)
        PROVE  CaptureShown'
    <2>1. CASE Granted(e)
      BY <2>1 DEF Granted, Dispatch, RecordingStarted
    <2>2. CASE Denied(e)
      BY <2>2 DEF Denied, Dispatch, Failed, Guarded, IsActive
    <2>3. CASE SessionCreated(e)
      BY <2>3 DEF SessionCreated, Rendered
    <2>4. CASE SocketOpens(e)
      BY <2>4 DEF SocketOpens, ScheduleStop, Rendered
    <2>5. CASE RealtimeFails(e)
      BY <2>5 DEF RealtimeFails, StartBatch, ScheduleStop, Rendered
    <2>6. CASE SocketCloses(e)
      BY <2>6 DEF SocketCloses, EndTracks
    <2>7. CASE Hears(e)
      BY <2>7 DEF Hears, Dispatch, Heard, Guarded, IsActive, Rendered
    <2>8. CASE EndsEarly(e)
      BY <2>8 DEF EndsEarly, EndTracks, Rendered
    <2>9. CASE Finalized(e)
      BY <2>9 DEF Finalized, Rendered
    <2>10. CASE TimerFires(e)
      BY <2>10, <1>0a
    <2>11. CASE WakeHeard(e)
      BY <2>11 DEF WakeHeard, Strays, PermissionRequested, BeginSession
    <2> QED
      BY <1>1, <2>1, <2>2, <2>3, <2>4, <2>5, <2>6, <2>7, <2>8, <2>9, <2>10, <2>11 DEF CaptureStep
  <1>2. ASSUME NEW e \in Events, TakeStep(e)
        PROVE  CaptureShown'
    BY <1>2, <1>0b
  <1>3. ASSUME NEW e \in Events, TurnStep(e)
        PROVE  CaptureShown'
    <2>1. CASE Uploaded(e)
      BY <2>1 DEF Uploaded, Dispatch, Understood, Heard, Guarded, IsActive, StartTurn,
         TurnTo, Rendered
    <2>2. CASE ThreadCreated(e)
      BY <2>2 DEF ThreadCreated, TurnTo, Rendered
    <2>3. CASE VoiceCreated(e)
      BY <2>3 DEF VoiceCreated, TurnTo, Rendered
    <2>4. CASE SpeechReady(e)
      BY <2>4 DEF SpeechReady, GivesUp, TurnTo, Rendered
    <2>5. CASE Delta(e)
      BY <2>5 DEF Delta, Dispatch, Answering, Guarded, IsActive, Rendered
    <2>6. CASE AudioStarts(e)
      BY <2>6 DEF AudioStarts, Dispatch, InPhase, Guarded, IsActive, Rendered
    <2>7. CASE ChatCompleted(e)
      BY <2>7 DEF ChatCompleted, TurnTo, Dispatch, Answered, Guarded, IsActive, Rendered
    <2>8. CASE TurnFails(e)
      BY <2>8 DEF TurnFails, GivesUp, TurnTo, Dispatch, Failed, Guarded, IsActive, Rendered
    <2>9. CASE SpeechDone(e)
      BY <2>9 DEF SpeechDone, TurnTo, Rendered
    <2>10. CASE SpeechHangs(e)
      BY <2>10 DEF SpeechHangs, TurnTo, Rendered
    <2>11. CASE PlaybackEnds(e)
      BY <2>11 DEF PlaybackEnds, GivesUp, TurnTo, Dispatch, Failed, Guarded, IsActive,
         SpeechEnded, IdlePhase, Rendered
    <2>12. CASE QueuePlayedOut(e)
      BY <2>12 DEF QueuePlayedOut, Rendered
    <2> QED
      BY <1>3, <2>1, <2>2, <2>3, <2>4, <2>5, <2>6, <2>7, <2>8, <2>9, <2>10, <2>11, <2>12 DEF TurnStep
  <1>4. ASSUME NEW e \in Events, KeyStart(e)
        PROVE  CaptureShown'
    BY <1>4, <1>0d
  <1>5. CASE PageStep
    <2>1. CASE Commit
      BY <2>1 DEF Commit, Render, Recognizing
    <2>2. CASE KeyIgnored
      BY <2>2 DEF KeyIgnored, Render, Recognizing
    <2>3. CASE RecognitionEnds
      BY <2>3 DEF RecognitionEnds, Rendered
    <2>4. CASE SettingsReady
      BY <2>4 DEF SettingsReady, Dispatch
    <2>5. CASE KeyStop
      BY <2>5, <1>0c
    <2>6. CASE Leave
      BY <2>6 DEF Leave, Abort, CutShort, BatchRunning
    <2>7. CASE SessionRefreshed
      BY <2>7 DEF SessionRefreshed
    <2> QED
      BY <1>5, <2>1, <2>2, <2>3, <2>4, <2>5, <2>6, <2>7 DEF PageStep
  <1>6. CASE UNCHANGED vars
    BY <1>6 DEF vars, reducer, capture, clocks, turns
  <1> QED
    BY <1>1, <1>2, <1>3, <1>4, <1>5, <1>6, StepParts

\* The page follows each step of the turn, and no other turn touches its ref.
LEMMA TurnShownKept ==
    ASSUME strayed' = {}, IInv, OneVoice, [Next]_vars
    PROVE  TurnShown'
  <1>0a. ASSUME NEW e \in Events, TakeStep(e)
         PROVE  TurnShown'
    BY <1>0a, TakeKeepsTurn
  <1> USE VoiceAssumption DEF OneVoice, reducer, capture, turns, IInv, PageOK, Fit,
        Page, Phases, Pressing, Working, Resting, EventOrNone, TurnsOK, Steps, CaptureOK,
        Refs, Starting, Recording, Capturing, Nothing, Abortable, Begun, Waiting,
        OneCaptured, CaptureShown, TurnShown, Going
  <1>1. ASSUME NEW e \in Events, CaptureStep(e)
        PROVE  TurnShown'
    <2>1. CASE Granted(e)
      BY <2>1 DEF Granted, Dispatch, RecordingStarted
    <2>2. CASE Denied(e)
      BY <2>2 DEF Denied, Dispatch, Failed, Guarded, IsActive
    <2>3. CASE SessionCreated(e)
      BY <2>3 DEF SessionCreated, Rendered
    <2>4. CASE SocketOpens(e)
      BY <2>4 DEF SocketOpens, ScheduleStop, Rendered
    <2>5. CASE RealtimeFails(e)
      BY <2>5 DEF RealtimeFails, StartBatch, ScheduleStop, Rendered
    <2>6. CASE SocketCloses(e)
      BY <2>6 DEF SocketCloses, EndTracks
    <2>7. CASE Hears(e)
      BY <2>7 DEF Hears, Dispatch, Heard, Guarded, IsActive, Rendered
    <2>8. CASE EndsEarly(e)
      BY <2>8 DEF EndsEarly, EndTracks, Rendered
    <2>9. CASE Finalized(e)
      BY <2>9 DEF Finalized, Rendered
    <2>10. CASE TimerFires(e)
      BY <2>10, StopFacts DEF TimerFires, Dispatch, Stopping, InPhase, Guarded, IsActive,
         Rendered
    <2>11. CASE WakeHeard(e)
      BY <2>11 DEF WakeHeard, Strays, PermissionRequested, BeginSession
    <2> QED
      BY <1>1, <2>1, <2>2, <2>3, <2>4, <2>5, <2>6, <2>7, <2>8, <2>9, <2>10, <2>11 DEF CaptureStep
  <1>2. ASSUME NEW e \in Events, TakeStep(e)
        PROVE  TurnShown'
    BY <1>2, <1>0a
  <1>3. ASSUME NEW e \in Events, TurnStep(e)
        PROVE  TurnShown'
    <2>1. CASE Uploaded(e)
      BY <2>1 DEF Uploaded, Dispatch, Understood, Heard, Guarded, IsActive, StartTurn,
         TurnTo, Rendered
    <2>2. CASE ThreadCreated(e)
      BY <2>2 DEF ThreadCreated, TurnTo, Rendered
    <2>3. CASE VoiceCreated(e)
      BY <2>3 DEF VoiceCreated, TurnTo, Rendered
    <2>4. CASE SpeechReady(e)
      BY <2>4 DEF SpeechReady, GivesUp, TurnTo, Rendered
    <2>5. CASE Delta(e)
      BY <2>5 DEF Delta, Dispatch, Answering, Guarded, IsActive, Rendered
    <2>6. CASE AudioStarts(e)
      BY <2>6 DEF AudioStarts, Dispatch, InPhase, Guarded, IsActive, Rendered
    <2>7. CASE ChatCompleted(e)
      BY <2>7 DEF ChatCompleted, TurnTo, Dispatch, Answered, Guarded, IsActive, Rendered
    <2>8. CASE TurnFails(e)
      BY <2>8 DEF TurnFails, GivesUp, TurnTo, Dispatch, Failed, Guarded, IsActive, Rendered
    <2>9. CASE SpeechDone(e)
      BY <2>9 DEF SpeechDone, TurnTo, Rendered
    <2>10. CASE SpeechHangs(e)
      BY <2>10 DEF SpeechHangs, TurnTo, Rendered
    <2>11. CASE PlaybackEnds(e)
      BY <2>11 DEF PlaybackEnds, GivesUp, TurnTo, Dispatch, Failed, Guarded, IsActive,
         SpeechEnded, IdlePhase, Rendered
    <2>12. CASE QueuePlayedOut(e)
      BY <2>12 DEF QueuePlayedOut, Rendered
    <2> QED
      BY <1>3, <2>1, <2>2, <2>3, <2>4, <2>5, <2>6, <2>7, <2>8, <2>9, <2>10, <2>11, <2>12 DEF TurnStep
  <1>4. ASSUME NEW e \in Events, KeyStart(e)
        PROVE  TurnShown'
    <2>1. \A f \in Events : ~Going(f)'
      <3> TAKE f \in Events
      <3>1. CASE Going(f)
        <4>1. seen.phase = "speaking" /\ abortRef = f
          BY <1>4, <3>1, KeyMoves
        <4>2. Abort
          BY <1>4, <4>1 DEF KeyStart
        <4> QED
          BY <3>1, <4>1, <4>2 DEF Abort, CutShort
      <3>2. CASE ~Going(f)
        BY <1>4, <3>2 DEF KeyStart, Abort, CutShort
      <3> QED
        BY <3>1, <3>2
    <2> QED
      BY <2>1
  <1>5. CASE PageStep
    <2>1. CASE Commit
      BY <2>1 DEF Commit, Render, Recognizing
    <2>2. CASE KeyIgnored
      BY <2>2 DEF KeyIgnored, Render, Recognizing
    <2>3. CASE RecognitionEnds
      BY <2>3 DEF RecognitionEnds, Rendered
    <2>4. CASE SettingsReady
      BY <2>4 DEF SettingsReady, Dispatch
    <2>5. CASE KeyStop
      BY <2>5, StopFacts DEF KeyStop, Render, Stopping, InPhase, Guarded, IsActive,
         Recognizing
    <2>6. CASE Leave
      BY <2>6 DEF Leave, Abort, CutShort, BatchRunning
    <2>7. CASE SessionRefreshed
      BY <2>7 DEF SessionRefreshed
    <2> QED
      BY <1>5, <2>1, <2>2, <2>3, <2>4, <2>5, <2>6, <2>7 DEF PageStep
  <1>6. CASE UNCHANGED vars
    BY <1>6 DEF vars, reducer, capture, clocks, turns
  <1> QED
    BY <1>1, <1>2, <1>3, <1>4, <1>5, <1>6, StepParts

\* No ref is emptied while the microphone it leads to is on.
LEMMA MicKept ==
    ASSUME strayed' = {}, IInv, OneVoice, [Next]_vars
    PROVE  AllHeld'
  <1>0a. ASSUME NEW e \in Events, KeyStart(e)
         PROVE  AllHeld'
    BY <1>0a, KeyKeepsMic
  <1> USE VoiceAssumption DEF OneVoice, reducer, capture, turns, IInv, EventOrNone,
        CaptureOK, Refs, Starting, Recording, Capturing, Nothing, OneCaptured, AllHeld
  <1>1. ASSUME NEW e \in Events, CaptureStep(e)
        PROVE  AllHeld'
    <2>1. CASE Granted(e)
      BY <2>1 DEF Granted
    <2>2. CASE Denied(e) \/ SessionCreated(e) \/ WakeHeard(e) \/ Hears(e) \/ Finalized(e)
      BY <2>2 DEF Denied, SessionCreated, WakeHeard, BeginSession, Hears, Finalized
    <2>3. CASE SocketOpens(e)
      BY <2>3 DEF SocketOpens
    <2>4. CASE RealtimeFails(e)
      BY <2>4 DEF RealtimeFails, StartBatch
    <2>5. CASE SocketCloses(e)
      BY <2>5 DEF SocketCloses, EndTracks
    <2>6. CASE EndsEarly(e)
      BY <2>6 DEF EndsEarly, EndTracks
    <2>7. CASE TimerFires(e)
      BY <2>7, StopFacts DEF TimerFires
    <2> QED
      BY <1>1, <2>1, <2>2, <2>3, <2>4, <2>5, <2>6, <2>7 DEF CaptureStep
  <1>2. ASSUME NEW e \in Events, TakeStep(e)
        PROVE  AllHeld'
    <2>1. CASE BatchStops(e)
      BY <2>1 DEF BatchStops
    <2>2. CASE ActOnWords(e) \/ ActOnCopy(e)
      BY <2>2 DEF ActOnWords, ActOnCopy
    <2> QED
      BY <1>2, <2>1, <2>2 DEF TakeStep
  <1>3. ASSUME NEW e \in Events, TurnStep(e)
        PROVE  AllHeld'
    BY <1>3, TurnLeaves DEF capture
  <1>4. ASSUME NEW e \in Events, KeyStart(e)
        PROVE  AllHeld'
    BY <1>4, <1>0a
  <1>5. CASE PageStep
    <2>1. CASE Commit \/ KeyIgnored \/ RecognitionEnds \/ SettingsReady \/ SessionRefreshed
      BY <2>1 DEF Commit, KeyIgnored, RecognitionEnds, SettingsReady, SessionRefreshed
    <2>2. CASE KeyStop
      BY <2>2, StopFacts DEF KeyStop
    <2>3. CASE Leave
      BY <2>3 DEF Leave, BatchRunning
    <2> QED
      BY <1>5, <2>1, <2>2, <2>3 DEF PageStep
  <1>6. CASE UNCHANGED vars
    BY <1>6 DEF vars, reducer, capture, clocks, turns
  <1> QED
    BY <1>1, <1>2, <1>3, <1>4, <1>5, <1>6, StepParts

\* The event of the last render is that of the transcriber which is stopped.
LEMMA WordsKept ==
    ASSUME strayed' = {}, IInv, OneVoice, [Next]_vars
    PROVE  AllTheirs'
  <1> USE VoiceAssumption DEF OneVoice, reducer, capture, turns, IInv, EventOrNone,
        CaptureOK, Refs, Starting, Recording, Capturing, Nothing, OneCaptured,
        AllTheirs
  <1>1. ASSUME NEW e \in Events, CaptureStep(e)
        PROVE  AllTheirs'
    <2>1. CASE \/ Granted(e) \/ Denied(e) \/ SessionCreated(e) \/ WakeHeard(e) \/ Hears(e)
               \/ Finalized(e) \/ SocketOpens(e) \/ RealtimeFails(e) \/ SocketCloses(e)
               \/ EndsEarly(e)
      BY <2>1 DEF Granted, Denied, SessionCreated, WakeHeard, Hears, Finalized, SocketOpens,
         RealtimeFails, SocketCloses, EndsEarly
    <2>2. CASE TimerFires(e)
      BY <2>2, StopFacts DEF TimerFires
    <2> QED
      BY <1>1, <2>1, <2>2 DEF CaptureStep
  <1>2. ASSUME NEW e \in Events, TakeStep(e)
        PROVE  AllTheirs'
    BY <1>2, WordsFacts DEF TakeStep, BatchStops
  <1>3. ASSUME NEW e \in Events, TurnStep(e)
        PROVE  AllTheirs'
    BY <1>3, TurnLeaves DEF capture
  <1>4. ASSUME NEW e \in Events, KeyStart(e)
        PROVE  AllTheirs'
    BY <1>4 DEF KeyStart
  <1>5. CASE PageStep
    <2>1. CASE \/ Commit \/ KeyIgnored \/ RecognitionEnds \/ SettingsReady \/ SessionRefreshed
               \/ Leave
      BY <2>1 DEF Commit, KeyIgnored, RecognitionEnds, SettingsReady, SessionRefreshed, Leave
    <2>2. CASE KeyStop
      BY <2>2, StopFacts DEF KeyStop
    <2> QED
      BY <1>5, <2>1, <2>2 DEF PageStep
  <1>6. CASE UNCHANGED vars
    BY <1>6 DEF vars, reducer, capture, clocks, turns
  <1> QED
    BY <1>1, <1>2, <1>3, <1>4, <1>5, <1>6, StepParts

\* Taking up counts once for each event.
LEMMA TakenKept ==
    ASSUME strayed' = {}, IInv, OneVoice, [Next]_vars
    PROVE  AllOnce'
  <1> USE VoiceAssumption DEF OneVoice, reducer, capture, turns, IInv, TurnsOK,
        OneCaptured, AllOnce
  <1>1. ASSUME NEW e \in Events, CaptureStep(e)
        PROVE  AllOnce'
    BY <1>1, CaptureLeaves DEF turns
  <1>2. ASSUME NEW e \in Events, TakeStep(e)
        PROVE  AllOnce'
    BY <1>2, TakeFacts DEF Taken
  <1>3. ASSUME NEW e \in Events, TurnStep(e)
        PROVE  AllOnce'
    BY <1>3, TurnLeaves
  <1>4. ASSUME NEW e \in Events, KeyStart(e)
        PROVE  AllOnce'
    BY <1>4 DEF KeyStart
  <1>5. CASE PageStep
    BY <1>5 DEF PageStep, Commit, SettingsReady, KeyStop, KeyIgnored, RecognitionEnds,
       SessionRefreshed, Leave
  <1>6. CASE UNCHANGED vars
    BY <1>6 DEF vars, reducer, capture, clocks, turns
  <1> QED
    BY <1>1, <1>2, <1>3, <1>4, <1>5, <1>6, StepParts

-----------------------------------------------------------------------------
(* While nothing has strayed *)

\* An event that has strayed stays so.
LEMMA StraysStay ==
    ASSUME [Next]_vars, strayed' = {}
    PROVE  strayed = {}
  <1> USE DEF Strays, history
  <1>1. ASSUME NEW e \in Events, CaptureStep(e)
        PROVE  strayed = {}
    BY <1>1 DEF CaptureStep, Granted, Denied, SessionCreated, SocketOpens, RealtimeFails,
       SocketCloses, Hears, EndsEarly, Finalized, TimerFires, WakeHeard
  <1>2. ASSUME NEW e \in Events, TakeStep(e) \/ KeyStart(e)
        PROVE  strayed = {}
    BY <1>2 DEF TakeStep, ActOnWords, ActOnCopy, BatchStops, KeyStart
  <1>3. ASSUME NEW e \in Events, TurnStep(e)
        PROVE  strayed = {}
    BY <1>3, TurnLeaves
  <1>4. CASE PageStep
    BY <1>4 DEF PageStep, Commit, SettingsReady, KeyStop, KeyIgnored, RecognitionEnds,
       SessionRefreshed, Leave
  <1>5. CASE UNCHANGED vars
    BY <1>5 DEF vars
  <1> QED
    BY <1>1, <1>2, <1>3, <1>4, <1>5, StepParts

LEMMA OneVoiceInit ==
    ASSUME Init
    PROVE  OneVoice
  <1> USE VoiceAssumption DEF Init
  <1>1. \A e \in Events : ~Capturing(e) /\ ~Going(e) /\ ~mic[e] /\ chain[e].event = None
    BY DEF Capturing, Starting, Recording, Going, Nothing
  <1>2. Waiting /\ Abortable /\ AllOnce
    BY DEF Waiting, Abortable, AllOnce
  <1>3. OneCaptured
    BY <1>1 DEF OneCaptured
  <1>4. CaptureShown
    BY DEF CaptureShown, Capturing, Starting, Recording, Nothing
  <1> QED
    BY <1>1, <1>2, <1>3, <1>4 DEF OneVoice, TurnShown, AllHeld, AllTheirs

\* Of one event at a time words are to come or a turn goes on, and the page shows which
\* and how far it is, so that neither Space nor the phrase opens another beside it, for as
\* long as none was opened before the page was rendered, after it was left or past a ref
\* that another turn had emptied (beginPushToTalk, recognition.onresult and
\* stopRecording, by stateRef and the refs).
THEOREM OneVoiceAtATime == Spec => [](strayed = {} => OneVoice)
<1>1. Init => IInv /\ (strayed = {} => OneVoice)
  BY OneVoiceInit, InitShown
<1>2. IInv /\ (strayed = {} => OneVoice) /\ [Next]_vars => (IInv /\ (strayed = {} => OneVoice))'
  <2> SUFFICES ASSUME IInv, strayed = {} => OneVoice, [Next]_vars, strayed' = {}
               PROVE  OneVoice'
    BY StepKept
  <2>1. OneVoice
    BY StraysStay
  <2> QED
    BY <2>1, WaitingKept, AbortableKept, OneCapturedKept, CaptureShownKept, TurnShownKept,
       MicKept, WordsKept, TakenKept DEF OneVoice
<1> QED
  BY <1>1, <1>2, PTL DEF Spec

\* What a person says in one go is taken up once: stopRecording awaits the transcriber,
\* falls back to the recorder's copy, and the batch recorder's stop event comes on its
\* own; no event has two of them to come.
THEOREM TakenUpOnce == Spec => []TakenOnce
<1>1. (strayed = {} => OneVoice) => TakenOnce
  BY DEF OneVoice, TakenOnce
<1> QED
  BY <1>1, OneVoiceAtATime, PTL

\* A microphone that is on will be turned off: its session is still starting, or a ref
\* leads to its transcriber or recorder, or no recorder could be had (startRecordingSession,
\* stopRecording and the cleanup of the page; the refs are emptied by whichever event
\* comes to an end).
THEOREM MicrophoneIsHeld == Spec => []MicIsHeld
<1>1. (strayed = {} => OneVoice) => MicIsHeld
  BY DEF OneVoice, MicIsHeld
<1> QED
  BY <1>1, OneVoiceAtATime, PTL

\* stopRecording takes the transcriber from a ref and the event from the last render:
\* they belong together.
THEOREM WordsAreOwn == Spec => []WordsAreTheirs
<1>1. (strayed = {} => OneVoice) => WordsAreTheirs
  BY DEF OneVoice, WordsAreTheirs
<1> QED
  BY <1>1, OneVoiceAtATime, PTL

\* A turn that has been played out ends only itself: SPEECH_ENDED names no event, but
\* then the turn is the active one, or was aborted and says nothing.  The speech of an
\* aborted turn may outlast the turn that follows it (the player is not stopped).
THEOREM EndsOwn == Spec => EndsItsOwn
<1>1. ASSUME IInv, OneVoice, [Next]_vars, NEW f \in Events,
             turn[f] = "playing", turn'[f] = "over", ui.active \notin {None, f}
      PROVE  ui'.active = ui.active
  <2> USE DEF IInv, TurnsOK
  <2>1. ASSUME NEW e \in Events, CaptureStep(e)
        PROVE  turn' = turn
    BY <2>1, CaptureLeaves DEF turns
  <2>2. ASSUME NEW e \in Events, TakeStep(e)
        PROVE  turn'[f] = turn[f]
    <3>1. f # e
      BY <1>1, <2>2, TakeShown
    <3> QED
      BY <1>1, <2>2, <3>1, TakeShown
  <2>3. ASSUME Abort \/ UNCHANGED turn
        PROVE  turn'[f] = turn[f]
    BY <1>1, <2>3 DEF Abort, CutShort
  <2>4. ASSUME NEW e \in Events, TurnStep(e)
        PROVE  ui'.active = ui.active
    <3>1. e = f
      BY <1>1, <2>4, TurnMoves
    <3>2. PlaybackEnds(f)
      BY <1>1, <2>4, <3>1 DEF TurnStep, Uploaded, ThreadCreated, VoiceCreated, SpeechReady,
         Delta, AudioStarts, ChatCompleted, TurnFails, SpeechDone, SpeechHangs, QueuePlayedOut
    <3>3. CASE f \in aborted \/ ~mounted
      BY <3>2, <3>3 DEF PlaybackEnds, Dispatch
    <3>4. CASE f \notin aborted /\ mounted
      BY <1>1, <3>4 DEF OneVoice, TurnShown, Going
    <3> QED
      BY <3>3, <3>4
  <2>5. ASSUME NEW e \in Events, KeyStart(e)
        PROVE  turn'[f] = turn[f]
    BY <2>3, <2>5 DEF KeyStart
  <2>6. CASE PageStep
    <3>1. Abort \/ UNCHANGED turn
      BY <2>6 DEF PageStep, Commit, SettingsReady, KeyStop, KeyIgnored, RecognitionEnds,
         SessionRefreshed, Leave, turns
    <3> QED
      BY <1>1, <2>3, <3>1
  <2>7. CASE UNCHANGED vars
    BY <2>7 DEF vars, reducer
  <2> QED
    BY <1>1, <2>1, <2>2, <2>4, <2>5, <2>6, <2>7, StepParts
<1>2. IInv /\ (strayed = {} => OneVoice) /\ [Next]_vars =>
         [strayed # {} \/ \A e \in Events : ~EndsAnother(e)]_vars
  BY <1>1 DEF EndsAnother
<1> QED
  BY <1>2, Inductive, OneVoiceAtATime, PTL DEF Spec, EndsItsOwn

=============================================================================
