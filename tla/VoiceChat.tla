------------------------------ MODULE VoiceChat ------------------------------
(***************************************************************************)
(* The voice chat of the homepage, in one browser tab.  The Space key or   *)
(* the wake phrase opens the microphone; what is said is transcribed over  *)
(* a socket while a recorder keeps a copy, or recorded and uploaded when   *)
(* the socket cannot be had; the words become a turn of the chat, and its  *)
(* answer is spoken while it streams in.                                   *)
(*                                                                         *)
(* Everything happens in callbacks that share React's state (ui), the last *)
(* rendered copy of it that they read (seen) and a handful of refs.  An    *)
(* event is one call of startRecordingSession with the microphone stream,  *)
(* the transcriber and the turn it leads to.                               *)
(***************************************************************************)
EXTENDS Naturals, FiniteSets

CONSTANTS
    Keys,        \* events opened with the Space key
    Wakes,       \* events opened with the wake phrase
    None,
    MaxFaults,   \* bound: calls that fail, sockets that break or end early, the session
                 \* refreshed, the page left
    MaxHangs,    \* bound: speech sockets that break when all text has been handed over
    MaxStrays    \* bound: events the page begins without the others knowing

Events == Keys \cup Wakes

ASSUME VoiceAssumption ==
    /\ Keys \cap Wakes = {}
    /\ None \notin Events
    /\ MaxFaults \in Nat /\ MaxHangs \in Nat /\ MaxStrays \in Nat

VARIABLES
    ui, seen,            \* the reducer's state; stateRef.current
    wakeOn, recognition, \* wake setting loaded and on; the wake phrase's recognizer
    pending,             \* pendingKeyboardStopRef
    sess,                \* how far startRecordingSession has come
    mic,                 \* is the event's microphone stream live?
    fallback, transcriber, batchRef,   \* refs: the event whose object they hold
    batch, stt,          \* the event's batch recorder and transcriber
    chain,               \* what stopRecording waits for: the event it acts for, and
                         \* whether the recorder's copy is at hand
    timers, timerRef,    \* events with a stop scheduled; the one the ref can clear
    turn,                \* how far processRecording and streamVoiceTurn have come
    abortRef, aborted,   \* the turn whose controller the ref holds; turns aborted
    audio, spoken,       \* turns whose speech is playing, or ever began to
    room, taken,         \* the thread of the turn; times the event's words were taken up
    mounted, faults, hangs,
    asked,               \* history: key events the user asked to end, and no cleanup has
                         \* dropped the stop
    strayed              \* history: events the page began without the others knowing

reducer == <<ui, seen, recognition>>
capture == <<sess, mic, fallback, transcriber, batchRef, batch, stt, chain>>
clocks  == <<timers, timerRef>>
turns   == <<turn, abortRef, aborted, audio, spoken, room, taken>>
budget  == <<faults, hangs>>
history == <<asked, strayed>>
vars    == <<reducer, wakeOn, pending, capture, clocks, turns, mounted, budget, history>>

Pressing == {"requesting_permission", "recording_push_to_talk"}
Working  == {"transcribing", "thinking"}
Resting  == {"idle", "armed_wake"}
\* A socket that will not deliver another transcript.
Settled  == {"text", "empty", "failed"}

Nothing == [event |-> None, audio |-> FALSE]

Init ==
    /\ ui = [phase |-> "idle", active |-> None, heard |-> None, answer |-> None,
             thread |-> None]
    /\ seen = ui
    /\ wakeOn = FALSE /\ recognition = "off" /\ pending = FALSE
    /\ sess = [e \in Events |-> "unused"]
    /\ mic = [e \in Events |-> FALSE]
    /\ fallback = None /\ transcriber = None /\ batchRef = None
    /\ batch = [e \in Events |-> "none"]
    /\ stt = [e \in Events |-> "none"]
    /\ chain = [e \in Events |-> Nothing]
    /\ timers = {} /\ timerRef = None
    /\ turn = [e \in Events |-> "none"]
    /\ abortRef = None /\ aborted = {} /\ audio = {} /\ spoken = {}
    /\ room = [e \in Events |-> None]
    /\ taken = [e \in Events |-> 0]
    /\ mounted = TRUE /\ faults = MaxFaults /\ hangs = MaxHangs
    /\ asked = {} /\ strayed = {}

Fault ==
    /\ faults > 0
    /\ faults' = faults - 1
    /\ UNCHANGED hangs

\* A render is late by a moment: a click or an event may come before it, not the answer
\* of a call, a sound or the end of six seconds.
Rendered == mounted => seen = ui

-----------------------------------------------------------------------------
(* The reducer: the state after an action, and where it gets to *)

IdlePhase(on) == IF on THEN "armed_wake" ELSE "idle"

IsActive(e) == ui.active = e
\* An action that names its event is ignored unless the event is the active one.
Guarded(e, u) == IF IsActive(e) THEN u ELSE ui
InPhase(e, phase) == Guarded(e, [ui EXCEPT !.phase = phase])

PermissionRequested(u, e) ==
    [u EXCEPT !.phase = "requesting_permission", !.active = e, !.heard = None, !.answer = None]
RecordingStarted(e) ==
    [ui EXCEPT !.phase = "recording_push_to_talk", !.active = e, !.heard = None, !.answer = None]
Heard(e) == Guarded(e, [ui EXCEPT !.heard = e, !.answer = None])
\* TRANSCRIPT_READY and THINKING
Understood(e) == Guarded(e, [Heard(e) EXCEPT !.phase = "thinking"])
Answering(e) == Guarded(e, [ui EXCEPT !.answer = e])
Answered(e) ==
    Guarded(e, [ui EXCEPT !.answer = e, !.thread = room[e]])
SpeechEnded == [ui EXCEPT !.phase = IdlePhase(wakeOn), !.active = None]
Interrupted(e) == [ui EXCEPT !.phase = "interrupted", !.active = e]
Failed(e) ==
    Guarded(e, [ui EXCEPT !.phase = "failed", !.active = None,
                          !.answer = IF turn[e] = "chat" THEN None ELSE @])

\* React renders later; until then the callbacks read the old state.
Dispatch(u) ==
    /\ ui' = IF mounted THEN u ELSE ui
    /\ UNCHANGED <<seen, recognition>>

\* Mutant: the recognizer is left on when the phrase is no longer waited for.
RecognizingOn(u) ==
    IF u.phase = "armed_wake" /\ wakeOn
    THEN IF seen.phase = "armed_wake" /\ recognition # "off" THEN recognition ELSE "on"
    ELSE recognition

\* The effect of a render on the recognizer.
Recognizing(u) ==
    IF u.phase = "armed_wake" /\ wakeOn
    THEN IF seen.phase = "armed_wake" /\ recognition # "off" THEN recognition ELSE "on"
    ELSE IF recognition = "on" THEN "stopping" ELSE recognition

\* A key press is rendered before the next event is handled.
Render(u) ==
    /\ ui' = u
    /\ seen' = u
    /\ recognition' = Recognizing(u)

Commit ==
    /\ mounted /\ seen # ui
    /\ Render(ui)
    /\ UNCHANGED <<wakeOn, pending, capture, clocks, turns, mounted, budget, history>>

\* SETTINGS_READY, with the wake phrase switched on
SettingsReady ==
    /\ mounted /\ ~wakeOn /\ Wakes # {}
    /\ wakeOn' = TRUE
    /\ Dispatch(IF ui.phase \in Resting THEN [ui EXCEPT !.phase = "armed_wake"] ELSE ui)
    /\ UNCHANGED <<pending, capture, clocks, turns, mounted, budget, history>>

-----------------------------------------------------------------------------
(* Microphone, transcriber and recorders *)

\* Mutant: the recorder that ends on its own stays in its ref.
EndTracksKept(E) ==
    /\ mic' = [e \in Events |-> mic[e] /\ e \notin E]
    /\ batch' = [e \in Events |->
                   IF e \in E /\ batch[e] = "recording" THEN "stopped" ELSE batch[e]]
    /\ fallback' = fallback

\* The tracks of these streams end, and with them the recorders that run on them.
\* The recorder beside the transcriber drops out of its ref, its copy unclaimed.
EndTracks(E) ==
    /\ mic' = [e \in Events |-> mic[e] /\ e \notin E]
    /\ batch' = [e \in Events |->
                   IF e \in E /\ batch[e] = "recording" THEN "stopped" ELSE batch[e]]
    /\ fallback' = IF fallback \in E THEN None ELSE fallback

BatchRunning == IF batchRef # None /\ batch[batchRef] = "recording" THEN {batchRef} ELSE {}

\* Clears the timer, stops the batch recorder and the transcriber the refs hold.  The
\* words are handed on in the name of the event that was active at the last render.
StopRecording(fired) ==
    LET t == transcriber
        e == seen.active
    IN  /\ timers' = timers \ {fired, timerRef} /\ timerRef' = None
        /\ batch' = [b \in Events |-> IF b \in BatchRunning THEN "stopped" ELSE batch[b]]
        /\ transcriber' = None
        /\ IF t = None
           THEN UNCHANGED <<mic, fallback, stt, chain>>
           ELSE /\ mic' = [mic EXCEPT ![t] = FALSE]
                /\ fallback' = None
                /\ IF e # None
                   THEN /\ chain' = [chain EXCEPT ![t] = [event |-> e, audio |-> fallback # None]]
                        /\ UNCHANGED stt
                   ELSE /\ stt' = [stt EXCEPT ![t] = "over"]
                        /\ UNCHANGED chain
        /\ UNCHANGED <<sess, batchRef>>

\* What stopRecording dispatches.
Stopping == IF transcriber # None /\ seen.active # None
            THEN InPhase(seen.active, "transcribing") ELSE ui

\* Mutant: a stop asked for while the microphone was being opened is forgotten.
ScheduleStopLost(e) ==
    IF e \in Wakes
    THEN /\ timers' = timers \cup {e} /\ timerRef' = e
         /\ UNCHANGED pending
    ELSE /\ UNCHANGED timers
         /\ pending' = FALSE
         /\ UNCHANGED timerRef

\* scheduleRecordingStop: a wake event has a fixed length; a key event stops at once if
\* the user has asked for it meanwhile.
ScheduleStop(e) ==
    IF e \in Wakes
    THEN /\ timers' = timers \cup {e} /\ timerRef' = e
         /\ UNCHANGED pending
    ELSE /\ timers' = timers \cup (IF pending THEN {e} ELSE {})
         /\ pending' = FALSE
         /\ UNCHANGED timerRef

\* startBatchRecorder on the same stream, the recorder beside the transcriber given up.
\* The browser may refuse the recorder, or its start: the stream is left as it is.
StartBatch(e) ==
    /\ fallback' = None
    /\ \/ /\ batch' = [batch EXCEPT ![e] = "recording"]
          /\ batchRef' = e
          /\ sess' = [sess EXCEPT ![e] = "listening"]
          /\ ScheduleStop(e)
          /\ UNCHANGED reducer
       \/ /\ batchRef' \in {batchRef, e}
          /\ sess' = [sess EXCEPT ![e] = "over"]
          /\ Dispatch(Failed(e))
          /\ UNCHANGED <<batch, clocks, pending>>

BeginSession(e) == sess' = [sess EXCEPT ![e] = "asking"]

\* The user, or the browser for them, lets the page use the microphone.
Granted(e) ==
    /\ sess[e] = "asking"
    /\ sess' = [sess EXCEPT ![e] = "token"]
    /\ mic' = [mic EXCEPT ![e] = TRUE]
    /\ \/ fallback' = e /\ UNCHANGED budget
       \/ fallback' = None /\ Fault      \* no recorder beside the transcriber
    /\ Dispatch(RecordingStarted(e))
    /\ UNCHANGED <<wakeOn, pending, transcriber, batchRef, batch, stt, chain, clocks, turns,
                   mounted, history>>

Denied(e) ==
    /\ sess[e] = "asking"
    /\ Fault
    /\ sess' = [sess EXCEPT ![e] = "over"]
    /\ Dispatch(Failed(e))
    /\ UNCHANGED <<wakeOn, pending, mic, fallback, transcriber, batchRef, batch, stt, chain,
                   clocks, turns, mounted, history>>

\* createRealtimeVoiceTranscriptionSession
SessionCreated(e) ==
    /\ Rendered /\ sess[e] = "token"
    /\ sess' = [sess EXCEPT ![e] = "opening"]
    /\ UNCHANGED <<reducer, wakeOn, pending, mic, fallback, transcriber, batchRef, batch, stt,
                   chain, clocks, turns, mounted, budget, history>>

SocketOpens(e) ==
    /\ Rendered /\ sess[e] = "opening"
    /\ sess' = [sess EXCEPT ![e] = "listening"]
    /\ stt' = [stt EXCEPT ![e] = "open"]
    /\ transcriber' = e
    /\ ScheduleStop(e)
    /\ UNCHANGED <<reducer, wakeOn, mic, fallback, batchRef, batch, chain, turns, mounted,
                   budget, history>>

\* No transcriber: whichever the ref holds is cancelled, and the batch recorder takes
\* over.  A socket that failed has its close event still to come.
RealtimeFails(e) ==
    /\ Rendered /\ sess[e] \in {"token", "opening"}
    /\ Fault
    /\ LET t == transcriber IN
        /\ stt' = [s \in Events |-> IF s = e /\ sess[e] = "opening" THEN "closing"
                                    ELSE IF s = t THEN "over" ELSE stt[s]]
        /\ mic' = [s \in Events |-> mic[s] /\ s # t]
    /\ transcriber' = None
    /\ StartBatch(e)
    /\ UNCHANGED <<wakeOn, chain, turns, mounted, history>>

\* stopAudio, from the close event of the socket that never opened
SocketCloses(e) ==
    /\ stt[e] = "closing"
    /\ stt' = [stt EXCEPT ![e] = "over"]
    /\ EndTracks({e})
    /\ UNCHANGED <<reducer, wakeOn, pending, sess, transcriber, batchRef, chain, clocks, turns,
                   mounted, budget, history>>

\* A partial transcript.
Hears(e) ==
    /\ Rendered /\ stt[e] = "open"
    /\ Heard(e) # ui
    /\ Dispatch(Heard(e))
    /\ UNCHANGED <<wakeOn, pending, capture, clocks, turns, mounted, budget, history>>

\* The service ends the turn of speech of its own accord, or the socket breaks, while
\* the user is still recording: the microphone goes off and the outcome is kept.
EndsEarly(e) ==
    /\ Rendered /\ stt[e] = "open" /\ chain[e] = Nothing
    /\ Fault
    /\ \/ /\ \E outcome \in Settled : stt' = [stt EXCEPT ![e] = outcome]
          /\ EndTracks({e})
       \/ /\ stt' = [stt EXCEPT ![e] = "failed"]     \* an error message, the socket open
          /\ UNCHANGED <<mic, batch, fallback>>
    /\ UNCHANGED <<reducer, wakeOn, pending, sess, transcriber, batchRef, chain, clocks, turns,
                   mounted, history>>

\* After stop(): the transcript comes, or the socket closes, or 12 seconds pass.
Finalized(e) ==
    /\ Rendered /\ stt[e] = "open" /\ chain[e] # Nothing
    /\ \/ /\ \E outcome \in {"text", "empty"} : stt' = [stt EXCEPT ![e] = outcome]
          /\ UNCHANGED budget
       \/ /\ stt' = [stt EXCEPT ![e] = "failed"]
          /\ Fault
    /\ UNCHANGED <<reducer, wakeOn, pending, sess, mic, fallback, transcriber, batchRef, batch,
                   chain, clocks, turns, mounted, history>>

-----------------------------------------------------------------------------
(* From words to a turn *)

Taken(e) == taken' = [taken EXCEPT ![e] = @ + 1]
TurnTo(e, step) == turn' = [turn EXCEPT ![e] = step]

\* streamVoiceTurn: in the thread of the last render, or in one of its own.
StartTurn(e) ==
    IF seen.thread = None
    THEN /\ TurnTo(e, "thread")
         /\ UNCHANGED <<room, abortRef>>
    ELSE /\ TurnTo(e, "token")
         /\ room' = [room EXCEPT ![e] = seen.thread]
         /\ abortRef' = e

\* The transcriber's outcome: its words, or else the recorder's copy, or else nothing.
ActOnWords(t) ==
    LET e == chain[t].event IN
    /\ e # None /\ stt[t] = "text"
    /\ Dispatch(Understood(e))
    /\ StartTurn(e) /\ Taken(e)
    /\ stt' = [stt EXCEPT ![t] = "over"]
    /\ chain' = [chain EXCEPT ![t] = Nothing]
    /\ UNCHANGED <<wakeOn, pending, sess, mic, fallback, transcriber, batchRef, batch, clocks,
                   aborted, audio, spoken, mounted, budget, history>>

\* Mutant: the error path ends without FAILED when the copy is not there or is empty.
ActOnCopySilent(t) ==
    LET e == chain[t].event IN
    /\ e # None /\ stt[t] \in {"empty", "failed"}
    /\ \/ /\ chain[t].audio
          /\ Dispatch(InPhase(e, "transcribing"))
          /\ TurnTo(e, "upload") /\ Taken(e)
       \/ /\ Dispatch(ui)
          /\ UNCHANGED <<turn, taken>>
    /\ stt' = [stt EXCEPT ![t] = "over"]
    /\ chain' = [chain EXCEPT ![t] = Nothing]
    /\ UNCHANGED <<wakeOn, pending, sess, mic, fallback, transcriber, batchRef, batch, clocks,
                   abortRef, aborted, audio, spoken, room, mounted, budget, history>>

\* The recorder's copy is uploaded, unless there is none or nothing is in it.
ActOnCopy(t) ==
    LET e == chain[t].event IN
    /\ e # None /\ stt[t] \in {"empty", "failed"}
    /\ \/ /\ chain[t].audio
          /\ Dispatch(InPhase(e, "transcribing"))
          /\ TurnTo(e, "upload") /\ Taken(e)
       \/ /\ Dispatch(Failed(e))
          /\ UNCHANGED <<turn, taken>>
    /\ stt' = [stt EXCEPT ![t] = "over"]
    /\ chain' = [chain EXCEPT ![t] = Nothing]
    /\ UNCHANGED <<wakeOn, pending, sess, mic, fallback, transcriber, batchRef, batch, clocks,
                   abortRef, aborted, audio, spoken, room, mounted, budget, history>>

\* Mutant: the stream of the recorder is not stopped.
BatchStopsLive(e) ==
    /\ batch[e] = "stopped"
    /\ batch' = [batch EXCEPT ![e] = "over"]
    /\ batchRef' = None
    /\ UNCHANGED mic
    /\ \/ /\ Dispatch(InPhase(e, "transcribing"))
          /\ TurnTo(e, "upload") /\ Taken(e)
       \/ /\ Dispatch(Failed(e))      \* nothing was captured
          /\ UNCHANGED <<turn, taken>>
    /\ UNCHANGED <<wakeOn, pending, sess, fallback, transcriber, stt, chain, clocks, abortRef,
                   aborted, audio, spoken, room, mounted, budget, history>>

\* The stop event of a batch recorder; it empties the ref, whoever is in it.
BatchStops(e) ==
    /\ batch[e] = "stopped"
    /\ batch' = [batch EXCEPT ![e] = "over"]
    /\ batchRef' = None
    /\ mic' = [mic EXCEPT ![e] = FALSE]
    /\ \/ /\ Dispatch(InPhase(e, "transcribing"))
          /\ TurnTo(e, "upload") /\ Taken(e)
       \/ /\ Dispatch(Failed(e))      \* nothing was captured
          /\ UNCHANGED <<turn, taken>>
    /\ UNCHANGED <<wakeOn, pending, sess, fallback, transcriber, stt, chain, clocks, abortRef,
                   aborted, audio, spoken, room, mounted, budget, history>>

\* transcribeVoiceAudio
Uploaded(e) ==
    /\ Rendered /\ turn[e] = "upload"
    /\ Dispatch(Understood(e))
    /\ StartTurn(e)
    /\ UNCHANGED <<wakeOn, pending, capture, clocks, aborted, audio, spoken, taken, mounted,
                   budget, history>>

\* createThread; only now can the turn be aborted.
ThreadCreated(e) ==
    /\ Rendered /\ turn[e] = "thread"
    /\ TurnTo(e, "token")
    /\ room' = [room EXCEPT ![e] = e]
    /\ abortRef' = e
    /\ UNCHANGED <<reducer, wakeOn, pending, capture, clocks, aborted, audio, spoken, taken,
                   mounted, budget, history>>

\* createRealtimeVoiceSynthesisSession
VoiceCreated(e) ==
    /\ Rendered /\ turn[e] = "token"
    /\ TurnTo(e, "socket")
    /\ UNCHANGED <<reducer, wakeOn, pending, capture, clocks, abortRef, aborted, audio, spoken,
                   room, taken, mounted, budget, history>>

\* catch and finally: silence, and the ref emptied, whoever is in it.
GivesUp(e) ==
    /\ TurnTo(e, "over")
    /\ audio' = audio \ {e}
    /\ aborted' = aborted \ {e}
    /\ abortRef' = None

\* The speech socket is open: the message is sent, unless the turn was aborted before.
SpeechReady(e) ==
    /\ Rendered /\ turn[e] = "socket"
    /\ IF e \in aborted
       THEN GivesUp(e)
       ELSE /\ TurnTo(e, "chat")
            /\ UNCHANGED <<abortRef, aborted, audio>>
    /\ UNCHANGED <<reducer, wakeOn, pending, capture, clocks, spoken, room, taken, mounted,
                   budget, history>>

\* The controller in the ref: its requests end with an AbortError, which is not shown;
\* a turn that waits for its speech goes on waiting, and one that is not yet there goes
\* on until it comes to a request.
CutShort == IF abortRef # None /\ turn[abortRef] \in {"socket", "chat"} THEN {abortRef} ELSE {}
Abort ==
    /\ turn' = [t \in Events |-> IF t \in CutShort THEN "over" ELSE turn[t]]
    /\ audio' = audio \ CutShort
    /\ aborted' = aborted \cup {t \in {abortRef} \ (CutShort \cup {None}) : turn[t] # "over"}

Delta(e) ==
    /\ Rendered /\ turn[e] = "chat"
    /\ Answering(e) # ui
    /\ Dispatch(Answering(e))
    /\ UNCHANGED <<wakeOn, pending, capture, clocks, turns, mounted, budget, history>>

\* The first chunk of audio is played while the answer still streams in, or after it.
AudioStarts(e) ==
    /\ Rendered /\ turn[e] \in {"chat", "speech"} /\ e \notin spoken \cup aborted
    /\ spoken' = spoken \cup {e}
    /\ audio' = audio \cup {e}
    /\ Dispatch(InPhase(e, "speaking"))
    /\ UNCHANGED <<wakeOn, pending, capture, clocks, turn, abortRef, aborted, room, taken,
                   mounted, budget, history>>

\* All text has been handed to the speech client.
ChatCompleted(e) ==
    /\ Rendered /\ turn[e] = "chat"
    /\ TurnTo(e, "speech")
    /\ Dispatch(Answered(e))
    /\ UNCHANGED <<wakeOn, pending, capture, clocks, abortRef, aborted, audio, spoken, room,
                   taken, mounted, budget, history>>

\* Mutant: the error of a turn reaches the catch of stopRecording, which uploads the copy.
TurnFailsRetried(e) ==
    /\ Rendered /\ turn[e] \in {"upload", "thread", "token", "socket", "chat", "speech"}
    /\ e \notin aborted
    /\ Fault
    /\ TurnTo(e, "upload") /\ Taken(e)
    /\ Dispatch(InPhase(e, "transcribing"))
    /\ UNCHANGED <<wakeOn, pending, capture, clocks, abortRef, aborted, audio, spoken, room, mounted,
                   history>>

\* A call fails.  Before the try nothing is cleared up.
TurnFails(e) ==
    /\ Rendered /\ turn[e] \in {"upload", "thread", "token", "socket", "chat", "speech"}
    /\ e \notin aborted
    /\ Fault
    /\ IF turn[e] \in {"socket", "chat", "speech"}
       THEN GivesUp(e)
       ELSE /\ TurnTo(e, "over")
            /\ UNCHANGED <<abortRef, aborted, audio>>
    /\ Dispatch(Failed(e))
    /\ UNCHANGED <<wakeOn, pending, capture, clocks, spoken, room, taken, mounted, history>>

\* All chunks are spoken for; the player runs out its queue.
SpeechDone(e) ==
    /\ Rendered /\ turn[e] = "speech"
    /\ TurnTo(e, "playing")
    /\ UNCHANGED <<reducer, wakeOn, pending, capture, clocks, abortRef, aborted, audio, spoken,
                   room, taken, mounted, budget, history>>

\* The socket is closed with a chunk outstanding, by the service or by the abort: the
\* promise of that chunk is never settled.
SpeechHangs(e) ==
    /\ Rendered /\ turn[e] = "speech"
    /\ IF e \in aborted
       THEN UNCHANGED budget
       ELSE hangs > 0 /\ hangs' = hangs - 1 /\ UNCHANGED faults
    /\ TurnTo(e, "hung")
    /\ UNCHANGED <<reducer, wakeOn, pending, capture, clocks, abortRef, aborted, audio, spoken,
                   room, taken, mounted, history>>

\* Mutant: the end of the speech is reported though the turn was aborted.
PlaybackEndsTold(e) ==
    /\ Rendered /\ turn[e] = "playing"
    /\ GivesUp(e)
    /\ Dispatch(IF e \in spoken THEN SpeechEnded ELSE Failed(e))
    /\ UNCHANGED <<wakeOn, pending, capture, clocks, spoken, room, taken, mounted, budget, history>>

PlaybackEnds(e) ==
    /\ Rendered /\ turn[e] = "playing"
    /\ GivesUp(e)
    /\ Dispatch(IF e \in aborted THEN ui ELSE IF e \in spoken THEN SpeechEnded ELSE Failed(e))
    /\ UNCHANGED <<wakeOn, pending, capture, clocks, spoken, room, taken, mounted, budget, history>>

\* What was queued is played out; the turn stays where it hangs.
QueuePlayedOut(e) ==
    /\ Rendered /\ turn[e] = "hung" /\ e \in audio
    /\ audio' = audio \ {e}
    /\ UNCHANGED <<reducer, wakeOn, pending, capture, clocks, turn, abortRef, aborted, spoken,
                   room, taken, mounted, budget, history>>

-----------------------------------------------------------------------------
(* The user *)

\* The page begins an event without the others knowing.
Strays(e) ==
    /\ Cardinality(strayed) < MaxStrays
    /\ strayed' = strayed \cup {e}

\* Space while the microphone is asked for or on: stop, now or as soon as it can be.
KeyStop ==
    /\ mounted /\ seen.phase \in Pressing
    /\ pending' = TRUE
    /\ StopRecording(None)
    /\ Render(Stopping)
    /\ asked' = asked \cup ({seen.active} \cap Keys)
    /\ UNCHANGED <<wakeOn, turns, mounted, budget, strayed>>

\* Space while the words or the answer are worked on.
KeyIgnored ==
    /\ mounted /\ seen.phase \in Working /\ pending
    /\ pending' = FALSE
    /\ Render(ui)
    /\ UNCHANGED <<wakeOn, capture, clocks, turns, mounted, budget, history>>

\* Space otherwise: a new event, which cuts short an answer that is being spoken.  It
\* strays when the start of another is not rendered yet, or when the ref does not hold
\* the turn that speaks: an older one, played out since, has emptied it.
Unused == {k \in Keys : sess[k] = "unused"}
KeyStart(e) ==
    /\ Unused # {}
    /\ mounted /\ seen.phase \notin Pressing \cup Working
    /\ e = CHOOSE k \in Unused : TRUE
    /\ IF ui.phase \in Pressing \/ (seen.phase = "speaking" /\ abortRef # seen.active)
       THEN Strays(e)
       ELSE UNCHANGED strayed
    /\ pending' = FALSE
    /\ IF seen.phase = "speaking"
       THEN Abort /\ abortRef' = IF CutShort = {} THEN abortRef ELSE None
       ELSE UNCHANGED <<turn, abortRef, aborted, audio>>
    /\ Render(PermissionRequested(IF seen.phase = "speaking" THEN Interrupted(e) ELSE ui, e))
    /\ BeginSession(e)
    /\ UNCHANGED <<wakeOn, mic, fallback, transcriber, batchRef, batch, stt, chain, clocks,
                   spoken, room, taken, mounted, budget, asked>>

\* The wake phrase.  A recognizer told to stop may still report what it has heard, and
\* so may one that a page which is left has started again: these events stray.
WakeHeard(e) ==
    /\ recognition # "off"
    /\ IF recognition # "on" \/ ~mounted THEN Strays(e) ELSE UNCHANGED strayed
    /\ e \in Wakes /\ sess[e] = "unused"
    /\ ui' = IF mounted THEN PermissionRequested(ui, e) ELSE ui
    /\ recognition' = "stopping"
    /\ BeginSession(e)
    /\ UNCHANGED <<seen, wakeOn, pending, mic, fallback, transcriber, batchRef, batch, stt,
                   chain, clocks, turns, mounted, budget, asked>>

\* Its end event; it is started again if the phrase was waited for at the last render.
RecognitionEnds ==
    /\ Rendered /\ recognition = "stopping"
    /\ recognition' = IF seen.phase = "armed_wake" THEN "on" ELSE "off"
    /\ UNCHANGED <<ui, seen, wakeOn, pending, capture, clocks, turns, mounted, budget, history>>

TimerFires(e) ==
    /\ e \in timers
    /\ e \in Wakes => Rendered
    /\ StopRecording(e)
    /\ Dispatch(Stopping)
    /\ UNCHANGED <<wakeOn, pending, turns, mounted, budget, history>>

Starting(e) == sess[e] \in {"asking", "token", "opening"}

\* The cleanup of the effect that listens to the key: a stop that waits for a session
\* still starting is dropped, and the history knows it.
DropStop ==
    /\ pending' = FALSE
    /\ asked' = {e \in asked : ~Starting(e)}

\* A call was answered after the session had been refreshed.  The effects that depend on
\* the session run again: the key is listened to anew and so is the wake phrase.
SessionRefreshed ==
    /\ mounted
    /\ Fault
    /\ DropStop
    /\ ui' = ui /\ seen' = ui
    /\ recognition' = IF ui.phase = "armed_wake" /\ wakeOn THEN "on"
                      ELSE IF recognition = "on" THEN "stopping" ELSE recognition
    /\ UNCHANGED <<wakeOn, capture, clocks, turns, mounted, strayed>>

\* The cleanups of an unmount, disposeHomepageVoiceResources among them: what the refs
\* hold is stopped.  The recorders' stop events, and whatever is not yet in a ref, go on.
Leave ==
    /\ mounted
    /\ mounted' = FALSE
    /\ Fault
    /\ DropStop
    /\ Abort /\ abortRef' = None
    /\ recognition' = IF recognition = "on" THEN "stopping" ELSE recognition
    /\ LET t == transcriber
           b == BatchRunning
       IN  /\ stt' = [s \in Events |-> IF s = t THEN "over" ELSE stt[s]]
           /\ mic' = [s \in Events |-> mic[s] /\ s # t /\ (s = batchRef => s \in b)]
           /\ batch' = [s \in Events |-> IF s \in b THEN "stopped" ELSE batch[s]]
    /\ transcriber' = None /\ fallback' = None /\ batchRef' = None
    /\ timers' = timers \ {timerRef} /\ timerRef' = None
    /\ UNCHANGED <<ui, seen, wakeOn, sess, chain, spoken, room, taken, strayed>>

-----------------------------------------------------------------------------

\* What goes on once it is begun, and what else may happen meanwhile.
Listening(e) ==
    \/ SessionCreated(e) \/ SocketOpens(e) \/ SocketCloses(e) \/ Finalized(e)
    \/ ActOnWords(e) \/ ActOnCopy(e) \/ BatchStops(e) \/ TimerFires(e)
Speaking(e) ==
    \/ Uploaded(e) \/ ThreadCreated(e) \/ VoiceCreated(e) \/ SpeechReady(e)
    \/ ChatCompleted(e) \/ SpeechDone(e) \/ PlaybackEnds(e)
    \/ QueuePlayedOut(e)
Otherwise(e) ==
    \/ KeyStart(e) \/ WakeHeard(e) \/ Granted(e) \/ Denied(e) \/ RealtimeFails(e)
    \/ Hears(e) \/ EndsEarly(e) \/ Delta(e) \/ AudioStarts(e) \/ TurnFails(e) \/ SpeechHangs(e)

Next ==
    \/ \E e \in Events : Listening(e) \/ Speaking(e) \/ Otherwise(e)
    \/ Commit \/ SettingsReady \/ KeyStop \/ KeyIgnored \/ RecognitionEnds
    \/ SessionRefreshed \/ Leave

Spec == Init /\ [][Next]_vars

\* React renders, timers fire, events are delivered, and a call that is not answered
\* fails: the sockets open, the service ends its answer and its speech.  No event has a
\* turn before the others; while something can go on, something does.  The user need do
\* nothing.
FairSpec ==
    /\ Spec
    /\ WF_vars(Commit \/ \E e \in Events : Listening(e) \/ Speaking(e))

-----------------------------------------------------------------------------

EventOrNone == Events \cup {None}

\* The refs hold what runs: a recorder on a live stream, a transcriber not yet stopped.
TypeOK ==
    /\ {ui.active, ui.heard, ui.answer, ui.thread} \subseteq EventOrNone
    /\ {batchRef, timerRef, abortRef} \subseteq EventOrNone
    /\ fallback # None => mic[fallback]
    /\ transcriber # None => stt[transcriber] \in {"open"} \cup Settled
    /\ \A e \in Events : chain[e] \in [event : EventOrNone, audio : BOOLEAN]
    /\ aborted \cup audio \subseteq {e \in Events : turn[e] # "none"}
    /\ timers \cup strayed \subseteq Events
    /\ asked \subseteq Keys

\* An event strays when the page begins it without the others knowing: see KeyStart and
\* WakeHeard.  What is promised below is promised until one has.

\* What a person says in one go is taken up once, whichever of transcriber, recorder
\* beside it and batch recorder it comes from (the error paths of stopRecording).
AllOnce == \A e \in Events : taken[e] <= 1
TakenOnce == strayed # {} \/ AllOnce

\* A microphone that is on will be turned off: the session that opened it is still
\* starting, or a ref leads to its transcriber or recorder, or its recorder has stopped,
\* or else no recorder could be had for it (the catch of startRecordingSession).
AllHeld ==
    \A e \in Events : mic[e] =>
        \/ sess[e] \in {"token", "opening", "over"}
        \/ transcriber = e
        \/ batch[e] = "stopped"
        \/ batch[e] = "recording" /\ batchRef = e
MicIsHeld == strayed # {} \/ AllHeld

\* What a transcriber has heard is handed on in the name of its own event, although
\* stopRecording takes the event from the last render and the transcriber from a ref.
AllTheirs == \A e \in Events : chain[e].event \in {None, e}
WordsAreTheirs == strayed # {} \/ AllTheirs

\* A turn that comes to its end does not end another: SPEECH_ENDED names no event.
EndsAnother(e) ==
    /\ turn[e] = "playing" /\ turn'[e] = "over"
    /\ ui.active \notin {None, e} /\ ui'.active # ui.active
EndsItsOwn == [][strayed # {} \/ \A e \in Events : ~EndsAnother(e)]_vars

\* The page does not stay at "transcribing" or "thinking", where Space is ignored.
TurnSettles == []<>(~mounted \/ ui.phase \notin Working \/ strayed # {})

\* A stop asked for while the microphone is still being opened is not lost
\* (pendingKeyboardStopRef): in the end the event's microphone is off, unless a cleanup
\* has dropped the stop, or no recorder could be had.
StopHolds ==
    \A e \in Keys : <>[](e \in asked => ~mic[e] \/ sess[e] = "over" \/ strayed # {})

-----------------------------------------------------------------------------
(* Properties the code does not have: the counterexamples in the README *)

\* While the page shows that it listens, the microphone is on.
ListeningIsHeard == ui.phase = "recording_push_to_talk" /\ ui.active # None => mic[ui.active]

\* The copy is at hand when the transcriber is stopped: that is what it is recorded for.
CopyIsKept == \A t \in Events : chain[t] # Nothing => chain[t].audio

\* Nobody is recorded over the page's own voice.
SilentWhileListening == ui.phase = "recording_push_to_talk" => audio = {}

\* One visit of the homepage is one thread.
OneThread == Cardinality({room[e] : e \in Events} \ {None}) <= 1

\* When the page has been left, no microphone stays on.
LeavingReleases == <>[](~mounted => \A e \in Events : ~mic[e])

\* A page that has been left begins nothing.
DeafWhenLeft ==
    [][~mounted => \A e \in Events : sess[e] = "unused" => sess'[e] = "unused"]_vars

\* A session that failed does not keep the microphone.
FailedReleases == \A e \in Events : sess[e] = "over" => ~mic[e]

\* A stop asked for before the socket opens stands, whatever is cleaned up meanwhile.
StopStands ==
    \A e \in Keys : (pending /\ sess[e] = "opening") ~> (~mic[e] \/ sess[e] = "over")

\* No turn ends another, whether or not an event has strayed.  The other promises without
\* that limit are AllOnce, AllHeld and AllTheirs.
NoneEnds == [][\A e \in Events : ~EndsAnother(e)]_vars

=============================================================================
