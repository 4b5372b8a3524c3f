---------------------------- MODULE StatusStream ----------------------------
(***************************************************************************)
(* How a browser follows one artifact: the event stream of the API writes  *)
(* the status it read from the row and then every event that the worker    *)
(* publishes to the artifact's Redis channel, until a terminal one.        *)
(*                                                                         *)
(* All streams of an API process share one Redis connection.  The          *)
(* subscriber keeps a map from the channel to the set of listeners and     *)
(* subscribes when it makes the first set, unsubscribes when it removes    *)
(* the last listener.  A set is an object: one that has been taken out of  *)
(* the map is a different one from the set a later stream puts in.  When   *)
(* SUBSCRIBE is refused the set stays in the map, and later streams join   *)
(* it without subscribing.                                                 *)
(*                                                                         *)
(* The names differ from those of ArtifactPipeline, whose writes these     *)
(* are, so that one module may extend both.                                *)
(***************************************************************************)
EXTENDS Naturals, Sequences, FiniteSets

CONSTANTS
    Streams,      \* requests to the events route, each made once
    MaxMishaps,   \* bound: messages lost with the Redis connection, SUBSCRIBEs refused,
                  \* artifacts taken by a reconciler pass, and clients gone before the
                  \* route listens for it
    Aborts,       \* may a client close its stream or time out?
    MaxTries      \* bound: attempts of the intelligence job (3 in the code)

ASSUME StreamAssumption ==
    /\ IsFiniteSet(Streams)
    /\ MaxMishaps \in Nat
    /\ Aborts \in BOOLEAN
    /\ MaxTries \in Nat \ {0}

VARIABLES
    stored,                 \* the row: ingestion_status and intelligence.status of the artifact
    jpc, jsnap, silent,     \* the artifact job, or the pass that took the artifact
    intelPc, tries,         \* the intelligence job
    cmds, subscribed, inbox,    \* the connection: commands sent, server state, replies
    current, members,       \* the map entry of the channel (0: none) and every set made
    spc, mine, seen, view, ended, gone, armed,  \* the streams
    written,                \* history: what the row has been
    refused,                \* history: the sets whose SUBSCRIBE was refused
    mishaps                 \* how many there may still be

writers    == <<jpc, jsnap, silent, intelPc, tries>>
redis      == <<cmds, subscribed, inbox>>
map        == <<current, members, refused>>
streams    == <<spc, mine, seen, view, ended, gone, armed>>
streamVars == <<stored, written, writers, redis, map, streams, mishaps>>

Row(status, intel) == [status |-> status, intel |-> intel]
Rows == [status : {"queued", "processing", "completed", "failed"},
         intel : {"none", "queued", "processing", "completed", "failed"}]

\* isStreamTerminal
Terminal(r) ==
    \/ r.status = "failed"
    \/ r.status = "completed" /\ r.intel \in {"none", "completed", "failed"}

\* The value of a variable that holds nothing any more.
FreshRow == Row("queued", "none")

Sets == 1..Cardinality(Streams)
NewSet == CHOOSE g \in Sets : \A s \in Streams : mine[s] # g

StreamInit ==
    /\ stored = FreshRow
    /\ written = {stored}
    /\ refused = {}
    /\ jpc = "claim" /\ jsnap = stored /\ silent = FALSE
    /\ intelPc = "idle" /\ tries = 0
    /\ cmds = <<>> /\ subscribed = FALSE /\ inbox = <<>>
    /\ current = 0
    /\ members = [g \in Sets |-> {}]
    /\ spc = [s \in Streams |-> "idle"]
    /\ mine = [s \in Streams |-> 0]
    /\ seen = [s \in Streams |-> stored]
    /\ view = [s \in Streams |-> stored]
    /\ ended = [s \in Streams |-> FALSE]
    /\ gone = [s \in Streams |-> FALSE]
    /\ armed = [s \in Streams |-> FALSE]
    /\ mishaps = MaxMishaps

-----------------------------------------------------------------------------
(* The worker: rows are written first and published after *)

\* PUBLISH: the server sends the event to a connection that is subscribed now.
Publish(r) ==
    /\ inbox' = IF subscribed THEN Append(inbox, [kind |-> "event", row |-> r]) ELSE inbox
    /\ UNCHANGED <<cmds, subscribed>>

SetRow(status, intel) ==
    /\ stored' = Row(status, intel)
    /\ written' = written \cup {stored'}

JGoto(label) == jpc' = label
IntelGoto(label) == intelPc' = label

Mishap ==
    /\ mishaps > 0
    /\ mishaps' = mishaps - 1

\* A job claims the artifact, or a reconciler pass does, which publishes nothing.
ClaimRow ==
    /\ jpc = "claim"
    /\ SetRow("processing", "none")
    /\ \/ silent' = FALSE /\ UNCHANGED mishaps
       \/ silent' = TRUE /\ Mishap
    /\ JGoto("progress")
    /\ UNCHANGED <<jsnap, intelPc, tries, redis, map, streams>>

\* markDocumentIndexingProgress
Progress ==
    /\ jpc = "progress"
    /\ IF silent THEN UNCHANGED redis ELSE Publish(Row("processing", "none"))
    /\ JGoto("work")
    /\ UNCHANGED <<stored, written, jsnap, silent, intelPc, tries, map, streams, mishaps>>

Fail ==
    /\ jpc = "work"
    /\ SetRow("failed", "none")
    /\ JGoto("readback")
    /\ UNCHANGED <<jsnap, silent, intelPc, tries, redis, map, streams, mishaps>>

HandToIntelligence ==
    /\ jpc = "work"
    /\ IntelGoto("announce")
    /\ JGoto("complete")
    /\ UNCHANGED <<stored, written, jsnap, silent, tries, redis, map, streams, mishaps>>

CompleteRow ==
    /\ jpc = "complete"
    /\ SetRow("completed", "queued")
    /\ JGoto("readback")
    /\ UNCHANGED <<jsnap, silent, intelPc, tries, redis, map, streams, mishaps>>

\* publishArtifactCompletionStatus reads the row ...
ReadBack ==
    /\ jpc = "readback"
    /\ jsnap' = stored
    /\ JGoto(IF silent THEN "done" ELSE "publish")
    /\ UNCHANGED <<stored, written, silent, intelPc, tries, redis, map, streams, mishaps>>

\* ... and publishes what it read.
PublishJob ==
    /\ jpc = "publish"
    /\ Publish(jsnap)
    /\ JGoto("done")
    /\ jsnap' = FreshRow
    /\ UNCHANGED <<stored, written, silent, intelPc, tries, map, streams, mishaps>>

\* The intelligence worker announces "processing" before it does anything.
Announce ==
    /\ intelPc = "announce"
    /\ Publish(Row("completed", "processing"))
    /\ IntelGoto("mark")
    /\ UNCHANGED <<stored, written, jpc, jsnap, silent, tries, map, streams, mishaps>>

MarkProcessing ==
    /\ intelPc = "mark"
    /\ SetRow("completed", "processing")
    /\ IntelGoto("final")
    /\ UNCHANGED <<jpc, jsnap, silent, tries, redis, map, streams, mishaps>>

\* Mutant: the end is announced before it is written.
PublishedFirst ==
    /\ intelPc = "final"
    /\ IntelGoto("publish")
    /\ Publish(Row("completed", "completed"))
    /\ UNCHANGED <<stored, written, jpc, jsnap, silent, tries, map, streams, mishaps>>

FinalizeCompleted ==
    /\ intelPc = "final"
    /\ SetRow("completed", "completed")
    /\ IntelGoto("publish")
    /\ UNCHANGED <<jpc, jsnap, silent, tries, redis, map, streams, mishaps>>

\* Mutant: one attempt too many.
FinalizeFailedOnceMore ==
    /\ intelPc = "final"
    /\ SetRow("completed", "failed")
    /\ tries' = tries + 1
    /\ IntelGoto(IF tries + 1 <= MaxTries THEN "announce" ELSE "done")
    /\ UNCHANGED <<jpc, jsnap, silent, redis, map, streams, mishaps>>

\* The handler throws and is run again: the publish after it is not reached.
FinalizeFailed ==
    /\ intelPc = "final"
    /\ SetRow("completed", "failed")
    /\ tries' = tries + 1
    /\ IntelGoto(IF tries + 1 < MaxTries THEN "announce" ELSE "done")
    /\ UNCHANGED <<jpc, jsnap, silent, redis, map, streams, mishaps>>

PublishIntelligence ==
    /\ intelPc = "publish"
    /\ Publish(Row("completed", "completed"))
    /\ IntelGoto("done")
    /\ UNCHANGED <<stored, written, jpc, jsnap, silent, tries, map, streams, mishaps>>

WorkerStep ==
    \/ ClaimRow \/ Progress \/ Fail \/ HandToIntelligence \/ CompleteRow
    \/ ReadBack \/ PublishJob
    \/ Announce \/ MarkProcessing \/ FinalizeCompleted \/ FinalizeFailed
    \/ PublishIntelligence

-----------------------------------------------------------------------------
(* The connection *)

SGoto(s, label) == spc' = [spc EXCEPT ![s] = label]

\* What the stream held goes with it.
Close(s) ==
    /\ SGoto(s, "closed")
    /\ view' = [view EXCEPT ![s] = FreshRow]
    /\ ended' = [ended EXCEPT ![s] = FALSE]
    /\ gone' = [gone EXCEPT ![s] = FALSE]
    /\ armed' = [armed EXCEPT ![s] = FALSE]

\* The server carries out the next command; only a SUBSCRIBE is waited for.
Execute ==
    /\ cmds # <<>>
    /\ LET c == Head(cmds) IN
       /\ subscribed' = (c.kind = "subscribe")
       /\ inbox' = IF c.kind = "subscribe"
                   THEN Append(inbox, [kind |-> "reply", stream |-> c.stream]) ELSE inbox
    /\ cmds' = Tail(cmds)
    /\ UNCHANGED <<stored, written, writers, map, streams, mishaps>>

\* The server refuses a SUBSCRIBE (an UNSUBSCRIBE it never does).
Refuse ==
    /\ Mishap
    /\ cmds # <<>>
    /\ LET c == Head(cmds) IN
       /\ c.kind = "subscribe"
       /\ inbox' = Append(inbox, [kind |-> "refusal", stream |-> c.stream])
       /\ refused' = refused \cup {mine[c.stream]}
    /\ cmds' = Tail(cmds)
    /\ UNCHANGED <<stored, written, writers, subscribed, current, members, streams>>

\* The promise of redis.subscribe resolves; its continuation runs later.
Reply ==
    /\ inbox # <<>>
    /\ Head(inbox).kind = "reply"
    /\ SGoto(Head(inbox).stream, "resumed")
    /\ inbox' = Tail(inbox)
    /\ UNCHANGED <<stored, written, writers, cmds, subscribed, map, mine, seen, view, ended,
                   gone, armed, mishaps>>

\* It rejects: the exception leaves the stream, whose set stays in the map, empty
\* of it.
SubscribeThrows ==
    /\ inbox # <<>>
    /\ Head(inbox).kind = "refusal"
    /\ Close(Head(inbox).stream)
    /\ inbox' = Tail(inbox)
    /\ UNCHANGED <<stored, written, writers, cmds, subscribed, map, mine, seen, mishaps>>

\* The "message" handler calls the listeners of the set that is in the map.
Deliver ==
    /\ inbox # <<>>
    /\ Head(inbox).kind = "event"
    /\ LET heard == IF current = 0 THEN {} ELSE members[current]
           r == Head(inbox).row IN
       /\ view' = [s \in Streams |-> IF s \in heard THEN r ELSE view[s]]
       /\ ended' = [s \in Streams |-> ended[s] \/ (s \in heard /\ Terminal(r))]
    /\ inbox' = Tail(inbox)
    /\ UNCHANGED <<stored, written, writers, cmds, subscribed, map, spc, mine, seen, gone, armed,
                   mishaps>>

\* Redis keeps no messages: what is under way when the connection breaks is gone.
Lose ==
    /\ Mishap
    /\ inbox # <<>>
    /\ Head(inbox).kind = "event"
    /\ inbox' = Tail(inbox)
    /\ UNCHANGED <<stored, written, writers, cmds, subscribed, map, streams>>

-----------------------------------------------------------------------------
(* A stream: handleArtifactEvents and the subscriber it calls *)

\* The route's authorization reads the row.
Open(s) ==
    /\ spc[s] = "idle"
    /\ seen' = [seen EXCEPT ![s] = stored]
    /\ SGoto(s, "opened")
    /\ UNCHANGED <<stored, written, writers, redis, map, mine, view, ended, gone, armed, mishaps>>

\* The first event is what was read; a terminal status ends the stream.
WriteInitial(s) ==
    /\ spc[s] = "opened"
    /\ view' = [view EXCEPT ![s] = seen[s]]
    /\ SGoto(s, IF Terminal(seen[s]) THEN "closed" ELSE "subscribing")
    /\ seen' = [seen EXCEPT ![s] = FreshRow]
    /\ UNCHANGED <<stored, written, writers, redis, map, mine, ended, gone, armed, mishaps>>

\* The abort listener is added (it is not called for an abort that has been),
\* then subscribeToArtifactStatus runs up to its await.
Subscribe(s) ==
    /\ spc[s] = "subscribing"
    /\ armed' = [armed EXCEPT ![s] = ~gone[s]]
    /\ IF current = 0
       THEN /\ current' = NewSet
            /\ mine' = [mine EXCEPT ![s] = NewSet]
            /\ cmds' = Append(cmds, [kind |-> "subscribe", stream |-> s])
            /\ SGoto(s, "waiting")
            /\ UNCHANGED members
       ELSE /\ members' = [members EXCEPT ![current] = @ \cup {s}]
            /\ SGoto(s, "listening")
            /\ UNCHANGED <<current, mine, cmds>>
    /\ UNCHANGED <<stored, written, refused, writers, subscribed, inbox, seen, view, ended, gone, mishaps>>

\* After the await the listener joins the set that was made before it.
Join(s) ==
    /\ spc[s] = "resumed"
    /\ members' = [members EXCEPT ![mine[s]] = @ \cup {s}]
    /\ SGoto(s, "listening")
    /\ UNCHANGED <<stored, written, refused, writers, redis, current, mine, seen, view, ended, gone,
                   armed, mishaps>>

\* The client navigates away, reloads, or its ten minutes are over.
Abort(s) ==
    /\ Aborts
    /\ ~gone[s]
    /\ \/ spc[s] \in {"waiting", "resumed", "listening"} /\ UNCHANGED mishaps
       \/ spc[s] \in {"opened", "subscribing"} /\ Mishap
    /\ gone' = [gone EXCEPT ![s] = TRUE]
    /\ UNCHANGED <<stored, written, writers, redis, map, spc, mine, seen, view, ended, armed>>

CanLeave(s) == spc[s] = "listening" /\ (ended[s] \/ (gone[s] /\ armed[s]))

\* Mutant: the channel is left although others listen to it.
LeaveForAll(s) ==
    /\ CanLeave(s)
    /\ IF current = 0 THEN UNCHANGED <<current, members, cmds>>
       ELSE /\ members' = [members EXCEPT ![current] = @ \ {s}]
            /\ current' = IF members[current] \ {s} = {} THEN 0 ELSE current
            /\ cmds' = Append(cmds, [kind |-> "unsubscribe", stream |-> s])
    /\ SGoto(s, "closed")
    /\ UNCHANGED <<stored, written, refused, writers, subscribed, inbox, mine, seen, view, ended, gone,
                   armed, mishaps>>

\* Mutant: a stream only ends with a terminal event.
LeaveAtEnd(s) ==
    /\ spc[s] = "listening"
    /\ ended[s]
    /\ SGoto(s, "closed")
    /\ UNCHANGED <<stored, written, writers, redis, map, mine, seen, view, ended, gone, armed,
                   mishaps>>

\* unsubscribe looks the set up again, and leaves the channel when it is empty.
Leave(s) ==
    /\ CanLeave(s)
    /\ IF current = 0 THEN UNCHANGED <<current, members, cmds>>
       ELSE /\ members' = [members EXCEPT ![current] = @ \ {s}]
            /\ IF members[current] \ {s} = {}
               THEN /\ current' = 0
                    /\ cmds' = Append(cmds, [kind |-> "unsubscribe", stream |-> s])
               ELSE UNCHANGED <<current, cmds>>
    /\ Close(s)
    /\ UNCHANGED <<stored, written, refused, writers, subscribed, inbox, mine, seen, mishaps>>

StreamStep(s) == WriteInitial(s) \/ Subscribe(s) \/ Join(s) \/ Leave(s)

StreamNext ==
    \/ WorkerStep
    \/ Execute \/ Refuse \/ Reply \/ SubscribeThrows \/ Deliver \/ Lose
    \/ \E s \in Streams : Open(s) \/ StreamStep(s) \/ Abort(s)

StreamSpec == StreamInit /\ [][StreamNext]_streamVars

\* The worker, the connection and the event loop go on; a client gives up
\* after ten minutes at the latest.
StreamFairness ==
    /\ WF_streamVars(WorkerStep)
    /\ WF_streamVars(Execute) /\ WF_streamVars(Reply \/ SubscribeThrows \/ Deliver)
    /\ \A s \in Streams : WF_streamVars(StreamStep(s)) /\ WF_streamVars(Abort(s))

FairStreamSpec == StreamSpec /\ StreamFairness

-----------------------------------------------------------------------------
(* Properties *)

\* The intelligence job stays within its attempts; the rest is what the parts hold.
StreamTypeOK ==
    /\ stored \in Rows /\ jsnap \in Rows /\ written \in SUBSET Rows
    /\ tries \in 0..MaxTries /\ mishaps \in 0..MaxMishaps
    /\ subscribed \in BOOLEAN
    /\ current \in Sets \cup {0}
    /\ members \in [Sets -> SUBSET Streams] /\ refused \in SUBSET Sets
    /\ mine \in [Streams -> Sets \cup {0}]
    /\ view \in [Streams -> Rows] /\ seen \in [Streams -> Rows]

\* When no command is under way, the server sends the channel's events exactly
\* when the map has an entry for it: no subscription leaks, and none is missing
\* but that of an entry whose own SUBSCRIBE was refused.
SubscriptionFollowsMap ==
    cmds = <<>> => (subscribed <=> current \notin refused \cup {0})

\* ... none at all.
EntryIsSubscribed ==
    (cmds = <<>> /\ current # 0) => subscribed

\* Nobody is told of an end that has not been written to the row.
EndWasWritten ==
    \A s \in Streams : Terminal(view[s]) => view[s] \in written

\* Every stream that is opened is closed, by a terminal event or by its client,
\* whatever is lost or never published: unless its client had gone before the
\* route listened for it.
StreamsClose ==
    \A s \in Streams :
        spc[s] = "opened" ~> spc[s] = "closed" \/ (gone[s] /\ ~armed[s])

\* ... even when its client had gone before.
AlwaysCloses ==
    \A s \in Streams : spc[s] \in {"opened", "listening"} ~> spc[s] = "closed"

\* A stream that listens is in the set the messages are delivered to.
ListenerIsReached ==
    \A s \in Streams :
        (spc[s] = "listening" /\ ~CanLeave(s)) =>
            (current # 0 /\ s \in members[current])

\* A stream that is open when the artifact comes to an end is told of it.
HearsTheEnd ==
    \A s \in Streams : spc[s] = "opened" ~> Terminal(view[s])

=============================================================================
