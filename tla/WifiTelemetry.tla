---------------------------- MODULE WifiTelemetry ----------------------------
(***************************************************************************)
(* The Wi-Fi telemetry sender of MAIN: loop() offers lines through          *)
(* enqueueLine(), the task run() on the other core keeps the station and    *)
(* the TCP session and sends the queued frames                              *)
(* (firmware/main_esp32/src/WifiTelemetry.cpp).  The two share the queue    *)
(* and atomics; a step is one access to them.                               *)
(***************************************************************************)
EXTENDS Integers, Sequences

CONSTANTS
    QueueDepth,       \* kWifiTransmitQueueDepth
    ReconnectPeriod,  \* kWifiReconnectMs, in timer steps
    MaxFrames,        \* a bound: lines loop() offers
    MaxSessions       \* a bound: TCP sessions the server accepts

ASSUME WifiTelemetryAssumption ==
    /\ QueueDepth \in Nat \ {0}
    /\ ReconnectPeriod \in Nat
    /\ MaxFrames \in Nat /\ MaxSessions \in Nat

VARIABLES
    begun,                 \* "no", "failed" or "running": what begin() left
    queue,                 \* frames
    stationConnected, backendConnected, connectionGeneration,
    droppedFrames, sentFrames,
    producer,              \* enqueueLine(): its step and its frame
    sender,                \* run(): its step, the frame in hand, discardedCount
    client,                \* "closed", "open", or "dead": the peer is gone
    sinceAttempt,          \* age of lastBackendAttemptMs
    stationUp, serverUp,   \* the network
    session,               \* history: TCP sessions opened so far
    offered                \* history: enqueueLine() calls that returned

shared == <<queue, stationConnected, backendConnected, connectionGeneration,
            droppedFrames, sentFrames>>
network == <<stationUp, serverUp>>
vars == <<begun, shared, producer, sender, client, sinceAttempt, network,
          session, offered>>

\* born: the session count when loop() offered the line (history).
Frames == [connectionGeneration : 0 .. MaxSessions, born : 0 .. MaxSessions]
NoFrame == [connectionGeneration |-> 0, born |-> 0]

DiscardSteps == {"discardLost", "discardClosed", "discardConnected", "discardFailed"}
SenderSteps == DiscardSteps \cup
    {"station", "lost", "client", "connect", "bump", "announce", "receive",
     "check", "write", "writeFailed"}

Init ==
    /\ begun = "no"
    /\ queue = <<>>
    /\ stationConnected = FALSE /\ backendConnected = FALSE
    /\ connectionGeneration = 0
    /\ droppedFrames = 0 /\ sentFrames = 0
    /\ producer = [at |-> "idle", frame |-> NoFrame]
    /\ sender = [at |-> "station", frame |-> NoFrame, discarded |-> 0]
    /\ client = "closed"
    /\ sinceAttempt = 0
    /\ stationUp \in BOOLEAN /\ serverUp \in BOOLEAN
    /\ session = 0
    /\ offered = 0

\* begin(): without a queue and a task nothing ever runs.
Begin(created) ==
    /\ begun = "no"
    /\ begun' = IF created THEN "running" ELSE "failed"
    /\ UNCHANGED <<shared, producer, sender, client, sinceAttempt, network,
                   session, offered>>

-----------------------------------------------------------------------------
(* enqueueLine(), called by loop() *)

ProducerUnchanged ==
    UNCHANGED <<begun, sender, client, sinceAttempt, network, session,
                stationConnected, backendConnected, connectionGeneration, sentFrames>>

\* The line counts as offered in the session in which its generation is read.
Offer ==
    /\ begun # "no"
    /\ producer.at = "idle"
    /\ offered < MaxFrames
    /\ producer' = [at |-> IF begun = "running" THEN "connected" ELSE "drop",
                    frame |-> [connectionGeneration |-> connectionGeneration,
                               born |-> session]]
    /\ UNCHANGED <<queue, droppedFrames, offered>>
    /\ ProducerUnchanged

LoadConnected ==
    /\ producer.at = "connected"
    /\ producer' = [producer EXCEPT !.at = IF backendConnected THEN "send" ELSE "drop"]
    /\ UNCHANGED <<queue, droppedFrames, offered>>
    /\ ProducerUnchanged

DropLine ==
    /\ producer.at = "drop"
    /\ droppedFrames' = droppedFrames + 1
    /\ offered' = offered + 1
    /\ producer' = [at |-> "idle", frame |-> NoFrame]
    /\ UNCHANGED queue
    /\ ProducerUnchanged

\* Faulty variant: the generation is read again when the frame is built.
BuiltFrameReloaded(f) == [f EXCEPT !.connectionGeneration = connectionGeneration]

BuiltFrame(f) == f

\* xQueueSend() without waiting; a full queue refuses the frame.
QueueSend ==
    /\ producer.at = "send"
    /\ IF Len(queue) < QueueDepth
       THEN /\ queue' = Append(queue, BuiltFrame(producer.frame))
            /\ offered' = offered + 1
            /\ producer' = [at |-> "idle", frame |-> NoFrame]
       ELSE /\ producer' = [producer EXCEPT !.at = "drop"]
            /\ UNCHANGED <<queue, offered>>
    /\ UNCHANGED droppedFrames
    /\ ProducerUnchanged

-----------------------------------------------------------------------------
(* run(), the task of the other core *)

Goto(step) == sender' = [sender EXCEPT !.at = step]
At(step) == begun = "running" /\ sender.at = step
SenderUnchanged == UNCHANGED <<begun, producer, network, offered>>

CheckStation ==
    /\ At("station")
    /\ stationConnected' = stationUp
    /\ Goto(IF stationUp THEN "client" ELSE "lost")
    /\ UNCHANGED <<queue, backendConnected, connectionGeneration, droppedFrames,
                   sentFrames, client, sinceAttempt, session>>
    /\ SenderUnchanged

LoseStation ==
    /\ At("lost")
    /\ backendConnected' = FALSE
    /\ client' = "closed"
    /\ Goto("discardLost")
    /\ UNCHANGED <<queue, stationConnected, connectionGeneration, droppedFrames,
                   sentFrames, sinceAttempt, session>>
    /\ SenderUnchanged

\* Faulty variant: every pass over a closed client counts as an attempt.
CheckClientRestartsTimer ==
    /\ At("client")
    /\ \E connected \in {c \in BOOLEAN : (client = "open" => c) /\ (client = "closed" => ~c)} :
          /\ backendConnected' = connected
          /\ Goto(IF connected THEN "receive" ELSE "discardClosed")
          /\ client' = IF connected THEN client ELSE "closed"
          /\ sinceAttempt' = IF connected THEN sinceAttempt ELSE 0
    /\ UNCHANGED <<queue, stationConnected, connectionGeneration, droppedFrames,
                   sentFrames, session>>
    /\ SenderUnchanged

\* client.connected(); a peer that is gone may go unnoticed.
CheckClient ==
    /\ At("client")
    /\ \E connected \in {c \in BOOLEAN : (client = "open" => c) /\ (client = "closed" => ~c)} :
          /\ backendConnected' = connected
          /\ Goto(IF connected THEN "receive" ELSE "discardClosed")
          /\ client' = IF connected THEN client ELSE "closed"
    /\ UNCHANGED <<queue, stationConnected, connectionGeneration, droppedFrames,
                   sentFrames, sinceAttempt, session>>
    /\ SenderUnchanged

\* Where run() goes once discardQueuedFrames() found the queue empty.
AfterDiscard(step) ==
    CASE step = "discardClosed" /\ sinceAttempt >= ReconnectPeriod -> "connect"
      [] step = "discardConnected" -> "bump"
      [] OTHER -> "station"

\* One xQueueReceive() of discardQueuedFrames().
DiscardOne ==
    /\ begun = "running" /\ sender.at \in DiscardSteps
    /\ queue # <<>>
    /\ queue' = Tail(queue)
    /\ sender' = [sender EXCEPT !.discarded = @ + 1]
    /\ UNCHANGED <<stationConnected, backendConnected, connectionGeneration,
                   droppedFrames, sentFrames, client, sinceAttempt, session>>
    /\ SenderUnchanged

\* Faulty variant: the discarded frames are not counted.
CountedDiscardsNone == 0

CountedDiscards == sender.discarded

DiscardDone ==
    /\ begun = "running" /\ sender.at \in DiscardSteps
    /\ queue = <<>>
    /\ droppedFrames' = droppedFrames + CountedDiscards
    /\ sender' = [sender EXCEPT !.at = AfterDiscard(@), !.discarded = 0]
    /\ UNCHANGED <<queue, stationConnected, backendConnected, connectionGeneration,
                   sentFrames, client, sinceAttempt, session>>
    /\ SenderUnchanged

ConnectBackend ==
    /\ At("connect")
    /\ sinceAttempt' = 0
    /\ IF stationUp /\ serverUp /\ session < MaxSessions
       THEN client' = "open" /\ session' = session + 1 /\ Goto("discardConnected")
       ELSE client' = "closed" /\ UNCHANGED session /\ Goto("station")
    /\ UNCHANGED shared
    /\ SenderUnchanged

BumpGeneration ==
    /\ At("bump")
    /\ connectionGeneration' = connectionGeneration + 1
    /\ Goto("announce")
    /\ UNCHANGED <<queue, stationConnected, backendConnected, droppedFrames,
                   sentFrames, client, sinceAttempt, session>>
    /\ SenderUnchanged

Announce ==
    /\ At("announce")
    /\ backendConnected' = TRUE
    /\ Goto("station")
    /\ UNCHANGED <<queue, stationConnected, connectionGeneration, droppedFrames,
                   sentFrames, client, sinceAttempt, session>>
    /\ SenderUnchanged

\* xQueueReceive() with a timeout.
ReceiveFrame ==
    /\ At("receive")
    /\ IF queue = <<>>
       THEN Goto("station") /\ UNCHANGED queue
       ELSE /\ queue' = Tail(queue)
            /\ sender' = [sender EXCEPT !.at = "check", !.frame = Head(queue)]
    /\ UNCHANGED <<stationConnected, backendConnected, connectionGeneration,
                   droppedFrames, sentFrames, client, sinceAttempt, session>>
    /\ SenderUnchanged

CheckGeneration ==
    /\ At("check")
    /\ IF sender.frame.connectionGeneration = connectionGeneration
       THEN Goto("write") /\ UNCHANGED droppedFrames
       ELSE /\ droppedFrames' = droppedFrames + 1
            /\ sender' = [sender EXCEPT !.at = "station", !.frame = NoFrame]
    /\ UNCHANGED <<queue, stationConnected, backendConnected, connectionGeneration,
                   sentFrames, client, sinceAttempt, session>>
    /\ SenderUnchanged

\* client.write(): it may fall short, and may report every byte written to a
\* peer that is gone.
WriteFrame ==
    /\ At("write")
    /\ \/ /\ client # "closed"
          /\ sentFrames' = sentFrames + 1
          /\ sender' = [sender EXCEPT !.at = "station", !.frame = NoFrame]
          /\ UNCHANGED droppedFrames
       \/ /\ droppedFrames' = droppedFrames + 1
          /\ sender' = [sender EXCEPT !.at = "writeFailed", !.frame = NoFrame]
          /\ UNCHANGED sentFrames
    /\ UNCHANGED <<queue, stationConnected, backendConnected, connectionGeneration,
                   client, sinceAttempt, session>>
    /\ SenderUnchanged

WriteFailed ==
    /\ At("writeFailed")
    /\ backendConnected' = FALSE
    /\ client' = "closed"
    /\ Goto("discardFailed")
    /\ UNCHANGED <<queue, stationConnected, connectionGeneration, droppedFrames,
                   sentFrames, sinceAttempt, session>>
    /\ SenderUnchanged

SenderStep ==
    \/ CheckStation \/ LoseStation \/ CheckClient
    \/ DiscardOne \/ DiscardDone
    \/ ConnectBackend \/ BumpGeneration \/ Announce
    \/ ReceiveFrame \/ CheckGeneration \/ WriteFrame \/ WriteFailed

ProducerStep == Offer \/ LoadConnected \/ DropLine \/ QueueSend

-----------------------------------------------------------------------------
(* The network and the clock *)

\* The station or the server comes or goes; a session does not outlive either,
\* but the client need not know.
StationChanges ==
    /\ stationUp' = ~stationUp
    /\ client' = IF client = "open" THEN "dead" ELSE client
    /\ UNCHANGED <<begun, shared, producer, sender, sinceAttempt, serverUp, session, offered>>

ServerChanges ==
    /\ serverUp' = ~serverUp
    /\ client' = IF client = "open" THEN "dead" ELSE client
    /\ UNCHANGED <<begun, shared, producer, sender, sinceAttempt, stationUp, session, offered>>

\* The stack learns that the peer is gone.
NoticeDeadPeer ==
    /\ client = "dead"
    /\ client' = "closed"
    /\ UNCHANGED <<begun, shared, producer, sender, sinceAttempt, network, session, offered>>

ClockTick ==
    /\ sinceAttempt < ReconnectPeriod
    /\ sinceAttempt' = sinceAttempt + 1
    /\ UNCHANGED <<begun, shared, producer, sender, client, network, session, offered>>

Next ==
    \/ \E created \in BOOLEAN : Begin(created)
    \/ ProducerStep
    \/ SenderStep
    \/ StationChanges \/ ServerChanges \/ NoticeDeadPeer
    \/ ClockTick

Spec == Init /\ [][Next]_vars

\* FreeRTOS runs the task, time passes, the stack finds a dead peer out.
FairSpec == Spec /\ WF_vars(SenderStep) /\ WF_vars(ClockTick) /\ WF_vars(NoticeDeadPeer)

-----------------------------------------------------------------------------
(* Properties *)

InHand == IF sender.at \in {"check", "write"} THEN 1 ELSE 0

\* Type invariant: counters and queue stay within their bounds, and the two
\* tasks are at steps of theirs.
TypeOK ==
    /\ begun \in {"no", "failed", "running"}
    /\ queue \in Seq(Frames) /\ Len(queue) <= QueueDepth
    /\ stationConnected \in BOOLEAN /\ backendConnected \in BOOLEAN
    /\ connectionGeneration \in 0 .. MaxSessions
    /\ droppedFrames \in 0 .. MaxFrames /\ sentFrames \in 0 .. MaxFrames
    /\ producer \in [at : {"idle", "connected", "send", "drop"}, frame : Frames]
    /\ sender \in [at : SenderSteps, frame : Frames, discarded : 0 .. MaxFrames]
    /\ client \in {"closed", "open", "dead"}
    /\ sinceAttempt \in 0 .. ReconnectPeriod
    /\ stationUp \in BOOLEAN /\ serverUp \in BOOLEAN
    /\ session \in 0 .. MaxSessions
    /\ offered \in 0 .. MaxFrames

\* A frame that run() writes was offered in the session it is written to:
\* however the two tasks interleave with a reconnection, no frame of an old TCP
\* session reaches a new one (docs/IMPLEMENTATION_STATUS.md 374-375, run() 136-139).
OnlyFramesOfThisSession == sender.at = "write" => sender.frame.born = session

\* Every line offered is sent, dropped and counted once, or still on its way,
\* across queue refusals, discards and failed writes (the wifi_tx and wifi_drop
\* counters of the telemetry).
FramesAreAccounted ==
    offered = sentFrames + droppedFrames + Len(queue) + InHand + sender.discarded

\* Once the network stays up, the sender comes to report the backend connected
\* and keeps doing so: no state of run() is a dead end.  (The premise leaves out
\* the model's bound on sessions.)
BackendReturns ==
    begun = "running" ~> \/ []<>(~stationUp \/ ~serverUp \/ session = MaxSessions)
                         \/ <>[]backendConnected

=============================================================================
