------------------------- MODULE WifiTelemetryProofs -------------------------
(***************************************************************************)
(* Proofs about WifiTelemetry for every queue depth, every reconnection     *)
(* period and any number of lines and sessions.                             *)
(***************************************************************************)
EXTENDS WifiTelemetry, SequenceTheorems, TLAPS

USE WifiTelemetryAssumption

-----------------------------------------------------------------------------
(* The inductive invariant *)

\* The types.  The two counters need no bound here: the accounting bounds them.
QueueShape == queue \in Seq(Frames) /\ Len(queue) <= QueueDepth

FlagShape ==
    /\ stationConnected \in BOOLEAN /\ backendConnected \in BOOLEAN
    /\ stationUp \in BOOLEAN /\ serverUp \in BOOLEAN

CountShape ==
    /\ connectionGeneration \in Nat
    /\ droppedFrames \in Nat /\ sentFrames \in Nat
    /\ sinceAttempt \in 0 .. ReconnectPeriod
    /\ session \in 0 .. MaxSessions
    /\ offered \in 0 .. MaxFrames

StepShape ==
    /\ begun \in {"no", "failed", "running"}
    /\ producer \in [at : {"idle", "connected", "send", "drop"}, frame : Frames]
    /\ sender \in [at : SenderSteps, frame : Frames, discarded : Nat]
    /\ client \in {"closed", "open", "dead"}

\* A session that run() has opened and whose generation it has not raised yet.
Pending == IF sender.at \in {"discardConnected", "bump"} THEN 1 ELSE 0

\* The generation counts the sessions, but for the pending one.
GenerationFollows == connectionGeneration + Pending = session

\* The generation a frame carries was read no later than the line was offered.
Honest(frame) == frame.connectionGeneration <= frame.born /\ frame.born <= session

QueueHonest == \A i \in 1 .. Len(queue) : Honest(queue[i])
HandsHonest == Honest(producer.frame) /\ Honest(sender.frame)

\* A line in hand still fits under the bound on lines.
OfferedFits == producer.at # "idle" => offered < MaxFrames

\* A frame that run() is about to write has passed the comparison.
WriteIsChecked ==
    sender.at = "write" => sender.frame.connectionGeneration = connectionGeneration

Shapes == QueueShape /\ FlagShape /\ CountShape /\ StepShape

IInv ==
    /\ Shapes
    /\ GenerationFollows
    /\ QueueHonest /\ HandsHonest
    /\ OfferedFits
    /\ WriteIsChecked
    /\ FramesAreAccounted

-----------------------------------------------------------------------------
(* Frames and queues *)

LEMMA NoFrameType == NoFrame \in Frames
  BY DEF NoFrame, Frames

\* What xQueueSend and xQueueReceive do to a queue of frames.
LEMMA SendFacts ==
    ASSUME NEW q \in Seq(Frames), NEW f \in Frames
    PROVE  /\ Append(q, f) \in Seq(Frames)
           /\ Len(q) \in Nat
           /\ Len(Append(q, f)) = Len(q) + 1
           /\ \A i \in 1 .. Len(q) : Append(q, f)[i] = q[i]
           /\ Append(q, f)[Len(q) + 1] = f
  BY AppendProperties

LEMMA ReceiveFacts ==
    ASSUME NEW q \in Seq(Frames), q # <<>>
    PROVE  /\ Tail(q) \in Seq(Frames)
           /\ Len(q) \in Nat /\ Len(q) >= 1
           /\ Len(Tail(q)) = Len(q) - 1
           /\ Head(q) \in Frames
           /\ Head(q) = q[1]
           /\ \A i \in 1 .. Len(Tail(q)) : Tail(q)[i] = q[i + 1]
  BY HeadTailProperties

\* The frame that enqueueLine() starts from.
LEMMA OfferFacts ==
    ASSUME CountShape, GenerationFollows
    PROVE  LET f == [connectionGeneration |-> connectionGeneration, born |-> session]
           IN  f \in Frames /\ Honest(f)
<1>1. Pending \in {0, 1}
  BY DEF Pending
<1>2. connectionGeneration \in 0 .. MaxSessions /\ connectionGeneration <= session
  BY <1>1 DEF CountShape, GenerationFollows
<1> QED
  BY <1>2 DEF CountShape, Frames, Honest

-----------------------------------------------------------------------------
(* The steps *)

\* The queue holds frames and at most QueueDepth of them.
LEMMA QueueStep == QueueShape /\ StepShape /\ [Next]_vars => QueueShape'
<1> SUFFICES ASSUME QueueShape, StepShape, [Next]_vars PROVE QueueShape'
  OBVIOUS
<1> USE DEF ProducerUnchanged, SenderUnchanged, shared, network, Goto, At, vars,
        QueueShape
<1>1. CASE QueueSend
  <2>1. producer.frame \in Frames
    BY DEF StepShape
  <2>2. \/ queue' = queue
        \/ Len(queue) < QueueDepth /\ queue' = Append(queue, producer.frame)
    BY <1>1 DEF QueueSend, BuiltFrame
  <2>3. CASE queue' = queue
    BY <2>3
  <2>4. CASE Len(queue) < QueueDepth /\ queue' = Append(queue, producer.frame)
    <3>1. /\ queue' \in Seq(Frames)
          /\ Len(queue) \in Nat
          /\ Len(queue') = Len(queue) + 1
      BY <2>1, <2>4, SendFacts
    <3> QED
      BY <2>4, <3>1, WifiTelemetryAssumption
  <2> QED
    BY <2>2, <2>3, <2>4
<1>2. CASE DiscardOne
  <2>1. queue # <<>> /\ queue' = Tail(queue)
    BY <1>2 DEF DiscardOne
  <2> QED
    BY <2>1, ReceiveFacts
<1>3. CASE ReceiveFrame
  <2>1. CASE queue = <<>>
    BY <1>3, <2>1 DEF ReceiveFrame
  <2>2. CASE queue # <<>>
    <3>1. queue' = Tail(queue)
      BY <1>3, <2>2 DEF ReceiveFrame
    <3> QED
      BY <2>2, <3>1, ReceiveFacts
  <2> QED
    BY <2>1, <2>2
<1>4. CASE
        \/ \E created \in BOOLEAN : Begin(created)
        \/ StationChanges
        \/ ServerChanges
        \/ NoticeDeadPeer
        \/ ClockTick
        \/ UNCHANGED vars
  BY <1>4 DEF Begin, StationChanges, ServerChanges, NoticeDeadPeer, ClockTick
<1>5. CASE
        \/ Offer
        \/ LoadConnected
        \/ DropLine
  BY <1>5 DEF Offer, LoadConnected, DropLine
<1>6. CASE
        \/ CheckStation
        \/ LoseStation
        \/ CheckClient
        \/ DiscardDone
        \/ ConnectBackend
  BY <1>6 DEF CheckStation, LoseStation, CheckClient, DiscardDone, ConnectBackend
<1>7. CASE
        \/ BumpGeneration
        \/ Announce
        \/ CheckGeneration
        \/ WriteFrame
        \/ WriteFailed
  BY <1>7 DEF BumpGeneration, Announce, CheckGeneration, WriteFrame, WriteFailed
<1> QED
  BY <1>1, <1>2, <1>3, <1>4, <1>5, <1>6, <1>7 DEF Next, ProducerStep, SenderStep

\* The flags of the two tasks and of the network.
LEMMA FlagStep == FlagShape /\ [Next]_vars => FlagShape'
<1> SUFFICES ASSUME FlagShape, [Next]_vars PROVE FlagShape'
  OBVIOUS
<1> USE DEF ProducerUnchanged, SenderUnchanged, shared, network, Goto, At, vars,
        FlagShape
<1>1. CASE
        \/ \E created \in BOOLEAN : Begin(created)
        \/ StationChanges
        \/ ServerChanges
        \/ NoticeDeadPeer
        \/ ClockTick
        \/ UNCHANGED vars
  BY <1>1 DEF Begin, StationChanges, ServerChanges, NoticeDeadPeer, ClockTick
<1>2. CASE
        \/ Offer
        \/ LoadConnected
        \/ DropLine
        \/ QueueSend
  BY <1>2 DEF Offer, LoadConnected, DropLine, QueueSend
<1>3. CASE
        \/ CheckStation
        \/ LoseStation
        \/ CheckClient
        \/ DiscardOne
        \/ DiscardDone
        \/ ConnectBackend
  BY <1>3 DEF CheckStation, LoseStation, CheckClient, DiscardOne, DiscardDone,
         ConnectBackend
<1>4. CASE
        \/ BumpGeneration
        \/ Announce
        \/ ReceiveFrame
        \/ CheckGeneration
        \/ WriteFrame
        \/ WriteFailed
  BY <1>4 DEF BumpGeneration, Announce, ReceiveFrame, CheckGeneration, WriteFrame,
         WriteFailed
<1> QED
  BY <1>1, <1>2, <1>3, <1>4 DEF Next, ProducerStep, SenderStep

\* The counters and the clock stay in their ranges.
LEMMA CountStep == CountShape /\ StepShape /\ OfferedFits /\ [Next]_vars => CountShape'
<1> SUFFICES ASSUME CountShape, StepShape, OfferedFits, [Next]_vars PROVE CountShape'
  OBVIOUS
<1> USE DEF ProducerUnchanged, SenderUnchanged, shared, network, Goto, At, vars,
        CountShape
<1>1. CASE DropLine
  BY <1>1 DEF DropLine, OfferedFits
<1>2. CASE QueueSend
  <2>1. offered < MaxFrames
    BY <1>2 DEF QueueSend, OfferedFits
  <2>2. /\ offered' \in {offered, offered + 1}
        /\ UNCHANGED <<connectionGeneration, droppedFrames, sentFrames, sinceAttempt, session>>
    BY <1>2 DEF QueueSend
  <2> QED
    BY <2>1, <2>2, WifiTelemetryAssumption
<1>3. CASE DiscardDone
  BY <1>3 DEF DiscardDone, StepShape, CountedDiscards
<1>4. CASE ConnectBackend
  BY <1>4 DEF ConnectBackend
<1>5. CASE ClockTick
  BY <1>5 DEF ClockTick
<1>6. CASE
        \/ \E created \in BOOLEAN : Begin(created)
        \/ StationChanges
        \/ ServerChanges
        \/ NoticeDeadPeer
        \/ UNCHANGED vars
  BY <1>6 DEF Begin, StationChanges, ServerChanges, NoticeDeadPeer
<1>7. CASE
        \/ Offer
        \/ LoadConnected
  BY <1>7 DEF Offer, LoadConnected
<1>8. CASE
        \/ CheckStation
        \/ LoseStation
        \/ CheckClient
        \/ DiscardOne
  BY <1>8 DEF CheckStation, LoseStation, CheckClient, DiscardOne
<1>9. CASE
        \/ BumpGeneration
        \/ Announce
        \/ ReceiveFrame
        \/ CheckGeneration
        \/ WriteFrame
        \/ WriteFailed
  BY <1>9 DEF BumpGeneration, Announce, ReceiveFrame, CheckGeneration, WriteFrame,
         WriteFailed
<1> QED
  BY <1>1, <1>2, <1>3, <1>4, <1>5, <1>6, <1>7, <1>8, <1>9 DEF Next, ProducerStep, SenderStep

\* The steps of the two tasks and the frames in their hands.
LEMMA StepStep == QueueShape /\ CountShape /\ StepShape /\ GenerationFollows /\ [Next]_vars => StepShape'
<1> SUFFICES ASSUME QueueShape, CountShape, StepShape, GenerationFollows, [Next]_vars PROVE StepShape'
  OBVIOUS
<1> USE DEF ProducerUnchanged, SenderUnchanged, shared, network, Goto, At, vars,
        StepShape, SenderSteps, DiscardSteps
<1>1. CASE Offer
  BY <1>1, OfferFacts DEF Offer
<1>2. CASE DropLine
  BY <1>2, NoFrameType DEF DropLine
<1>3. CASE QueueSend
  BY <1>3, NoFrameType DEF QueueSend
<1>4. CASE DiscardDone
  BY <1>4 DEF DiscardDone, AfterDiscard
<1>5. CASE ReceiveFrame
  <2>1. queue # <<>> => Head(queue) \in Frames
    BY ReceiveFacts DEF QueueShape
  <2> QED
    BY <1>5, <2>1 DEF ReceiveFrame
<1>6. CASE CheckGeneration
  BY <1>6, NoFrameType DEF CheckGeneration
<1>7. CASE WriteFrame
  BY <1>7, NoFrameType DEF WriteFrame
<1>8. CASE
        \/ \E created \in BOOLEAN : Begin(created)
        \/ StationChanges
        \/ ServerChanges
        \/ NoticeDeadPeer
        \/ ClockTick
        \/ UNCHANGED vars
  BY <1>8 DEF Begin, StationChanges, ServerChanges, NoticeDeadPeer, ClockTick
<1>9. CASE
        \/ LoadConnected
  BY <1>9 DEF LoadConnected
<1>10. CASE
        \/ CheckStation
        \/ LoseStation
        \/ CheckClient
        \/ DiscardOne
        \/ ConnectBackend
  BY <1>10 DEF CheckStation, LoseStation, CheckClient, DiscardOne, ConnectBackend
<1>11. CASE
        \/ BumpGeneration
        \/ Announce
        \/ WriteFailed
  BY <1>11 DEF BumpGeneration, Announce, WriteFailed
<1> QED
  BY <1>1, <1>2, <1>3, <1>4, <1>5, <1>6, <1>7, <1>8, <1>9, <1>10, <1>11 DEF Next, ProducerStep, SenderStep

\* run() raises the generation once for every session it opens.
LEMMA GenerationStep == CountShape /\ StepShape /\ GenerationFollows /\ [Next]_vars => GenerationFollows'
<1> SUFFICES ASSUME CountShape, StepShape, GenerationFollows, [Next]_vars PROVE GenerationFollows'
  OBVIOUS
<1> USE DEF ProducerUnchanged, SenderUnchanged, shared, network, Goto, At, vars,
        CountShape, StepShape, GenerationFollows, Pending, SenderSteps,
        DiscardSteps
<1>1. CASE DiscardDone
  BY <1>1 DEF DiscardDone, AfterDiscard
<1>2. CASE ConnectBackend
  BY <1>2 DEF ConnectBackend
<1>3. CASE BumpGeneration
  BY <1>3 DEF BumpGeneration
<1>4. CASE
        \/ \E created \in BOOLEAN : Begin(created)
        \/ StationChanges
        \/ ServerChanges
        \/ NoticeDeadPeer
        \/ ClockTick
        \/ UNCHANGED vars
  BY <1>4 DEF Begin, StationChanges, ServerChanges, NoticeDeadPeer, ClockTick
<1>5. CASE
        \/ Offer
        \/ LoadConnected
        \/ DropLine
        \/ QueueSend
  BY <1>5 DEF Offer, LoadConnected, DropLine, QueueSend
<1>6. CASE
        \/ CheckStation
        \/ LoseStation
        \/ CheckClient
        \/ DiscardOne
  BY <1>6 DEF CheckStation, LoseStation, CheckClient, DiscardOne
<1>7. CASE
        \/ Announce
        \/ ReceiveFrame
        \/ CheckGeneration
        \/ WriteFrame
        \/ WriteFailed
  BY <1>7 DEF Announce, ReceiveFrame, CheckGeneration, WriteFrame, WriteFailed
<1> QED
  BY <1>1, <1>2, <1>3, <1>4, <1>5, <1>6, <1>7 DEF Next, ProducerStep, SenderStep

\* No later step makes a queued frame look younger than its line.
LEMMA QueueHonestStep == QueueShape /\ CountShape /\ StepShape /\ QueueHonest /\ HandsHonest /\ [Next]_vars => QueueHonest'
<1> SUFFICES ASSUME QueueShape, CountShape, StepShape, QueueHonest, HandsHonest, [Next]_vars PROVE QueueHonest'
  OBVIOUS
<1> USE DEF ProducerUnchanged, SenderUnchanged, shared, network, Goto, At, vars,
        QueueHonest, Honest
<1>1. CASE QueueSend
  <2>1. producer.frame \in Frames /\ session' = session
    BY <1>1 DEF QueueSend, StepShape
  <2>2. CASE queue' = queue
    BY <2>1, <2>2 DEF Honest
  <2>3. CASE queue' = Append(queue, producer.frame)
    BY <2>1, <2>3, SendFacts DEF QueueShape, HandsHonest, Honest
  <2> QED
    BY <1>1, <2>2, <2>3 DEF QueueSend, BuiltFrame
<1>2. CASE DiscardOne
  <2>1. queue # <<>> /\ queue' = Tail(queue) /\ session' = session
    BY <1>2 DEF DiscardOne
  <2> QED
    BY <2>1, ReceiveFacts DEF QueueShape, Honest
<1>3. CASE ConnectBackend
  <2>1. queue' = queue /\ session' \in {session, session + 1}
    BY <1>3 DEF ConnectBackend
  <2>2. \A i \in 1 .. Len(queue) : queue[i].born \in Nat
    <3> TAKE i \in 1 .. Len(queue)
    <3>1. queue[i] \in Frames
      BY ElementOfSeq DEF QueueShape
    <3> QED
      BY <3>1 DEF Frames
  <2> QED
    BY <2>1, <2>2 DEF Honest, CountShape
<1>4. CASE ReceiveFrame
  <2>1. session' = session
    BY <1>4 DEF ReceiveFrame
  <2>2. CASE queue' = queue
    BY <2>1, <2>2 DEF Honest
  <2>3. CASE queue # <<>> /\ queue' = Tail(queue)
    BY <2>1, <2>3, ReceiveFacts DEF QueueShape, Honest
  <2> QED
    BY <1>4, <2>2, <2>3 DEF ReceiveFrame
<1>5. CASE
        \/ \E created \in BOOLEAN : Begin(created)
        \/ StationChanges
        \/ ServerChanges
        \/ NoticeDeadPeer
        \/ ClockTick
        \/ UNCHANGED vars
  BY <1>5 DEF Begin, StationChanges, ServerChanges, NoticeDeadPeer, ClockTick
<1>6. CASE
        \/ Offer
        \/ LoadConnected
        \/ DropLine
  BY <1>6 DEF Offer, LoadConnected, DropLine
<1>7. CASE
        \/ CheckStation
        \/ LoseStation
        \/ CheckClient
        \/ DiscardDone
  BY <1>7 DEF CheckStation, LoseStation, CheckClient, DiscardDone
<1>8. CASE
        \/ BumpGeneration
        \/ Announce
        \/ CheckGeneration
        \/ WriteFrame
        \/ WriteFailed
  BY <1>8 DEF BumpGeneration, Announce, CheckGeneration, WriteFrame, WriteFailed
<1> QED
  BY <1>1, <1>2, <1>3, <1>4, <1>5, <1>6, <1>7, <1>8 DEF Next, ProducerStep, SenderStep

\* Nor a frame in hand.
LEMMA HandsHonestStep == QueueShape /\ CountShape /\ StepShape /\ GenerationFollows /\ QueueHonest /\ HandsHonest /\ [Next]_vars => HandsHonest'
<1> SUFFICES ASSUME QueueShape, CountShape, StepShape, GenerationFollows, QueueHonest, HandsHonest, [Next]_vars PROVE HandsHonest'
  OBVIOUS
<1> USE DEF ProducerUnchanged, SenderUnchanged, shared, network, Goto, At, vars,
        HandsHonest, Honest, CountShape, StepShape
<1>1. CASE Offer
  <2>1. /\ producer'.frame = [connectionGeneration |-> connectionGeneration, born |-> session]
        /\ sender' = sender /\ session' = session
    BY <1>1 DEF Offer
  <2> QED
    BY <2>1, OfferFacts DEF Honest
<1>2. CASE LoadConnected
  BY <1>2 DEF LoadConnected
<1>3. CASE DropLine
  BY <1>3 DEF DropLine, NoFrame
<1>4. CASE QueueSend
  BY <1>4 DEF QueueSend, NoFrame
<1>5. CASE DiscardOne
  BY <1>5 DEF DiscardOne
<1>6. CASE DiscardDone
  BY <1>6 DEF DiscardDone
<1>7. CASE ConnectBackend
  <2>1. /\ producer' = producer /\ sender'.frame = sender.frame
        /\ session' \in {session, session + 1}
    BY <1>7 DEF ConnectBackend, StepShape
  <2>2. producer.frame.born \in Nat /\ sender.frame.born \in Nat
    BY DEF StepShape, Frames
  <2> QED
    BY <2>1, <2>2 DEF Honest, CountShape
<1>8. CASE ReceiveFrame
  <2>1. producer' = producer /\ session' = session
    BY <1>8 DEF ReceiveFrame
  <2>2. CASE sender'.frame = sender.frame
    BY <2>1, <2>2 DEF Honest
  <2>3. CASE queue # <<>> /\ sender'.frame = Head(queue)
    BY <2>1, <2>3, ReceiveFacts DEF QueueShape, QueueHonest, Honest
  <2> QED
    BY <1>8, <2>2, <2>3 DEF ReceiveFrame, StepShape
<1>9. CASE CheckGeneration
  <2>1. producer' = producer /\ session' = session /\ sender'.frame \in {sender.frame, NoFrame}
    BY <1>9 DEF CheckGeneration
  <2> QED
    BY <2>1 DEF NoFrame
<1>10. CASE WriteFrame
  <2>1. producer' = producer /\ session' = session /\ sender'.frame = NoFrame
    BY <1>10 DEF WriteFrame
  <2> QED
    BY <2>1 DEF NoFrame
<1>11. CASE
        \/ \E created \in BOOLEAN : Begin(created)
        \/ StationChanges
        \/ ServerChanges
        \/ NoticeDeadPeer
        \/ ClockTick
        \/ UNCHANGED vars
  BY <1>11 DEF Begin, StationChanges, ServerChanges, NoticeDeadPeer, ClockTick
<1>12. CASE
        \/ CheckStation
        \/ LoseStation
        \/ CheckClient
  BY <1>12 DEF CheckStation, LoseStation, CheckClient
<1>13. CASE
        \/ BumpGeneration
        \/ Announce
        \/ WriteFailed
  BY <1>13 DEF BumpGeneration, Announce, WriteFailed
<1> QED
  BY <1>1, <1>2, <1>3, <1>4, <1>5, <1>6, <1>7, <1>8, <1>9, <1>10, <1>11, <1>12,
     <1>13 DEF Next, ProducerStep, SenderStep

\* A line in hand has room.
LEMMA FitsStep == CountShape /\ StepShape /\ OfferedFits /\ [Next]_vars => OfferedFits'
<1> SUFFICES ASSUME CountShape, StepShape, OfferedFits, [Next]_vars PROVE OfferedFits'
  OBVIOUS
<1> USE DEF ProducerUnchanged, SenderUnchanged, shared, network, Goto, At, vars,
        CountShape, StepShape, OfferedFits
<1>1. CASE Offer
  BY <1>1 DEF Offer
<1>2. CASE LoadConnected
  BY <1>2 DEF LoadConnected
<1>3. CASE DropLine
  BY <1>3 DEF DropLine
<1>4. CASE QueueSend
  BY <1>4 DEF QueueSend
<1>5. CASE
        \/ \E created \in BOOLEAN : Begin(created)
        \/ StationChanges
        \/ ServerChanges
        \/ NoticeDeadPeer
        \/ ClockTick
        \/ UNCHANGED vars
  BY <1>5 DEF Begin, StationChanges, ServerChanges, NoticeDeadPeer, ClockTick
<1>6. CASE
        \/ CheckStation
        \/ LoseStation
        \/ CheckClient
        \/ DiscardOne
        \/ DiscardDone
        \/ ConnectBackend
  BY <1>6 DEF CheckStation, LoseStation, CheckClient, DiscardOne, DiscardDone,
         ConnectBackend
<1>7. CASE
        \/ BumpGeneration
        \/ Announce
        \/ ReceiveFrame
        \/ CheckGeneration
        \/ WriteFrame
        \/ WriteFailed
  BY <1>7 DEF BumpGeneration, Announce, ReceiveFrame, CheckGeneration, WriteFrame,
         WriteFailed
<1> QED
  BY <1>1, <1>2, <1>3, <1>4, <1>5, <1>6, <1>7 DEF Next, ProducerStep, SenderStep

\* The comparison still holds when the frame is written.
LEMMA CheckedStep == StepShape /\ WriteIsChecked /\ [Next]_vars => WriteIsChecked'
<1> SUFFICES ASSUME StepShape, WriteIsChecked, [Next]_vars PROVE WriteIsChecked'
  OBVIOUS
<1> USE DEF ProducerUnchanged, SenderUnchanged, shared, network, Goto, At, vars,
        StepShape, WriteIsChecked, SenderSteps, DiscardSteps
<1>1. CASE DiscardDone
  BY <1>1 DEF DiscardDone, AfterDiscard
<1>2. CASE CheckGeneration
  BY <1>2 DEF CheckGeneration
<1>3. CASE
        \/ \E created \in BOOLEAN : Begin(created)
        \/ StationChanges
        \/ ServerChanges
        \/ NoticeDeadPeer
        \/ ClockTick
        \/ UNCHANGED vars
  BY <1>3 DEF Begin, StationChanges, ServerChanges, NoticeDeadPeer, ClockTick
<1>4. CASE
        \/ Offer
        \/ LoadConnected
        \/ DropLine
        \/ QueueSend
  BY <1>4 DEF Offer, LoadConnected, DropLine, QueueSend
<1>5. CASE
        \/ CheckStation
        \/ LoseStation
        \/ CheckClient
        \/ DiscardOne
        \/ ConnectBackend
  BY <1>5 DEF CheckStation, LoseStation, CheckClient, DiscardOne, ConnectBackend
<1>6. CASE
        \/ BumpGeneration
        \/ Announce
        \/ ReceiveFrame
        \/ WriteFrame
        \/ WriteFailed
  BY <1>6 DEF BumpGeneration, Announce, ReceiveFrame, WriteFrame, WriteFailed
<1> QED
  BY <1>1, <1>2, <1>3, <1>4, <1>5, <1>6 DEF Next, ProducerStep, SenderStep

\* Every step that takes a frame from one place puts it into another.
LEMMA AccountedStep == QueueShape /\ CountShape /\ StepShape /\ FramesAreAccounted /\ [Next]_vars => FramesAreAccounted'
<1> SUFFICES ASSUME QueueShape, CountShape, StepShape, FramesAreAccounted, [Next]_vars PROVE FramesAreAccounted'
  OBVIOUS
<1> USE DEF ProducerUnchanged, SenderUnchanged, shared, network, Goto, At, vars,
        CountShape, StepShape, FramesAreAccounted, InHand, SenderSteps,
        DiscardSteps
<1>1. CASE DropLine
  <2>1. Len(queue) \in Nat
    BY LenProperties DEF QueueShape
  <2>2. /\ offered' = offered + 1 /\ droppedFrames' = droppedFrames + 1
        /\ UNCHANGED <<queue, sentFrames, sender>>
    BY <1>1 DEF DropLine
  <2> QED
    BY <2>1, <2>2
<1>2. CASE QueueSend
  <2>1. producer.frame \in Frames /\ Len(queue) \in Nat
    BY LenProperties DEF QueueShape
  <2>2. /\ \/ offered' = offered /\ queue' = queue
           \/ offered' = offered + 1 /\ queue' = Append(queue, producer.frame)
        /\ UNCHANGED <<droppedFrames, sentFrames, sender>>
    BY <1>2 DEF QueueSend, BuiltFrame
  <2>3. CASE queue' = Append(queue, producer.frame) /\ offered' = offered + 1
    <3>1. Len(queue') = Len(queue) + 1
      BY <2>1, <2>3, SendFacts DEF QueueShape
    <3> QED
      BY <2>1, <2>2, <2>3, <3>1
  <2> QED
    BY <2>1, <2>2, <2>3
<1>3. CASE DiscardOne
  <2>1. queue # <<>> /\ queue' = Tail(queue)
    BY <1>3 DEF DiscardOne
  <2>2. Len(queue) \in Nat /\ Len(queue') = Len(queue) - 1
    BY <2>1, ReceiveFacts DEF QueueShape
  <2>3. /\ sender'.discarded = sender.discarded + 1 /\ InHand' = InHand
        /\ UNCHANGED <<offered, droppedFrames, sentFrames>>
    BY <1>3 DEF DiscardOne
  <2> QED
    BY <2>2, <2>3
<1>4. CASE DiscardDone
  <2>1. Len(queue) \in Nat
    BY LenProperties DEF QueueShape
  <2>2. /\ droppedFrames' = droppedFrames + sender.discarded
        /\ UNCHANGED <<offered, queue, sentFrames>>
    BY <1>4 DEF DiscardDone, CountedDiscards
  <2>3. AfterDiscard(sender.at) \in {"connect", "bump", "station"}
    BY DEF AfterDiscard
  <2>4. sender'.discarded = 0 /\ InHand' = 0 /\ InHand = 0
    BY <1>4, <2>3 DEF DiscardDone
  <2> QED
    BY <2>1, <2>2, <2>4
<1>5. CASE ReceiveFrame
  <2>1. /\ InHand = 0 /\ sender'.discarded = sender.discarded
        /\ UNCHANGED <<offered, droppedFrames, sentFrames>>
    BY <1>5 DEF ReceiveFrame
  <2>2. CASE queue' = queue /\ sender'.at = "station"
    BY <2>1, <2>2
  <2>3. CASE queue # <<>> /\ queue' = Tail(queue) /\ sender'.at = "check"
    <3>1. Len(queue) \in Nat /\ Len(queue') = Len(queue) - 1
      BY <2>3, ReceiveFacts DEF QueueShape
    <3>2. InHand' = 1
      BY <2>3
    <3> QED
      BY <2>1, <3>1, <3>2
  <2> QED
    BY <1>5, <2>2, <2>3 DEF ReceiveFrame
<1>6. CASE CheckGeneration
  <2>1. Len(queue) \in Nat
    BY LenProperties DEF QueueShape
  <2>2. /\ InHand = 1 /\ sender'.discarded = sender.discarded
        /\ UNCHANGED <<queue, offered, sentFrames>>
    BY <1>6 DEF CheckGeneration
  <2>3. \/ InHand' = 1 /\ droppedFrames' = droppedFrames
        \/ InHand' = 0 /\ droppedFrames' = droppedFrames + 1
    BY <1>6 DEF CheckGeneration
  <2> QED
    BY <2>1, <2>2, <2>3
<1>7. CASE WriteFrame
  <2>1. Len(queue) \in Nat
    BY LenProperties DEF QueueShape
  <2>2. /\ InHand = 1 /\ InHand' = 0 /\ sender'.discarded = sender.discarded
        /\ UNCHANGED <<queue, offered>>
    BY <1>7 DEF WriteFrame
  <2>3. \/ sentFrames' = sentFrames + 1 /\ droppedFrames' = droppedFrames
        \/ sentFrames' = sentFrames /\ droppedFrames' = droppedFrames + 1
    BY <1>7 DEF WriteFrame
  <2> QED
    BY <2>1, <2>2, <2>3
<1>8. CASE
        \/ \E created \in BOOLEAN : Begin(created)
        \/ StationChanges
        \/ ServerChanges
        \/ NoticeDeadPeer
        \/ ClockTick
        \/ UNCHANGED vars
  BY <1>8 DEF Begin, StationChanges, ServerChanges, NoticeDeadPeer, ClockTick
<1>9. CASE
        \/ Offer
        \/ LoadConnected
  BY <1>9 DEF Offer, LoadConnected
<1>10. CASE
        \/ CheckStation
        \/ LoseStation
        \/ CheckClient
        \/ ConnectBackend
  BY <1>10 DEF CheckStation, LoseStation, CheckClient, ConnectBackend
<1>11. CASE
        \/ BumpGeneration
        \/ Announce
        \/ WriteFailed
  BY <1>11 DEF BumpGeneration, Announce, WriteFailed
<1> QED
  BY <1>1, <1>2, <1>3, <1>4, <1>5, <1>6, <1>7, <1>8, <1>9, <1>10, <1>11 DEF Next, ProducerStep, SenderStep

-----------------------------------------------------------------------------
(* The theorems *)

LEMMA IInvInit == Init => IInv
<1> SUFFICES ASSUME Init PROVE IInv
  OBVIOUS
<1>1. QueueShape
  BY EmptySeq DEF Init, QueueShape
<1>2. CountShape
  BY DEF Init, CountShape
<1>3. FlagShape
  BY DEF Init, FlagShape
<1>4. StepShape
  BY NoFrameType DEF Init, StepShape, SenderSteps
<1>5. GenerationFollows /\ WriteIsChecked /\ OfferedFits /\ FramesAreAccounted
  BY EmptySeq DEF Init, GenerationFollows, Pending, WriteIsChecked, OfferedFits,
     FramesAreAccounted, InHand
<1>6. QueueHonest /\ HandsHonest
  BY EmptySeq DEF Init, QueueHonest, HandsHonest, Honest, NoFrame
<1> QED
  BY <1>1, <1>2, <1>3, <1>4, <1>5, <1>6 DEF IInv, Shapes

LEMMA IInvStep == IInv /\ [Next]_vars => IInv'
  BY QueueStep, FlagStep, CountStep, StepStep, GenerationStep, QueueHonestStep,
     HandsHonestStep, FitsStep, CheckedStep, AccountedStep
  DEF IInv, Shapes

\* A frame is never younger than the generation its line was offered in, and every line
\* is accounted for (WifiTelemetry.cpp): the invariant of the theorems below.
THEOREM InductiveInvariant == Spec => []IInv
  BY IInvInit, IInvStep, PTL DEF Spec

\* No frame of an old TCP session is written into a new one, for any queue depth
\* and any interleaving of loop() with the task (run() 119-144, enqueueLine()).
THEOREM FramesStayInTheirSession == Spec => []OnlyFramesOfThisSession
<1>1. IInv => OnlyFramesOfThisSession
  <2> SUFFICES ASSUME IInv, sender.at = "write" PROVE sender.frame.born = session
    BY DEF OnlyFramesOfThisSession
  <2>1. sender.frame.connectionGeneration = session
    BY DEF IInv, Shapes, CountShape, GenerationFollows, Pending, WriteIsChecked
  <2>2. sender.frame.born \in Nat /\ session \in Nat
    BY DEF IInv, Shapes, CountShape, StepShape, Frames
  <2> QED
    BY <2>1, <2>2 DEF IInv, HandsHonest, Honest
<1> QED
  BY <1>1, InductiveInvariant, PTL

\* The counters of telemetry account for every line offered (wifi_tx, wifi_drop).
THEOREM CountersAreTrue == Spec => []FramesAreAccounted
<1>1. IInv => FramesAreAccounted
  BY DEF IInv
<1> QED
  BY <1>1, InductiveInvariant, PTL

\* Every variable keeps its type; the counters never exceed the lines offered.
THEOREM TypeCorrect == Spec => []TypeOK
<1>1. IInv => TypeOK
  <2> SUFFICES ASSUME IInv PROVE TypeOK
    OBVIOUS
  <2>1. Len(queue) \in Nat /\ InHand \in Nat /\ sender.discarded \in Nat
    BY LenProperties DEF IInv, Shapes, QueueShape, StepShape, InHand
  <2>2. /\ droppedFrames \in 0 .. MaxFrames /\ sentFrames \in 0 .. MaxFrames
        /\ sender.discarded \in 0 .. MaxFrames
    BY <2>1 DEF IInv, Shapes, CountShape, FramesAreAccounted
  <2>3. connectionGeneration \in 0 .. MaxSessions
    BY DEF IInv, Shapes, CountShape, GenerationFollows, Pending
  <2>4. sender \in [at : SenderSteps, frame : Frames, discarded : 0 .. MaxFrames]
    BY <2>2 DEF IInv, Shapes, StepShape
  <2> QED
    BY <2>2, <2>3, <2>4
    DEF IInv, Shapes, QueueShape, FlagShape, CountShape, StepShape, TypeOK
<1> QED
  BY <1>1, InductiveInvariant, PTL

=============================================================================
