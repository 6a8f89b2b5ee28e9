-------------------------- MODULE LiveRuntimeProofs --------------------------
(***************************************************************************)
(* Proofs about LiveRuntime for any set of readers, any timeout, any time  *)
(* between two passes, any counter width and any number of packets,        *)
(* reboots and reconnections.                                              *)
(***************************************************************************)
EXTENDS LiveRuntime, SequenceTheorems, TLAPS

\* Why what is shown as live is recent: until a pass has accepted a frame its
\* sample is at most as old as the last pass let it become; once it has, the
\* sample is younger than the pass.
LiveSampleIsYoung ==
    world.state = "live" =>
        /\ at # "open"
        /\ last.some /\ ~stalePublished
        /\ sampleAge <= (IF at = "packets" /\ accepted THEN sincePass
                         ELSE NoticedAt + sincePass)

IInv == TypeOK /\ LiveSampleIsYoung

Controllers == [boot : 0 .. MaxBoots, ms : 0 .. MaxMs, seq : 0 .. MaxSequence,
                silent : 0 .. BootTime]
Worlds == [state : {"offline", "stale", "live"}, cut : BOOLEAN]

LEMMA ConstantsAreNat ==
    /\ ResetSequence \in Nat /\ StaleTimeout \in Nat /\ MaxPassGap \in Nat
    /\ BootTime \in Nat /\ MaxMs \in Nat /\ MaxSequence \in Nat /\ MaxBoots \in Nat
    /\ Capacity \in Nat /\ CounterModulus \in Nat
    /\ NoticedAt \in Nat /\ AgeLimit \in Nat
    /\ StaleTimeout <= NoticedAt /\ MaxPassGap <= NoticedAt
    /\ AgeLimit = NoticedAt + MaxPassGap + 1
    /\ 2 * MaxSequence < CounterModulus /\ 2 * MaxMs < CounterModulus
  BY LiveRuntimeAssumption DEF LiveRuntimeAssumption, NoticedAt, AgeLimit

-----------------------------------------------------------------------------
(* Types *)

LEMMA CappedType ==
    ASSUME NEW t \in Nat, NEW limit \in Nat
    PROVE  Capped(t, limit) \in 0 .. limit /\ Capped(t, limit) <= t
  BY DEF Capped

\* What a poll takes, and what it leaves, are frames.
LEMMA SplitType ==
    ASSUME NEW s \in Sources, wire \in [Sources -> Seq(Frames)],
           NEW taken \in 0 .. Len(wire[s])
    PROVE  /\ First(s, taken) \in Seq(Frames)
           /\ Rest(s, taken) \in Seq(Frames)
           /\ Len(Rest(s, taken)) <= Len(wire[s])
  <1>1. wire[s] \in Seq(Frames) /\ Len(wire[s]) \in Nat
    BY LenProperties
  <1>2. First(s, taken) \in Seq(Frames)
    BY <1>1, SubSeqProperties DEF First
  <1>3. /\ Rest(s, taken) \in Seq(Frames)
        /\ Len(Rest(s, taken)) = IF taken + 1 <= Len(wire[s])
                                 THEN Len(wire[s]) - (taken + 1) + 1 ELSE 0
    BY <1>1, SubSeqProperties DEF Rest
  <1> QED
    BY <1>1, <1>2, <1>3

LEMMA InitTypes == Init => TypeOK
  <1> SUFFICES ASSUME Init PROVE TypeOK
    OBVIOUS
  <1>1. PICK configured \in SourceSets : wire = [s \in configured |-> <<>>]
    BY DEF Init
  <1>2. Sources = configured
    BY <1>1 DEF Sources
  <1>3. wire \in [Sources -> Seq(Frames)] /\ \A s \in Sources : Len(wire[s]) <= Capacity
    BY <1>1, <1>2, EmptySeq, ConstantsAreNat
  <1>4. NoFrame \in Frames
    BY ConstantsAreNat DEF NoFrame, Frames
  <1>5. /\ controller \in Controllers
        /\ sampleAge \in 0 .. AgeLimit /\ sincePass \in 0 .. MaxPassGap
    BY ConstantsAreNat DEF Init, Controllers
  <1>6. last \in [some : BOOLEAN, frame : Frames]
    BY <1>4 DEF Init
  <1>7. batch \in Seq(Frames)
    BY EmptySeq DEF Init
  <1> QED
    BY <1>2, <1>3, <1>5, <1>6, <1>7 DEF Init, TypeOK, Controllers

LEMMA EmitTypes ==
    ASSUME TypeOK, NEW cut \in Cuts, NEW reached \in SUBSET Sources, Emit(cut, reached)
    PROVE  TypeOK'
  <1> DEFINE p == [boot |-> controller.boot, seq |-> controller.seq,
                   ms |-> controller.ms, cut |-> cut]
  <1>1. p \in Frames
    BY DEF TypeOK, Frames, Cuts
  <1>2. wire' = [s \in Sources |-> IF s \in reached THEN Append(wire[s], p) ELSE wire[s]]
    BY DEF Emit
  <1>3. Sources' = Sources
    BY <1>2 DEF Sources
  <1> HIDE DEF p
  <1>4. ASSUME NEW s \in Sources
        PROVE  wire'[s] \in Seq(Frames) /\ Len(wire'[s]) <= Capacity
    <2>1. wire[s] \in Seq(Frames) /\ Len(wire[s]) <= Capacity /\ Len(wire[s]) \in Nat
      BY LenProperties DEF TypeOK
    <2>2. Append(wire[s], p) \in Seq(Frames)
          /\ Len(Append(wire[s], p)) = Len(wire[s]) + 1
      BY <1>1, <2>1, AppendProperties
    <2>3. s \in reached => Len(wire[s]) < Capacity
      BY DEF Emit
    <2> QED
      BY <1>2, <2>1, <2>2, <2>3, ConstantsAreNat
  <1>5. wire' \in [Sources' -> Seq(Frames)]
    BY <1>2, <1>3, <1>4
  <1>6. controller' \in Controllers
    <2>1. controller \in Controllers /\ controller.seq \in 0 .. MaxSequence
      BY DEF TypeOK, Controllers
    <2> DEFINE q == controller.seq
    <2>2. q < MaxSequence /\ q \in 0 .. MaxSequence
      BY <2>1 DEF Emit
    <2>3. MaxSequence \in Nat
      BY ConstantsAreNat
    <2> HIDE DEF q
    <2>4. q + 1 \in 0 .. MaxSequence
      BY <2>2, <2>3
    <2> QED
      BY <2>1, <2>4 DEF Emit, Controllers, q
  <1> QED
    BY <1>3, <1>4, <1>5, <1>6 DEF Emit, TypeOK, runtime, Controllers

LEMMA TimeTypes ==
    ASSUME TypeOK, Reboot \/ TimePasses
    PROVE  TypeOK'
  <1>1. Sources' = Sources
    BY DEF Reboot, TimePasses, Sources
  <1>2. CASE Reboot
    <2>1. controller' \in Controllers
      BY <1>2, ConstantsAreNat DEF Reboot, TypeOK, Controllers
    <2> QED
      BY <1>1, <1>2, <2>1 DEF Reboot, TypeOK, runtime, Controllers
  <1>3. CASE TimePasses
    <2> DEFINE ms == IF controller.silent = 0 THEN Capped(controller.ms + 1, MaxMs)
                     ELSE controller.ms
               silent == IF controller.silent = 0 THEN 0 ELSE controller.silent - 1
    <2>1. /\ controller.ms \in 0 .. MaxMs /\ controller.silent \in 0 .. BootTime
          /\ controller \in Controllers
      BY DEF TypeOK, Controllers
    <2>2. ms \in 0 .. MaxMs /\ silent \in 0 .. BootTime
      <3>1. controller.ms + 1 \in Nat
        BY <2>1, ConstantsAreNat
      <3>2. Capped(controller.ms + 1, MaxMs) \in 0 .. MaxMs
        BY <3>1, CappedType, ConstantsAreNat
      <3> QED
        BY <2>1, <3>2, ConstantsAreNat
    <2>3. controller' = [controller EXCEPT !.ms = ms, !.silent = silent]
      BY <1>3 DEF TimePasses
    <2> HIDE DEF ms, silent
    <2>4. controller' \in Controllers
      BY <2>1, <2>2, <2>3 DEF Controllers
    <2>5. sampleAge' \in 0 .. AgeLimit
      <3>1. sampleAge + 1 \in Nat
        BY ConstantsAreNat DEF TypeOK
      <3>2. Capped(sampleAge + 1, AgeLimit) \in 0 .. AgeLimit
        BY <3>1, CappedType, ConstantsAreNat
      <3> QED
        BY <1>3, <3>2, ConstantsAreNat DEF TimePasses
    <2>6. sincePass' \in 0 .. MaxPassGap
      <3>1. sincePass \in 0 .. MaxPassGap
        BY DEF TypeOK
      <3>2. sincePass' = (IF at = "open" THEN 0 ELSE sincePass + 1)
            /\ (at = "open" \/ sincePass < MaxPassGap)
        BY <1>3 DEF TimePasses
      <3> QED
        BY <3>1, <3>2, ConstantsAreNat
    <2> QED
      BY <1>1, <1>3, <2>4, <2>5, <2>6 DEF TimePasses, TypeOK, Controllers
  <1> QED
    BY <1>2, <1>3

LEMMA PollTypes ==
    ASSUME TypeOK, PollOne \/ PollFails \/ PollBoth
    PROVE  TypeOK'
  <1>1. wire \in [Sources -> Seq(Frames)]
    BY DEF TypeOK
  <1>2. CASE PollOne
    <2> PICK s \in Sources : \E n \in 0 .. Len(wire[s]) :
            /\ batch' = First(s, n)
            /\ wire' = [wire EXCEPT ![s] = Rest(s, n)]
      BY <1>2 DEF PollOne
    <2>1. PICK taken \in 0 .. Len(wire[s]) :
            /\ batch' = First(s, taken)
            /\ wire' = [wire EXCEPT ![s] = Rest(s, taken)]
      OBVIOUS
    <2>2. /\ First(s, taken) \in Seq(Frames) /\ Rest(s, taken) \in Seq(Frames)
          /\ Len(Rest(s, taken)) <= Len(wire[s])
      BY <1>1, SplitType
    <2>3. Sources' = Sources /\ wire' \in [Sources -> Seq(Frames)]
      BY <1>1, <2>1, <2>2 DEF Sources
    <2>4. \A t \in Sources : Len(wire'[t]) <= Capacity
      <3> TAKE t \in Sources
      <3>1. /\ Len(wire[t]) <= Capacity /\ Len(wire[t]) \in Nat
            /\ Len(wire[s]) <= Capacity /\ Len(wire[s]) \in Nat
            /\ Len(Rest(s, taken)) \in Nat
        BY <1>1, <2>2, LenProperties DEF TypeOK
      <3>2. wire'[t] = IF t = s THEN Rest(s, taken) ELSE wire[t]
        BY <1>1, <2>1
      <3> QED
        BY <2>2, <3>1, <3>2, ConstantsAreNat
    <2> QED
      BY <1>2, <2>1, <2>2, <2>3, <2>4 DEF PollOne, TypeOK
  <1>3. CASE PollFails
    <2>1. wire' = [s \in Sources |-> <<>>]
      BY <1>3 DEF PollFails
    <2>2. Sources' = Sources
      BY <2>1 DEF Sources
    <2>3. wire' \in [Sources -> Seq(Frames)] /\ \A s \in Sources : Len(wire'[s]) <= Capacity
      BY <2>1, EmptySeq, ConstantsAreNat
    <2>4. world' \in Worlds
      BY <1>3 DEF PollFails, PublishUnavailable, Unavailable, TypeOK, Worlds
    <2> QED
      BY <1>3, <2>2, <2>3, <2>4, ConstantsAreNat DEF PollFails, PublishUnavailable, TypeOK, Worlds
  <1>4. CASE PollBoth
    <2>1. Sources = {"USB", "WIFI"}
      BY <1>4 DEF PollBoth, Redundant
    <2>2. PICK open \in SUBSET Sources, failed \in SUBSET Sources,
               usb \in 0 .. Len(wire["USB"]), wifi \in 0 .. Len(wire["WIFI"]) :
            /\ reader \subseteq open /\ failed \subseteq open
            /\ "USB" \notin open \ failed => usb = 0
            /\ "WIFI" \notin open \ failed => wifi = 0
            /\ reader' = open \ failed
            /\ batch' = First("USB", usb) \o First("WIFI", wifi)
            /\ wire' = [s \in Sources |->
                           IF s \in failed THEN <<>>
                           ELSE Rest(s, IF s = "USB" THEN usb ELSE wifi)]
      BY <1>4, Zenon DEF PollBoth
    <2>3. /\ First("USB", usb) \in Seq(Frames) /\ Rest("USB", usb) \in Seq(Frames)
          /\ Len(Rest("USB", usb)) <= Len(wire["USB"])
      BY <1>1, <2>1, SplitType
    <2>4. /\ First("WIFI", wifi) \in Seq(Frames) /\ Rest("WIFI", wifi) \in Seq(Frames)
          /\ Len(Rest("WIFI", wifi)) <= Len(wire["WIFI"])
      BY <1>1, <2>1, SplitType
    <2>5. batch' \in Seq(Frames)
      BY <2>2, <2>3, <2>4, ConcatProperties
    <2>6. Sources' = Sources
      BY <2>2 DEF Sources
    <2>7. ASSUME NEW s \in Sources
          PROVE  wire'[s] \in Seq(Frames) /\ Len(wire'[s]) <= Capacity
      <3>1. Len(wire[s]) <= Capacity /\ Len(wire[s]) \in Nat
        BY <1>1, LenProperties DEF TypeOK
      <3>2. CASE s \in failed
        BY <2>2, <3>2, EmptySeq, ConstantsAreNat
      <3>3. CASE s \notin failed /\ s = "USB"
        <4>1. wire'[s] = Rest("USB", usb)
          BY <2>2, <3>3
        <4> QED
          BY <2>3, <3>1, <3>3, <4>1, LenProperties, ConstantsAreNat
      <3>4. CASE s \notin failed /\ s = "WIFI"
        <4>1. wire'[s] = Rest("WIFI", wifi)
          BY <2>2, <3>4
        <4> QED
          BY <2>4, <3>1, <3>4, <4>1, LenProperties, ConstantsAreNat
      <3> QED
        BY <2>1, <3>2, <3>3, <3>4
    <2>8. wire' \in [Sources -> Seq(Frames)]
      BY <2>2, <2>7
    <2> QED
      BY <1>4, <2>2, <2>5, <2>6, <2>7, <2>8 DEF PollBoth, TypeOK
  <1> QED
    BY <1>2, <1>3, <1>4

LEMMA RunTypes ==
    ASSUME TypeOK, OpenReader \/ OpenFails \/ HandlePacket \/ EndPass
    PROVE  TypeOK'
  <1>1. Sources' = Sources /\ wire' = wire
    BY DEF OpenReader, OpenFails, HandlePacket, EndPass, Sources
  <1>2. CASE OpenReader
    BY <1>1, <1>2, ConstantsAreNat DEF OpenReader, TypeOK
  <1>3. CASE OpenFails
    <2>1. world' \in Worlds
      BY <1>3 DEF OpenFails, PublishUnavailable, Unavailable, TypeOK, Worlds
    <2> QED
      BY <1>1, <1>3, <2>1 DEF OpenFails, PublishUnavailable, TypeOK, Worlds
  <1>4. CASE HandlePacket
    <2>1. Head(batch) \in Frames /\ Tail(batch) \in Seq(Frames)
      BY <1>4, HeadTailProperties DEF HandlePacket, TypeOK
    <2>2. CASE AcceptPacket(Head(batch))
      <3>1. last' = [some |-> TRUE, frame |-> Head(batch)] /\ SamplePublished(Head(batch))
            /\ accepted' = TRUE /\ batch' = Tail(batch)
        BY <1>4, <2>2 DEF HandlePacket
      <3>2. world' \in Worlds
        BY <2>1, <3>1 DEF SamplePublished, Frames, Worlds
      <3>3. last' \in [some : BOOLEAN, frame : Frames]
        BY <2>1, <3>1
      <3>4. sampleAge' \in 0 .. AgeLimit
        BY <3>1, ConstantsAreNat DEF SamplePublished
      <3> QED
        BY <1>1, <1>4, <2>1, <3>1, <3>2, <3>3, <3>4
           DEF HandlePacket, SamplePublished, TypeOK, Worlds
    <2>3. CASE ~AcceptPacket(Head(batch))
      BY <1>1, <1>4, <2>1, <2>3 DEF HandlePacket, runtime, TypeOK
    <2> QED
      BY <2>2, <2>3
  <1>5. CASE EndPass
    <2>1. world' \in Worlds
      BY <1>5 DEF EndPass, PublishUnavailable, Unavailable, TypeOK, Worlds
    <2>2. sincePass' \in 0 .. MaxPassGap
      BY <1>5, ConstantsAreNat DEF EndPass
    <2>3. detail' \in {"waiting", "openFailed", "readFailed", "telemetryStale", "receiving"}
          /\ stalePublished' \in BOOLEAN
      BY <1>5 DEF EndPass, PublishUnavailable, TypeOK
    <2> QED
      BY <1>1, <1>5, <2>1, <2>2, <2>3 DEF EndPass, TypeOK, Worlds
  <1> QED
    BY <1>2, <1>3, <1>4, <1>5

LEMMA NextTypes == TypeOK /\ [Next]_vars => TypeOK'
  <1> SUFFICES ASSUME TypeOK, [Next]_vars PROVE TypeOK'
    OBVIOUS
  <1>1. CASE UNCHANGED vars
    BY <1>1 DEF vars, runtime, TypeOK, Sources
  <1> QED
    BY <1>1, EmitTypes, TimeTypes, PollTypes, RunTypes DEF Next

-----------------------------------------------------------------------------
(* The sample shown as live *)

LEMMA YoungStep ==
    ASSUME TypeOK, TypeOK', LiveSampleIsYoung, [Next]_vars
    PROVE  LiveSampleIsYoung'
  <1>1. /\ sampleAge \in Nat /\ sincePass \in Nat /\ sincePass <= MaxPassGap
        /\ sampleAge' \in Nat /\ sincePass' \in Nat
        /\ NoticedAt \in Nat /\ MaxPassGap \in Nat /\ StaleTimeout \in Nat
        /\ MaxPassGap <= NoticedAt /\ StaleTimeout <= NoticedAt
    BY ConstantsAreNat DEF TypeOK
  <1>2. CASE \E cut \in Cuts, reached \in SUBSET Sources : Emit(cut, reached)
    BY <1>2 DEF Emit, runtime, LiveSampleIsYoung
  <1>3. CASE Reboot
    BY <1>3 DEF Reboot, runtime, LiveSampleIsYoung
  <1>4. CASE TimePasses
    <2>1. /\ UNCHANGED <<world, at, last, stalePublished, accepted>>
          /\ sincePass' = IF at = "open" THEN 0 ELSE sincePass + 1
      BY <1>4 DEF TimePasses
    <2>2. last.some => sampleAge' <= sampleAge + 1
      <3>1. Capped(sampleAge + 1, AgeLimit) <= sampleAge + 1
        BY <1>1, CappedType, ConstantsAreNat
      <3> QED
        BY <1>4, <3>1 DEF TimePasses
    <2> QED
      BY <1>1, <2>1, <2>2 DEF LiveSampleIsYoung
  <1>5. CASE OpenReader
    BY <1>5 DEF OpenReader, LiveSampleIsYoung
  <1>6. CASE OpenFails
    BY <1>6 DEF OpenFails, PublishUnavailable, Unavailable, LiveSampleIsYoung
  <1>7. CASE PollOne \/ PollBoth
    <2>1. /\ at = "poll" /\ at' = "packets" /\ ~accepted'
          /\ UNCHANGED <<world, last, stalePublished, sampleAge, sincePass>>
      BY <1>7 DEF PollOne, PollBoth
    <2> QED
      BY <1>1, <2>1 DEF LiveSampleIsYoung
  <1>8. CASE PollFails
    <2>1. world'.state = "offline"
      BY <1>8 DEF PollFails, PublishUnavailable, Unavailable
    <2> QED
      BY <2>1 DEF LiveSampleIsYoung
  <1>9. CASE HandlePacket
    <2>1. CASE AcceptPacket(Head(batch))
      <3>1. /\ at' = "packets" /\ accepted' /\ sampleAge' = 0 /\ sincePass' = sincePass
            /\ last'.some /\ ~stalePublished'
        BY <1>9, <2>1 DEF HandlePacket, SamplePublished
      <3> QED
        BY <1>1, <3>1 DEF LiveSampleIsYoung
    <2>2. CASE ~AcceptPacket(Head(batch))
      BY <1>9, <2>2 DEF HandlePacket, runtime, LiveSampleIsYoung
    <2> QED
      BY <2>1, <2>2
  \* A pass that accepted a frame was shorter than its sample's bound; one that
  \* did not has just looked at the age.
  <1>10. CASE EndPass
    <2>1. at' = "poll" /\ sincePass' = 0 /\ at = "packets"
          /\ UNCHANGED <<last, sampleAge, accepted>>
      BY <1>10 DEF EndPass
    <2>2. CASE ~accepted /\ last.some /\ sampleAge > StaleTimeout /\ ~stalePublished
      <3>1. world'.state = "stale"
        BY <1>10, <2>2 DEF EndPass, PublishUnavailable, Unavailable
      <3> QED
        BY <3>1 DEF LiveSampleIsYoung
    <2>3. CASE ~(~accepted /\ last.some /\ sampleAge > StaleTimeout /\ ~stalePublished)
      <3>1. world' = world /\ stalePublished' = stalePublished
        BY <1>10, <2>3 DEF EndPass
      <3> QED
        BY <1>1, <2>1, <2>3, <3>1 DEF LiveSampleIsYoung
    <2> QED
      BY <2>2, <2>3
  <1>11. CASE UNCHANGED vars
    BY <1>11 DEF vars, runtime, LiveSampleIsYoung
  <1> QED
    BY <1>2, <1>3, <1>4, <1>5, <1>6, <1>7, <1>8, <1>9, <1>10, <1>11 DEF Next

\* Every variable keeps its type, for every set of readers.
THEOREM TypeCorrect == Spec => []TypeOK
  BY InitTypes, NextTypes, PTL DEF Spec

\* The strengthened invariant holds throughout.
THEOREM InductiveInvariant == Spec => []IInv
  <1>1. Init => IInv
    BY InitTypes DEF Init, IInv, LiveSampleIsYoung
  <1>2. IInv /\ [Next]_vars => IInv'
    BY NextTypes, YoungStep DEF IInv
  <1> QED
    BY <1>1, <1>2, PTL DEF Spec

\* No live snapshot is frozen: what is shown as live was received within the
\* timeout, or the pass that took it, and one pass (_run, _publish_unavailable).
THEOREM LiveTelemetryIsRecent == Spec => []LiveIsRecent
  <1>1. IInv => LiveIsRecent
    BY ConstantsAreNat DEF IInv, TypeOK, LiveSampleIsYoung, LiveIsRecent
  <1> QED
    BY <1>1, InductiveInvariant, PTL

-----------------------------------------------------------------------------
(* What one step may do *)

\* No outage, failed read, opening or reconnection withdraws a reported cut;
\* only an accepted frame that says so does (_publish_unavailable).
THEOREM CutsAreKept == Spec => CutIsKept
  <1>1. ASSUME [Next]_vars, world.cut, ~world'.cut
        PROVE  /\ at = "packets" /\ batch # <<>>
               /\ ~Head(batch).cut /\ last'.frame = Head(batch)
    <2>1. CASE HandlePacket
      <3>1. AcceptPacket(Head(batch))
        BY <1>1, <2>1 DEF HandlePacket, runtime
      <3> QED
        BY <1>1, <2>1, <3>1 DEF HandlePacket, SamplePublished
    <2>2. CASE OpenFails \/ PollFails \/ EndPass
      <3>1. world' = world \/ world'.cut = world.cut
        BY <2>2 DEF OpenFails, PollFails, EndPass, PublishUnavailable, Unavailable
      <3> QED
        BY <1>1, <3>1
    <2>3. CASE world' = world
      BY <1>1, <2>3
    <2> QED
      BY <1>1, <2>1, <2>2, <2>3
         DEF Next, Emit, Reboot, TimePasses, OpenReader, PollOne, PollBoth, runtime, vars
  <1>2. [Next]_vars =>
          [world.cut /\ ~world'.cut =>
             /\ at = "packets" /\ batch # <<>>
             /\ ~Head(batch).cut /\ last'.frame = Head(batch)]_vars
    BY <1>1
  <1> QED
    BY <1>2, PTL DEF Spec, CutIsKept

\* Between two counter values of a boot, less than half the modulus apart,
\* "advanced" means greater (_accept_packet).
LEMMA AdvancedIsGreater ==
    ASSUME NEW bound \in Nat, NEW current \in 0 .. bound, NEW previous \in 0 .. bound,
           2 * bound < CounterModulus, CounterAdvanced(current, previous)
    PROVE  current > previous
  <1> DEFINE delta == current - previous
  <1>1. CASE delta < 0
    <2>1. delta + CounterModulus \in 0 .. CounterModulus - 1
      BY <1>1, ConstantsAreNat
    <2>2. delta % CounterModulus = delta + CounterModulus
      BY <1>1, <2>1, ConstantsAreNat
    <2>3. 2 * (delta + CounterModulus) < CounterModulus
      BY <2>2 DEF CounterAdvanced, CounterDelta
    <2> QED
      BY <1>1, <2>3, ConstantsAreNat
  <1>2. CASE delta = 0
    <2>1. 0 % CounterModulus = 0
      BY ConstantsAreNat
    <2> QED
      BY <1>2, <2>1 DEF CounterAdvanced, CounterDelta
  <1> QED
    BY <1>1, <1>2

\* Past the first frames of a boot, what is shown next is newer by both counters,
\* whichever reader brought it and however often (_accept_packet).
THEOREM CopiesAreNotShown == Spec => CopiesAreRejected
  <1>1. ASSUME TypeOK, [Next]_vars,
               last.some, last' # last, last'.frame.seq > ResetSequence
        PROVE  last'.frame.seq > last.frame.seq /\ last'.frame.ms > last.frame.ms
    <2>1. HandlePacket
      BY <1>1
         DEF Next, Emit, Reboot, TimePasses, OpenReader, OpenFails, PollOne, PollFails,
             PollBoth, EndPass, runtime, vars
    <2> DEFINE p == Head(batch)
    <2>2. AcceptPacket(p) /\ last'.frame = p
      BY <1>1, <2>1 DEF HandlePacket, runtime
    <2>3. p \in Frames /\ last.frame \in Frames
      BY <1>1, <2>1, HeadTailProperties DEF HandlePacket, TypeOK
    <2> HIDE DEF p
    <2>4. /\ p.seq \in 0 .. MaxSequence /\ last.frame.seq \in 0 .. MaxSequence
          /\ p.ms \in 0 .. MaxMs /\ last.frame.ms \in 0 .. MaxMs
      BY <2>3 DEF Frames
    <2>5. ~ControllerReset(p)
      BY <1>1, <2>2, <2>4, ConstantsAreNat DEF ControllerReset
    <2>6. CounterAdvanced(p.ms, last.frame.ms) /\ CounterAdvanced(p.seq, last.frame.seq)
      BY <1>1, <2>2, <2>5 DEF AcceptPacket
    <2>7. p.seq > last.frame.seq
      BY <2>4, <2>6, AdvancedIsGreater, ConstantsAreNat
    <2>8. p.ms > last.frame.ms
      BY <2>4, <2>6, AdvancedIsGreater, ConstantsAreNat
    <2> QED
      BY <2>2, <2>7, <2>8
  <1>2. TypeOK /\ [Next]_vars =>
          [last.some /\ last' # last /\ last'.frame.boot = last.frame.boot
             /\ last'.frame.seq > ResetSequence
           => last'.frame.seq > last.frame.seq /\ last'.frame.ms > last.frame.ms]_vars
    BY <1>1
  <1> QED
    BY <1>2, TypeCorrect, PTL DEF Spec, CopiesAreRejected

=============================================================================
