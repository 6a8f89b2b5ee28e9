--------------------------- MODULE FrontLinkProofs ---------------------------
(***************************************************************************)
(* Proofs about FrontLink for any limits, any number of packets, losses    *)
(* and reboots, any UART capacity and any gap between two safety ticks.    *)
(*                                                                         *)
(* MAIN infers the reboots of FRONT from counters.  That the inference is  *)
(* sound rests on the wire: a packet that arrives was sent after the one   *)
(* accepted before it, so that within one boot its sequence is greater.    *)
(***************************************************************************)
EXTENDS FrontLink, SequenceTheorems, TLAPS

Nodes == [boot : 0 .. MaxBoots, sequence : 0 .. MaxSequence, uptime : 0 .. UptimeLimit,
          silent : 0 .. BootTime, sent : BOOLEAN]
Links == [hasPacket : BOOLEAN, packet : Packets, age : 0 .. LinkAgeLimit,
          rebootCount : 0 .. MaxBoots]
Evidences == [valid : BOOLEAN, sampleAge : 0 .. AgeLimit, trueAge : 0 .. AgeLimit,
              boot : 0 .. MaxBoots, sequence : 0 .. MaxSequence,
              observedRebootCount : 0 .. MaxBoots, hasProcessedPacket : BOOLEAN,
              lastProcessedSequence : 0 .. MaxSequence]

\* p was sent before q; p has been sent.
Precedes(p, q) == p.boot < q.boot \/ (p.boot = q.boot /\ p.sequence < q.sequence)
Sent(p) == p.boot < node.boot \/ (p.boot = node.boot /\ p.sequence <= node.sequence)

\* The UART loses packets and delays them, and keeps their order.
WireInOrder ==
    /\ frontNode.hasPacket => Sent(frontNode.packet)
    /\ \A i \in 1 .. Len(uart) :
          /\ Sent(uart[i])
          /\ frontNode.hasPacket => Precedes(frontNode.packet, uart[i])
    /\ \A i, j \in 1 .. Len(uart) : i < j => Precedes(uart[i], uart[j])

\* The reboots counted lie between the boots of the packets accepted.
RebootsAreCounted ==
    /\ ~frontNode.hasPacket => frontNode.rebootCount = 0
    /\ RebootsAreReal

\* Of a sample taken since the last reboot counted: it came no later than the last
\* packet, and in its boot or before a growing sequence.
Follows(ev) ==
    /\ frontNode.hasPacket
    /\ ev.sequence <= frontNode.packet.sequence
    /\ ev.boot = frontNode.packet.boot \/ ev.sequence < frontNode.packet.sequence

\* What ticks and packets preserve of the evidence.
GoodEvidence(ev) ==
    /\ ev \in Evidences
    /\ ev.observedRebootCount <= frontNode.rebootCount
    /\ ev.valid /\ ev.observedRebootCount = frontNode.rebootCount => Follows(ev)
    /\ ev.valid /\ ev.sampleAge <= EvidenceStale => ev.trueAge <= ev.sampleAge + MaxTransit

EvidenceIsRecent ==
    /\ evidence.valid => frontNode.age <= NodeStale + sinceTick
    /\ covered /\ sinceTick = 0 => evidence.valid /\ evidence.sampleAge <= EvidenceStale

IInv ==
    /\ TypeOK
    /\ WireInOrder
    /\ RebootsAreCounted
    /\ GoodEvidence(evidence)
    /\ EvidenceIsRecent

LEMMA ConstantsAreNat ==
    /\ NodeStale \in Nat /\ EvidenceStale \in Nat /\ ResetWindow \in Nat
    /\ RebootGap \in Nat /\ BootTime \in Nat /\ MaxSequence \in Nat /\ MaxBoots \in Nat
    /\ MaxTransit \in Nat /\ UartCapacity \in Nat /\ MaxTickGap \in Nat
    /\ SequenceModulus \in Nat /\ 2 * MaxSequence < SequenceModulus
    /\ UptimeLimit \in Nat /\ LinkAgeLimit \in Nat /\ AgeLimit \in Nat
    /\ LinkAgeLimit = NodeStale + MaxTickGap + 1
    /\ AgeLimit = EvidenceStale + MaxTransit + MaxTickGap + 1
    /\ ScanAges \subseteq Nat /\ 0 \in ScanAges
  BY FrontLinkAssumption
     DEF FrontLinkAssumption, UptimeLimit, LinkAgeLimit, AgeLimit

LEMMA CappedType ==
    ASSUME NEW t \in Nat, NEW limit \in Nat
    PROVE  Capped(t, limit) \in 0 .. limit /\ Capped(t, limit) <= t
  BY DEF Capped

LEMMA TypesNamed ==
    TypeOK <=> /\ node \in Nodes
               /\ uart \in Seq(Packets) /\ Len(uart) <= UartCapacity
               /\ frontNode \in Links
               /\ evidence \in Evidences
               /\ covered \in BOOLEAN
               /\ sinceTick \in 0 .. MaxTickGap
               /\ spoiled \in BOOLEAN
  BY DEF TypeOK, Nodes, Links, Evidences

-----------------------------------------------------------------------------
(* What happens to the wire *)

LEMMA TailOfWire ==
    ASSUME uart \in Seq(Packets), uart # <<>>, uart' = Tail(uart)
    PROVE  /\ Head(uart) = uart[1] /\ Head(uart) \in Packets
           /\ 1 \in 1 .. Len(uart) /\ Len(uart) \in Nat
           /\ uart' \in Seq(Packets) /\ Len(uart') = Len(uart) - 1
           /\ \A i \in 1 .. Len(uart') :
                 uart'[i] = uart[i + 1] /\ i + 1 \in 1 .. Len(uart) /\ 1 < i + 1
  <1>1. /\ Head(uart) \in Packets /\ uart' \in Seq(Packets)
        /\ Len(uart') = Len(uart) - 1
        /\ \A i \in 1 .. Len(uart') : uart'[i] = uart[i + 1]
    BY HeadTailProperties
  <1>2. Len(uart) \in Nat \ {0}
    BY EmptySeq
  <1> QED
    BY <1>1, <1>2

\* A packet that is lost, or refused, leaves the rest in order.
LEMMA TailInOrder ==
    ASSUME uart \in Seq(Packets), uart # <<>>, uart' = Tail(uart), WireInOrder,
           UNCHANGED <<node, frontNode>>
    PROVE  WireInOrder'
  <1>1. \A i \in 1 .. Len(uart') : Sent(uart[i])' = Sent(uart[i + 1])
    BY TailOfWire DEF Sent
  <1> QED
    BY <1>1, TailOfWire DEF WireInOrder, Precedes, Sent

LEMMA AgedPacket ==
    ASSUME NEW p \in Packets, p.transit < MaxTransit
    PROVE  LET q == [p EXCEPT !.transit = @ + 1]
           IN  q \in Packets /\ q.boot = p.boot /\ q.sequence = p.sequence
  <1>1. p.transit \in 0 .. MaxTransit
    BY DEF Packets
  <1>2. p.transit + 1 \in 0 .. MaxTransit
    BY <1>1, ConstantsAreNat
  <1> QED
    BY <1>2 DEF Packets

LEMMA AgedWire ==
    ASSUME uart \in Seq(Packets),
           \A i \in 1 .. Len(uart) : uart[i].transit < MaxTransit,
           uart' = [i \in 1 .. Len(uart) |-> [uart[i] EXCEPT !.transit = @ + 1]]
    PROVE  /\ uart' \in Seq(Packets) /\ Len(uart') = Len(uart)
           /\ \A i \in 1 .. Len(uart) :
                 uart'[i].boot = uart[i].boot /\ uart'[i].sequence = uart[i].sequence
  <1>1. Len(uart) \in Nat /\ DOMAIN uart' = 1 .. Len(uart)
    BY LenProperties
  <1>2. ASSUME NEW i \in 1 .. Len(uart)
        PROVE  /\ uart'[i] \in Packets
               /\ uart'[i].boot = uart[i].boot /\ uart'[i].sequence = uart[i].sequence
    <2>1. uart[i] \in Packets
      BY ElementOfSeq
    <2>2. uart[i].transit < MaxTransit /\ uart'[i] = [uart[i] EXCEPT !.transit = @ + 1]
      OBVIOUS
    <2> QED
      BY <2>1, <2>2, AgedPacket
  <1>3. uart' \in [1 .. Len(uart) -> Packets]
    BY <1>2
  <1>4. uart' \in Seq(Packets)
    BY <1>1, <1>3, SeqDef
  <1>5. Len(uart') = Len(uart)
    BY <1>1, <1>4, LenProperties
  <1> QED
    BY <1>2, <1>4, <1>5

\* The packet of an acquisition cycle goes to the end.
LEMMA AppendedWire ==
    ASSUME uart \in Seq(Packets), WireInOrder, NEW p \in Packets,
           node \in Nodes, frontNode \in Links,
           p.boot = node.boot, p.sequence = node.sequence + 1,
           uart' = Append(uart, p), node' = [node EXCEPT !.sequence = @ + 1, !.sent = TRUE],
           frontNode' = frontNode
    PROVE  WireInOrder'
  <1>1. /\ Len(uart) \in Nat /\ Len(uart') = Len(uart) + 1
        /\ \A i \in 1 .. Len(uart) : uart'[i] = uart[i] /\ uart[i] \in Packets
        /\ uart'[Len(uart) + 1] = p
    BY LenProperties, ElementOfSeq, AppendProperties
  <1>2. /\ node.boot \in Nat /\ node.sequence \in Nat
        /\ node'.boot = node.boot /\ node'.sequence = node.sequence + 1
    BY DEF Nodes
  <1>3. \A q \in Packets : q.boot \in Nat /\ q.sequence \in Nat
    BY DEF Packets
  <1>4. \A q \in Packets : Sent(q) => Precedes(q, p)
    BY <1>2, <1>3 DEF Sent, Precedes
  <1>5. frontNode.packet \in Packets
    BY DEF Links
  <1>6. (frontNode.hasPacket => Sent(frontNode.packet))'
    BY <1>2, <1>3, <1>5 DEF WireInOrder, Sent
  <1>7. ASSUME NEW i \in 1 .. Len(uart')
        PROVE  /\ Sent(uart[i])'
               /\ frontNode.hasPacket => Precedes(frontNode.packet, uart'[i])
    <2>1. CASE i \in 1 .. Len(uart)
      BY <1>1, <1>2, <1>3, <2>1 DEF WireInOrder, Sent
    <2>2. CASE i = Len(uart) + 1
      BY <1>1, <1>2, <1>3, <1>4, <1>5, <2>2 DEF WireInOrder, Sent
    <2> QED
      BY <1>1, <2>1, <2>2
  <1>8. ASSUME NEW i \in 1 .. Len(uart'), NEW j \in 1 .. Len(uart'), i < j
        PROVE  Precedes(uart'[i], uart'[j])
    <2>1. i \in 1 .. Len(uart)
      BY <1>1, <1>8
    <2>2. CASE j \in 1 .. Len(uart)
      BY <1>1, <1>8, <2>1, <2>2 DEF WireInOrder
    <2>3. CASE j = Len(uart) + 1
      BY <1>1, <1>4, <2>1, <2>3 DEF WireInOrder
    <2> QED
      BY <1>1, <2>2, <2>3
  <1> QED
    BY <1>6, <1>7, <1>8 DEF WireInOrder

-----------------------------------------------------------------------------
(* NodeLink::acceptSequence *)

\* A packet that counts as a reboot comes from a later boot.
LEMMA ProbableRebootIsLater ==
    ASSUME NEW p \in Packets, frontNode \in Links, Precedes(frontNode.packet, p),
           ProbableReboot(p)
    PROVE  frontNode.packet.boot + 1 <= p.boot
  <1>1. /\ p.boot \in Nat /\ p.sequence \in Nat
        /\ frontNode.packet.boot \in Nat /\ frontNode.packet.sequence \in Nat
    BY DEF Links, Packets
  <1> QED
    BY <1>1 DEF Precedes, ProbableReboot

\* Any other packet that is accepted has a greater sequence: there are fewer than
\* half the modulus of them in a boot.
LEMMA AcceptedIsGreater ==
    ASSUME NEW p \in Packets, frontNode \in Links, frontNode.hasPacket,
           AcceptSequence(p), ~ProbableReboot(p)
    PROVE  frontNode.packet.sequence < p.sequence
  <1> DEFINE delta == p.sequence - frontNode.packet.sequence
  <1>1. p.sequence \in 0 .. MaxSequence /\ frontNode.packet.sequence \in 0 .. MaxSequence
    BY DEF Links, Packets
  <1>2. delta % SequenceModulus # 0 /\ 2 * (delta % SequenceModulus) < SequenceModulus
    BY DEF AcceptSequence, SequenceDelta
  <1>3. CASE delta < 0
    <2>1. delta + SequenceModulus \in 0 .. SequenceModulus - 1
      BY <1>1, <1>3, ConstantsAreNat
    <2>2. delta % SequenceModulus = delta + SequenceModulus
      BY <1>1, <2>1, ConstantsAreNat
    <2> QED
      BY <1>1, <1>2, <1>3, <2>2, ConstantsAreNat
  <1>4. CASE delta = 0
    <2>1. 0 % SequenceModulus = 0
      BY ConstantsAreNat
    <2> QED
      BY <1>2, <1>4, <2>1
  <1> QED
    BY <1>1, <1>3, <1>4

\* An accepted packet leaves a wire that it precedes, and a count that its boot
\* bounds; evidence of before it still follows the link, unless a reboot was
\* counted.
LEMMA IngestStep ==
    ASSUME IInv, Ingest
    PROVE  /\ WireInOrder' /\ RebootsAreCounted' /\ GoodEvidence(evidence)'
           /\ frontNode' \in Links
           /\ frontNode'.age <= frontNode.age
  <1> DEFINE p == Head(uart)
  <1>1. /\ node \in Nodes /\ uart \in Seq(Packets) /\ frontNode \in Links
        /\ evidence \in Evidences
    BY TypesNamed DEF IInv
  <1>2. uart # <<>> /\ uart' = Tail(uart) /\ UNCHANGED <<node, evidence>>
    BY DEF Ingest
  <1>3. /\ p = uart[1] /\ p \in Packets /\ 1 \in 1 .. Len(uart) /\ Len(uart) \in Nat
        /\ \A i \in 1 .. Len(uart') :
              uart'[i] = uart[i + 1] /\ i + 1 \in 1 .. Len(uart) /\ 1 < i + 1
    BY <1>1, <1>2, TailOfWire
  <1>4. /\ frontNode.packet \in Packets /\ frontNode.rebootCount \in Nat
        /\ frontNode.rebootCount <= frontNode.packet.boot
        /\ ~frontNode.hasPacket => frontNode.rebootCount = 0
        /\ frontNode.age \in Nat
        /\ p.boot \in 0 .. MaxBoots /\ frontNode.packet.boot \in 0 .. MaxBoots
        /\ p.sequence \in Nat /\ frontNode.packet.sequence \in Nat
    <2> HIDE DEF p
    <2>1. /\ frontNode.packet \in Packets /\ frontNode.rebootCount \in Nat
          /\ frontNode.age \in Nat
      BY <1>1 DEF Links
    <2>2. \A q \in Packets : q.boot \in 0 .. MaxBoots /\ q.sequence \in Nat
      BY DEF Packets
    <2>3. /\ frontNode.rebootCount <= frontNode.packet.boot
          /\ ~frontNode.hasPacket => frontNode.rebootCount = 0
      BY DEF IInv, RebootsAreCounted, RebootsAreReal
    <2> QED
      BY <1>3, <2>1, <2>2, <2>3
  <1>5. CASE ~AcceptSequence(p)
    <2>1. frontNode' = frontNode
      BY <1>5 DEF Ingest
    <2>2. WireInOrder'
      BY <1>1, <1>2, <2>1, TailInOrder DEF IInv
    <2> QED
      BY <1>1, <1>2, <1>4, <2>1, <2>2
         DEF IInv, RebootsAreCounted, RebootsAreReal, GoodEvidence, Follows
  <1>6. CASE AcceptSequence(p)
    <2> DEFINE counted == IF frontNode.hasPacket /\ ProbableReboot(p) THEN 1 ELSE 0
    <2>1. frontNode' = [hasPacket |-> TRUE, packet |-> p, age |-> 0,
                        rebootCount |-> frontNode.rebootCount + counted]
      BY <1>6 DEF Ingest
    <2>2. frontNode.hasPacket => Precedes(frontNode.packet, p)
      BY <1>3 DEF IInv, WireInOrder
    <2>3. frontNode.rebootCount + counted <= p.boot
      <3>1. CASE frontNode.hasPacket /\ ProbableReboot(p)
        BY <1>1, <1>3, <1>4, <2>2, <3>1, ProbableRebootIsLater
      <3>2. CASE frontNode.hasPacket /\ ~ProbableReboot(p)
        BY <1>4, <2>2, <3>2 DEF Precedes
      <3>3. CASE ~frontNode.hasPacket
        BY <1>4, <3>3
      <3> QED
        BY <3>1, <3>2, <3>3
    <2>4. counted \in 0 .. 1
      OBVIOUS
    <2>5. frontNode.rebootCount + counted \in 0 .. MaxBoots
      <3> HIDE DEF counted, p
      <3> QED
        BY <1>4, <2>3, <2>4, ConstantsAreNat
    <2>6. /\ frontNode'.hasPacket = TRUE /\ frontNode'.packet = p /\ frontNode'.age = 0
          /\ frontNode'.rebootCount = frontNode.rebootCount + counted
      BY <2>1
    <2>7. frontNode' \in Links
      BY <1>3, <2>1, <2>5, ConstantsAreNat DEF Links
    <2>8. RebootsAreCounted'
      BY <2>3, <2>6 DEF RebootsAreCounted, RebootsAreReal
    <2>9. WireInOrder'
      <3>1. Sent(p) /\ node' = node
        BY <1>2, <1>3 DEF IInv, WireInOrder
      <3>2. Sent(frontNode.packet)'
        <4> HIDE DEF p
        <4> QED
          BY <2>6, <3>1 DEF Sent
      <3>3. \A i \in 1 .. Len(uart') : Sent(uart[i + 1]) /\ Precedes(p, uart[i + 1])
        BY <1>3 DEF IInv, WireInOrder
      <3>4. \A i \in 1 .. Len(uart') : Sent(uart[i])' /\ Precedes(p, uart'[i])
        <4> HIDE DEF p
        <4> QED
          BY <1>3, <3>1, <3>3 DEF Sent
      <3>5. \A i, j \in 1 .. Len(uart') : i < j => Precedes(uart'[i], uart'[j])
        BY <1>2, <1>3 DEF IInv, WireInOrder
      <3> HIDE DEF p
      <3> QED
        BY <2>6, <3>2, <3>4, <3>5 DEF WireInOrder
    <2>10. GoodEvidence(evidence)'
      <3>1. /\ evidence.observedRebootCount \in Nat
            /\ evidence.observedRebootCount <= frontNode.rebootCount
            /\ evidence.sequence \in Nat /\ evidence.boot \in Nat
            /\ evidence.valid /\ evidence.observedRebootCount = frontNode.rebootCount
                 => Follows(evidence)
        BY <1>1 DEF IInv, GoodEvidence, Evidences
      <3>2. evidence.observedRebootCount <= frontNode'.rebootCount
        BY <1>4, <2>4, <2>6, <3>1
      <3>3. ASSUME evidence.valid, evidence.observedRebootCount = frontNode'.rebootCount
            PROVE  Follows(evidence)'
        <4>1. counted = 0
          BY <1>4, <2>4, <2>6, <3>1, <3>3
        <4>2. Follows(evidence)
          BY <1>4, <2>6, <3>1, <3>3, <4>1
        <4>3. ~ProbableReboot(p) /\ frontNode.hasPacket
          BY <4>1, <4>2 DEF Follows
        <4>4. frontNode.packet.sequence < p.sequence
          BY <1>1, <1>3, <1>6, <4>3, AcceptedIsGreater
        <4> QED
          BY <1>2, <1>4, <2>6, <3>1, <4>2, <4>4 DEF Follows
      <3> QED
        BY <1>1, <1>2, <3>2, <3>3 DEF IInv, GoodEvidence
    <2> QED
      BY <1>4, <2>6, <2>7, <2>8, <2>9, <2>10
  <1> QED
    BY <1>5, <1>6

-----------------------------------------------------------------------------
(* The evidence of a tick *)

LEMMA ClearedIsGood ==
    ASSUME NEW ev, GoodEvidence(ev)
    PROVE  /\ GoodEvidence(ClearedEvidence(ev))
           /\ ClearedEvidence(ev).valid = FALSE
           /\ ClearedEvidence(ev).observedRebootCount = ev.observedRebootCount
  <1>1. ev \in Evidences
    BY DEF GoodEvidence
  <1>2. /\ ClearedEvidence(ev) \in Evidences
        /\ ClearedEvidence(ev).valid = FALSE
        /\ ClearedEvidence(ev).observedRebootCount = ev.observedRebootCount
    <2>1. 0 \in 0 .. AgeLimit /\ 0 \in 0 .. MaxBoots /\ 0 \in 0 .. MaxSequence
      BY ConstantsAreNat
    <2> QED
      BY <1>1, <2>1 DEF ClearedEvidence, Evidences
  <1> QED
    BY <1>2 DEF GoodEvidence

LEMMA ProcessedIsGood ==
    ASSUME NEW ev, GoodEvidence(ev), frontNode \in Links
    PROVE  /\ GoodEvidence(Processed(ev))
           /\ Processed(ev).observedRebootCount = ev.observedRebootCount
  <1>1. ev \in Evidences /\ frontNode.packet.sequence \in 0 .. MaxSequence
    BY DEF GoodEvidence, Links, Packets
  <1>2. /\ Processed(ev) \in Evidences
        /\ Processed(ev).valid = ev.valid
        /\ Processed(ev).sampleAge = ev.sampleAge /\ Processed(ev).trueAge = ev.trueAge
        /\ Processed(ev).boot = ev.boot /\ Processed(ev).sequence = ev.sequence
        /\ Processed(ev).observedRebootCount = ev.observedRebootCount
    BY <1>1 DEF Processed, Evidences
  <1> QED
    BY <1>2 DEF GoodEvidence, Follows

\* The evidence of before a counted reboot is given up.
LEMMA AfterRebootIsGood ==
    ASSUME NEW ev, GoodEvidence(ev), frontNode \in Links
    PROVE  /\ GoodEvidence(AfterReboot(ev))
           /\ AfterReboot(ev).observedRebootCount = frontNode.rebootCount
  <1>1. CASE frontNode.rebootCount # ev.observedRebootCount
    <2> DEFINE c == ClearedEvidence(ev)
    <2>1. c \in Evidences /\ c.valid = FALSE
      BY ClearedIsGood DEF GoodEvidence
    <2>2. frontNode.rebootCount \in 0 .. MaxBoots
      BY DEF Links
    <2>3. AfterReboot(ev) = [c EXCEPT !.observedRebootCount = frontNode.rebootCount,
                                      !.hasProcessedPacket = FALSE]
      BY <1>1 DEF AfterReboot
    <2> HIDE DEF c
    <2>4. /\ AfterReboot(ev) \in Evidences /\ AfterReboot(ev).valid = FALSE
          /\ AfterReboot(ev).observedRebootCount = frontNode.rebootCount
      BY <2>1, <2>2, <2>3 DEF Evidences
    <2> QED
      BY <2>2, <2>4 DEF GoodEvidence
  <1>2. CASE frontNode.rebootCount = ev.observedRebootCount
    BY <1>2 DEF AfterReboot
  <1> QED
    BY <1>1, <1>2

\* A sample that is taken is dated from its packet, and is of the packet's boot.
LEMMA TakenIsGood ==
    ASSUME NEW ev, GoodEvidence(ev), frontNode \in Links, frontNode.hasPacket,
           NodeSampleAge <= EvidenceStale
    PROVE  GoodEvidence(Taken(ev))
  <1> DEFINE t == frontNode.packet.transit
  <1>1. /\ ev \in Evidences /\ frontNode.packet.boot \in 0 .. MaxBoots
        /\ frontNode.packet.sequence \in 0 .. MaxSequence
        /\ t \in 0 .. MaxTransit
    BY DEF GoodEvidence, Links, Packets
  <1>2. NodeSampleAge \in Nat
    <2>1. frontNode.age \in 0 .. LinkAgeLimit /\ frontNode.packet.scanAge \in ScanAges
      BY DEF Links, Packets
    <2>2. frontNode.packet.scanAge \in Nat
      BY <2>1, ConstantsAreNat
    <2>3. LinkAgeLimit \in Nat
      BY ConstantsAreNat
    <2> QED
      BY <2>1, <2>2, <2>3 DEF NodeSampleAge
  <1>3. /\ NodeSampleAge \in 0 .. AgeLimit /\ NodeSampleAge + t \in 0 .. AgeLimit
        /\ NodeSampleAge + t <= NodeSampleAge + MaxTransit
    <2> HIDE DEF t
    <2> QED
      BY <1>1, <1>2, ConstantsAreNat
  <1>4. /\ Taken(ev) \in Evidences
        /\ Taken(ev).sampleAge = NodeSampleAge /\ Taken(ev).trueAge = NodeSampleAge + t
        /\ Taken(ev).boot = frontNode.packet.boot
        /\ Taken(ev).sequence = frontNode.packet.sequence
        /\ Taken(ev).observedRebootCount = ev.observedRebootCount
    BY <1>1, <1>3 DEF Taken, Evidences
  <1> QED
    BY <1>1, <1>3, <1>4 DEF GoodEvidence, Follows

LEMMA UnexpiredIsGood ==
    ASSUME NEW ev, GoodEvidence(ev)
    PROVE  /\ GoodEvidence(Unexpired(ev))
           /\ Unexpired(ev).valid => Unexpired(ev).sampleAge <= EvidenceStale
           /\ Unexpired(ev).observedRebootCount = ev.observedRebootCount
  BY ClearedIsGood DEF Unexpired

\* All of cachedFrontScannerRange(): the evidence it leaves valid is fresh, comes
\* from a link that is fresh, and follows the reboots counted.
LEMMA TickLeavesGood ==
    ASSUME NEW ev, GoodEvidence(ev), frontNode \in Links
    PROVE  LET left == CachedFrontScannerRange(ev)
           IN  /\ GoodEvidence(left)
               /\ left.valid => /\ IsFresh
                                /\ left.sampleAge <= EvidenceStale
                                /\ left.observedRebootCount = frontNode.rebootCount
  <1> DEFINE r == AfterReboot(ev)
             a == AfterPacket(r)
             left == CachedFrontScannerRange(ev)
  <1>1. GoodEvidence(r) /\ r.observedRebootCount = frontNode.rebootCount
    BY AfterRebootIsGood
  <1>2. GoodEvidence(Processed(r)) /\ Processed(r).observedRebootCount = frontNode.rebootCount
    BY <1>1, ProcessedIsGood
  <1>3. GoodEvidence(ClearedEvidence(Processed(r))) /\ ~ClearedEvidence(Processed(r)).valid
    BY <1>2, ClearedIsGood
  <1>4. CASE ~IsFresh
    BY <1>4, ClearedIsGood DEF CachedFrontScannerRange
  <1>5. CASE IsFresh /\ frontNode.packet.look = "faulty"
    BY <1>3, <1>5 DEF CachedFrontScannerRange
  <1>6. CASE IsFresh /\ frontNode.packet.look # "faulty"
    <2>1. left = Unexpired(a)
      BY <1>6 DEF CachedFrontScannerRange
    <2>2. GoodEvidence(a)
      <3>1. Takes(r) => GoodEvidence(Taken(Processed(r)))
        BY <1>2, <1>6, TakenIsGood DEF Takes, IsFresh
      <3> QED
        BY <1>1, <1>2, <1>3, <3>1 DEF AfterPacket
    <2>3. a.valid => a.observedRebootCount = frontNode.rebootCount
      <3>1. Processed(r) \in Evidences
        BY <1>2 DEF GoodEvidence
      <3>2. Taken(Processed(r)).observedRebootCount = Processed(r).observedRebootCount
        BY <3>1 DEF Taken, Evidences
      <3> QED
        BY <1>1, <1>2, <1>3, <3>2 DEF AfterPacket
    <2>4. left.valid => a.valid
      BY <2>1, <2>2, ClearedIsGood DEF Unexpired
    <2> HIDE DEF a, left
    <2>5. GoodEvidence(left) /\ (left.valid => left.sampleAge <= EvidenceStale)
          /\ left.observedRebootCount = a.observedRebootCount
      BY <2>1, <2>2, UnexpiredIsGood
    <2>6. left.valid => left.observedRebootCount = frontNode.rebootCount
      BY <2>3, <2>4, <2>5
    <2> QED
      BY <1>6, <2>5, <2>6 DEF left
  <1> QED
    BY <1>4, <1>5, <1>6

-----------------------------------------------------------------------------
(* The invariant *)

\* MAIN has just booted and has heard nobody.
LEMMA InitInvariant == Init => IInv
  <1> SUFFICES ASSUME Init
               PROVE  IInv
    OBVIOUS
  <1>1. NoPacket \in Packets
    BY ConstantsAreNat DEF NoPacket, Packets, Looks
  <1>2. node \in Nodes /\ frontNode \in Links
    BY <1>1, ConstantsAreNat DEF Init, Nodes, Links
  <1>3. evidence \in Evidences
    BY ConstantsAreNat DEF Init, Evidences
  <1>4. uart \in Seq(Packets) /\ Len(uart) = 0
    BY DEF Init
  <1>5. TypeOK
    <2>1. covered = FALSE /\ sinceTick = 0 /\ spoiled = FALSE
      BY DEF Init
    <2>2. 0 \in 0 .. MaxTickGap /\ 0 <= UartCapacity
      BY ConstantsAreNat
    <2> QED
      BY <1>2, <1>3, <1>4, <2>1, <2>2, TypesNamed
  <1>6. WireInOrder
    BY <1>4 DEF Init, WireInOrder
  <1>7. frontNode.rebootCount = 0 /\ frontNode.packet.boot = 0 /\ ~evidence.valid
        /\ evidence.observedRebootCount = 0 /\ ~covered
    BY DEF Init, NoPacket
  <1> QED
    BY <1>3, <1>5, <1>6, <1>7
       DEF IInv, RebootsAreCounted, RebootsAreReal, GoodEvidence, EvidenceIsRecent

\* What a step leaves true when it leaves the link and the evidence alone.
LEMMA LinkKept ==
    ASSUME IInv, UNCHANGED <<frontNode, evidence, covered, sinceTick, spoiled>>,
           (node \in Nodes)', (uart \in Seq(Packets) /\ Len(uart) <= UartCapacity)',
           WireInOrder'
    PROVE  IInv'
  <1>1. TypeOK'
    BY DEF IInv, TypeOK, Nodes
  <1>2. RebootsAreCounted' /\ GoodEvidence(evidence)' /\ EvidenceIsRecent'
    BY DEF IInv, RebootsAreCounted, RebootsAreReal, GoodEvidence, Follows, EvidenceIsRecent
  <1> QED
    BY <1>1, <1>2 DEF IInv

LEMMA NodeCycleStep ==
    ASSUME IInv, NEW look \in Looks, NEW scanAge \in ScanAges, NEW fixedValid \in BOOLEAN,
           NodeCycle(look, scanAge, fixedValid)
    PROVE  IInv'
  <1> DEFINE p == [boot |-> node.boot, sequence |-> node.sequence + 1,
                   nodeMs |-> node.uptime, look |-> look, scanAge |-> scanAge,
                   fixedValid |-> fixedValid, transit |-> 0]
  <1>1. /\ node \in Nodes /\ uart \in Seq(Packets) /\ Len(uart) <= UartCapacity
        /\ frontNode \in Links /\ WireInOrder
    BY TypesNamed DEF IInv
  <1>2. /\ node' = [node EXCEPT !.sequence = @ + 1, !.sent = TRUE]
        /\ uart' = IF Len(uart) < UartCapacity THEN Append(uart, p) ELSE uart
        /\ UNCHANGED <<frontNode, evidence, covered, sinceTick, spoiled>>
        /\ node.sequence < MaxSequence
    BY DEF NodeCycle
  <1>3. node.sequence + 1 \in 0 .. MaxSequence /\ node.boot \in 0 .. MaxBoots
        /\ node.sequence \in Nat /\ node.boot \in Nat /\ node.uptime \in 0 .. UptimeLimit
    <2>1. node.sequence \in 0 .. MaxSequence /\ node.boot \in 0 .. MaxBoots
          /\ node.uptime \in 0 .. UptimeLimit
      BY <1>1 DEF Nodes
    <2>2. node.sequence < MaxSequence
      BY <1>2
    <2> HIDE DEF p
    <2> QED
      BY <2>1, <2>2, ConstantsAreNat
  <1>4. p \in Packets
    <2>1. 0 \in 0 .. MaxTransit
      BY ConstantsAreNat
    <2> QED
      BY <1>3, <2>1 DEF Packets
  <1>5. node' \in Nodes /\ node'.boot = node.boot /\ node'.sequence = node.sequence + 1
    BY <1>1, <1>2, <1>3 DEF Nodes
  <1>6. p.boot = node.boot /\ p.sequence = node.sequence + 1
    OBVIOUS
  <1>7. CASE Len(uart) < UartCapacity
    <2>1. uart' = Append(uart, p)
      BY <1>2, <1>7
    <2> HIDE DEF p
    <2>2. uart' \in Seq(Packets) /\ Len(uart') = Len(uart) + 1 /\ Len(uart) \in Nat
      BY <1>1, <1>4, <2>1, AppendProperties, LenProperties
    <2>3. Len(uart') <= UartCapacity
      BY <1>7, <2>2, ConstantsAreNat
    <2>4. WireInOrder'
      BY <1>1, <1>2, <1>4, <1>6, <2>1, AppendedWire
    <2> QED
      BY <1>2, <1>5, <2>2, <2>3, <2>4, LinkKept
  <1>8. CASE ~(Len(uart) < UartCapacity)
    <2>1. uart' = uart
      BY <1>2, <1>8
    <2>2. WireInOrder'
      <3>1. \A q \in Packets : Sent(q) => q.boot \in Nat /\ q.sequence \in Nat
        BY DEF Packets
      <3>2. \A i \in 1 .. Len(uart) : uart[i] \in Packets
        BY <1>1, ElementOfSeq
      <3>3. frontNode.packet \in Packets
        BY <1>1 DEF Links
      <3>4. frontNode' = frontNode
        BY <1>2
      <3> HIDE DEF p
      <3> QED
        BY <1>1, <1>3, <1>5, <2>1, <3>1, <3>2, <3>3, <3>4 DEF WireInOrder, Sent
    <2> QED
      BY <1>1, <1>2, <1>5, <2>1, <2>2, LinkKept
  <1> QED
    BY <1>7, <1>8

LEMMA NodeRebootStep ==
    ASSUME IInv, NodeReboot
    PROVE  IInv'
  <1>1. /\ node \in Nodes /\ uart \in Seq(Packets) /\ Len(uart) <= UartCapacity
        /\ frontNode \in Links /\ WireInOrder
    BY TypesNamed DEF IInv
  <1>2. /\ node.boot < MaxBoots
        /\ node' = [boot |-> node.boot + 1, sequence |-> 0, uptime |-> 0,
                    silent |-> BootTime, sent |-> FALSE]
        /\ UNCHANGED <<uart, frontNode, evidence, covered, sinceTick, spoiled>>
    BY DEF NodeReboot
  <1>3. node.boot \in Nat /\ node.boot + 1 \in 0 .. MaxBoots
    BY <1>1, <1>2, ConstantsAreNat DEF Nodes
  <1>4. node' \in Nodes /\ node'.boot = node.boot + 1
    BY <1>2, <1>3, ConstantsAreNat DEF Nodes
  <1>5. WireInOrder'
    <2>1. \A i \in 1 .. Len(uart) : uart[i] \in Packets
      BY <1>1, ElementOfSeq
    <2>2. frontNode.packet \in Packets /\ frontNode' = frontNode /\ uart' = uart
      BY <1>1, <1>2 DEF Links
    <2>3. \A q \in Packets : Sent(q) => q.boot < node'.boot
      BY <1>3, <1>4 DEF Sent, Packets
    <2> QED
      BY <1>1, <2>1, <2>2, <2>3 DEF WireInOrder, Sent
  <1> QED
    BY <1>1, <1>2, <1>4, <1>5, LinkKept

LEMMA LoseLineStep ==
    ASSUME IInv, LoseLine
    PROVE  IInv'
  <1>1. /\ node \in Nodes /\ uart \in Seq(Packets) /\ Len(uart) <= UartCapacity /\ WireInOrder
    BY TypesNamed DEF IInv
  <1>2. /\ uart # <<>> /\ uart' = Tail(uart)
        /\ UNCHANGED <<node, frontNode, evidence, covered, sinceTick, spoiled>>
    BY DEF LoseLine
  <1>3. uart' \in Seq(Packets) /\ Len(uart') <= UartCapacity
    BY <1>1, <1>2, TailOfWire, ConstantsAreNat
  <1>4. WireInOrder'
    BY <1>1, <1>2, TailInOrder
  <1> QED
    BY <1>1, <1>2, <1>3, <1>4, LinkKept

\* Time ages the link, the wire and the sample; neither clock of a sample outruns
\* the other.
LEMMA TimePassesStep ==
    ASSUME IInv, TimePasses
    PROVE  IInv'
  <1>1. /\ node \in Nodes /\ uart \in Seq(Packets) /\ Len(uart) <= UartCapacity
        /\ frontNode \in Links /\ evidence \in Evidences /\ WireInOrder
        /\ covered \in BOOLEAN /\ spoiled \in BOOLEAN /\ sinceTick \in 0 .. MaxTickGap
    BY TypesNamed DEF IInv
  <1>2. /\ sinceTick < MaxTickGap /\ sinceTick' = sinceTick + 1
        /\ covered' = covered /\ spoiled' = spoiled
    BY DEF TimePasses
  <1>3. sinceTick \in Nat /\ sinceTick' \in 1 .. MaxTickGap
    BY <1>1, <1>2, ConstantsAreNat
  <1>4. /\ node' \in Nodes /\ node'.boot = node.boot /\ node'.sequence = node.sequence
    <2> DEFINE uptime == IF node.silent = 0 THEN Capped(node.uptime + 1, UptimeLimit)
                                            ELSE node.uptime
               silent == IF node.silent = 0 THEN 0 ELSE node.silent - 1
    <2>1. node.silent \in 0 .. BootTime /\ node.uptime \in 0 .. UptimeLimit
      BY <1>1 DEF Nodes
    <2>2. uptime \in 0 .. UptimeLimit
      BY <2>1, CappedType, ConstantsAreNat
    <2>3. silent \in 0 .. BootTime
      BY <2>1, ConstantsAreNat
    <2>4. node' = [node EXCEPT !.uptime = uptime, !.silent = silent, !.sent = FALSE]
      BY DEF TimePasses
    <2> HIDE DEF uptime, silent
    <2> QED
      BY <1>1, <2>2, <2>3, <2>4 DEF Nodes
  <1>5. /\ uart' \in Seq(Packets) /\ Len(uart') = Len(uart)
        /\ \A i \in 1 .. Len(uart) :
              uart'[i].boot = uart[i].boot /\ uart'[i].sequence = uart[i].sequence
    <2>1. /\ \A i \in 1 .. Len(uart) : uart[i].transit < MaxTransit
          /\ uart' = [i \in 1 .. Len(uart) |-> [uart[i] EXCEPT !.transit = @ + 1]]
      BY DEF TimePasses
    <2> QED
      BY <1>1, <2>1, AgedWire
  <1>6. /\ frontNode' \in Links
        /\ frontNode'.hasPacket = frontNode.hasPacket /\ frontNode'.packet = frontNode.packet
        /\ frontNode'.rebootCount = frontNode.rebootCount
        /\ frontNode.age \in Nat /\ frontNode'.age \in Nat
        /\ frontNode'.age <= frontNode.age + 1
    <2> DEFINE age == Capped(frontNode.age + 1, LinkAgeLimit)
    <2>1. frontNode.age \in 0 .. LinkAgeLimit
      BY <1>1 DEF Links
    <2>2. /\ frontNode.age \in Nat /\ frontNode.age + 1 \in Nat /\ LinkAgeLimit \in Nat
          /\ age \in 0 .. LinkAgeLimit /\ age <= frontNode.age + 1
      <3>1. LinkAgeLimit \in Nat
        BY ConstantsAreNat
      <3>2. frontNode.age \in Nat /\ frontNode.age + 1 \in Nat
        BY <2>1, <3>1
      <3>3. age \in 0 .. LinkAgeLimit /\ age <= frontNode.age + 1
        BY <3>1, <3>2, CappedType
      <3> QED
        BY <3>1, <3>2, <3>3
    <2>3. age \in Nat
      BY <2>2
    <2>4. frontNode' = [frontNode EXCEPT !.age = age]
      BY DEF TimePasses
    <2> HIDE DEF age
    <2> QED
      BY <1>1, <2>2, <2>3, <2>4 DEF Links
  <1>7. /\ evidence' \in Evidences
        /\ evidence'.valid = evidence.valid
        /\ evidence'.observedRebootCount = evidence.observedRebootCount
        /\ evidence'.boot = evidence.boot /\ evidence'.sequence = evidence.sequence
        /\ evidence'.valid /\ evidence'.sampleAge <= EvidenceStale
             => evidence'.trueAge <= evidence'.sampleAge + MaxTransit
    <2>1. CASE ~evidence.valid
      <3>1. evidence' = evidence
        BY <2>1 DEF TimePasses
      <3> QED
        BY <1>1, <2>1, <3>1
    <2>2. CASE evidence.valid
      <3> DEFINE sampleAge == Capped(evidence.sampleAge + 1, EvidenceStale + 1)
                 trueAge == Capped(evidence.trueAge + 1, AgeLimit)
      <3>1. /\ evidence.sampleAge \in Nat /\ evidence.trueAge \in Nat
            /\ evidence.sampleAge <= EvidenceStale
                 => evidence.trueAge <= evidence.sampleAge + MaxTransit
        <4>1. evidence.sampleAge \in 0 .. AgeLimit /\ evidence.trueAge \in 0 .. AgeLimit
          BY <1>1 DEF Evidences
        <4> QED
          BY <2>2, <4>1, ConstantsAreNat DEF IInv, GoodEvidence
      <3>2. /\ sampleAge \in 0 .. AgeLimit /\ trueAge \in 0 .. AgeLimit
            /\ sampleAge <= EvidenceStale => trueAge <= sampleAge + MaxTransit
        BY <3>1, ConstantsAreNat DEF Capped
      <3>3. evidence' = [evidence EXCEPT !.sampleAge = sampleAge, !.trueAge = trueAge]
        BY <2>2 DEF TimePasses
      <3> HIDE DEF sampleAge, trueAge
      <3> QED
        BY <1>1, <3>2, <3>3 DEF Evidences
    <2> QED
      BY <2>1, <2>2
  <1>8. TypeOK'
    BY <1>1, <1>2, <1>3, <1>4, <1>5, <1>6, <1>7 DEF TypeOK, Nodes, Links, Evidences
  <1>9. WireInOrder'
    BY <1>1, <1>4, <1>5, <1>6 DEF WireInOrder, Sent, Precedes
  <1>10. RebootsAreCounted'
    BY <1>6 DEF IInv, RebootsAreCounted, RebootsAreReal
  <1>11. GoodEvidence(evidence)'
    BY <1>6, <1>7 DEF IInv, GoodEvidence, Follows
  <1>12. EvidenceIsRecent'
    <2>1. evidence.valid => frontNode.age <= NodeStale + sinceTick
      BY DEF IInv, EvidenceIsRecent
    <2>2. evidence'.valid => frontNode'.age <= NodeStale + sinceTick'
      BY <1>2, <1>3, <1>6, <1>7, <2>1, ConstantsAreNat
    <2>3. sinceTick' # 0
      BY <1>3
    <2> QED
      BY <2>2, <2>3 DEF EvidenceIsRecent
  <1> QED
    BY <1>8, <1>9, <1>10, <1>11, <1>12 DEF IInv

LEMMA IngestKeeps ==
    ASSUME IInv, Ingest
    PROVE  IInv'
  <1>1. /\ uart \in Seq(Packets) /\ Len(uart) <= UartCapacity /\ frontNode \in Links
        /\ evidence \in Evidences /\ node \in Nodes
        /\ covered \in BOOLEAN /\ spoiled \in BOOLEAN /\ sinceTick \in 0 .. MaxTickGap
    BY TypesNamed DEF IInv
  <1>2. /\ uart # <<>> /\ uart' = Tail(uart)
        /\ UNCHANGED <<node, evidence, covered, sinceTick>>
    BY DEF Ingest
  <1>3. uart' \in Seq(Packets) /\ Len(uart') <= UartCapacity
    BY <1>1, <1>2, TailOfWire, ConstantsAreNat
  <1>4. /\ WireInOrder' /\ RebootsAreCounted' /\ GoodEvidence(evidence)'
        /\ frontNode' \in Links
        /\ frontNode'.age <= frontNode.age
    BY IngestStep
  <1>5. spoiled' \in BOOLEAN
    BY <1>1 DEF Ingest
  <1>6. TypeOK'
    BY <1>1, <1>2, <1>3, <1>4, <1>5 DEF TypeOK, Nodes, Links, Evidences
  <1>7. frontNode.age \in Nat /\ frontNode'.age \in Nat /\ sinceTick \in Nat
    <2>1. frontNode.age \in 0 .. LinkAgeLimit /\ frontNode'.age \in 0 .. LinkAgeLimit
      BY <1>1, <1>4 DEF Links
    <2> QED
      BY <1>1, <2>1, ConstantsAreNat
  <1>8. EvidenceIsRecent'
    <2>1. /\ evidence.valid => frontNode.age <= NodeStale + sinceTick
          /\ covered /\ sinceTick = 0 => evidence.valid /\ evidence.sampleAge <= EvidenceStale
      BY DEF IInv, EvidenceIsRecent
    <2>2. evidence.valid => frontNode'.age <= NodeStale + sinceTick
      BY <1>4, <1>7, <2>1, ConstantsAreNat
    <2> QED
      BY <1>2, <2>1, <2>2 DEF EvidenceIsRecent
  <1> QED
    BY <1>4, <1>6, <1>8 DEF IInv

LEMMA TickStep ==
    ASSUME IInv, Tick
    PROVE  /\ IInv'
           /\ evidence'.valid => Follows(evidence')
  <1> DEFINE left == CachedFrontScannerRange(evidence)
  <1>1. /\ node \in Nodes /\ uart \in Seq(Packets) /\ Len(uart) <= UartCapacity
        /\ frontNode \in Links /\ WireInOrder /\ RebootsAreCounted
        /\ evidence \in Evidences /\ spoiled \in BOOLEAN /\ GoodEvidence(evidence)
    BY TypesNamed DEF IInv
  <1>2. UNCHANGED <<node, uart, frontNode>> /\ evidence' = left /\ sinceTick' = 0
        /\ covered' = (IsFresh /\ evidence'.valid /\ frontNode.packet.fixedValid)
        /\ spoiled' = (spoiled /\ evidence'.valid /\ ~Takes(AfterReboot(evidence)))
    BY DEF Tick
  <1>3. /\ GoodEvidence(left)
        /\ left.valid => /\ IsFresh
                         /\ left.sampleAge <= EvidenceStale
                         /\ left.observedRebootCount = frontNode.rebootCount
    BY <1>1, TickLeavesGood
  <1> HIDE DEF left
  <1>4. evidence' \in Evidences /\ covered' \in BOOLEAN /\ spoiled' \in BOOLEAN
        /\ sinceTick' \in 0 .. MaxTickGap
    <2>1. 0 \in 0 .. MaxTickGap
      BY ConstantsAreNat
    <2>2. evidence'.valid \in BOOLEAN /\ evidence' \in Evidences
      BY <1>2, <1>3 DEF GoodEvidence, Evidences
    <2>3. frontNode.packet.fixedValid \in BOOLEAN
      BY <1>1 DEF Links, Packets
    <2> QED
      BY <1>1, <1>2, <2>1, <2>2, <2>3
  <1>5. TypeOK'
    BY <1>1, <1>2, <1>4 DEF TypeOK, Nodes, Links, Evidences
  <1>6. WireInOrder' /\ RebootsAreCounted'
    BY <1>1, <1>2 DEF WireInOrder, Sent, RebootsAreCounted, RebootsAreReal
  <1>7. GoodEvidence(evidence)'
    BY <1>2, <1>3 DEF GoodEvidence, Follows
  <1>8. EvidenceIsRecent'
    <2>1. left.valid => frontNode.age <= NodeStale + 0
      BY <1>3, ConstantsAreNat DEF IsFresh
    <2>2. covered' => left.valid
      BY <1>2
    <2> QED
      BY <1>2, <1>3, <2>1, <2>2 DEF EvidenceIsRecent
  <1>9. evidence'.valid => Follows(evidence')
    BY <1>2, <1>3 DEF GoodEvidence
  <1> QED
    BY <1>5, <1>6, <1>7, <1>8, <1>9 DEF IInv

\* The inductive invariant of the link.
THEOREM InductiveInvariant == Spec => []IInv
  <1>1. Init => IInv
    BY InitInvariant
  <1>2. IInv /\ [Next]_vars => IInv'
    <2> SUFFICES ASSUME IInv, [Next]_vars
                 PROVE  IInv'
      OBVIOUS
    <2>1. ASSUME NEW look \in Looks, NEW scanAge \in ScanAges, NEW fixedValid \in BOOLEAN,
                 NodeCycle(look, scanAge, fixedValid)
          PROVE  IInv'
      BY <2>1, NodeCycleStep
    <2>2. CASE NodeReboot
      BY <2>2, NodeRebootStep
    <2>3. CASE LoseLine
      BY <2>3, LoseLineStep
    <2>4. CASE TimePasses
      BY <2>4, TimePassesStep
    <2>5. CASE Ingest
      BY <2>5, IngestKeeps
    <2>6. CASE Tick
      BY <2>6, TickStep
    <2>7. CASE UNCHANGED vars
      <3>1. /\ (node \in Nodes)' /\ (uart \in Seq(Packets) /\ Len(uart) <= UartCapacity)'
            /\ UNCHANGED <<frontNode, evidence, covered, sinceTick, spoiled>>
        BY <2>7, TypesNamed DEF IInv, vars
      <3>2. WireInOrder'
        BY <2>7 DEF IInv, WireInOrder, Sent, vars
      <3> QED
        BY <3>1, <3>2, LinkKept
    <2> QED
      BY <2>1, <2>2, <2>3, <2>4, <2>5, <2>6, <2>7 DEF Next
  <1> QED
    BY <1>1, <1>2, PTL DEF Spec

-----------------------------------------------------------------------------
(* What it says of the link *)

\* The node, the wire, the link and the evidence keep their shapes (NodeLink.cpp,
\* main.cpp buildSafetyInput).
THEOREM TypeCorrect == Spec => []TypeOK
  <1>1. IInv => TypeOK
    BY DEF IInv
  <1> QED
    BY <1>1, InductiveInvariant, PTL

\* Scanner evidence never outlives the last accepted packet by more than the
\* staleness limit and one gap between ticks (main.cpp 192-196).
THEOREM SilenceEnds == Spec => []SilenceEndsEvidence
  <1>1. IInv => SilenceEndsEvidence
    <2> SUFFICES ASSUME IInv, evidence.valid
                 PROVE  frontNode.age <= NodeStale + MaxTickGap
      BY DEF SilenceEndsEvidence
    <2>1. frontNode.age <= NodeStale + sinceTick
      BY DEF IInv, EvidenceIsRecent
    <2>2. sinceTick \in 0 .. MaxTickGap /\ frontNode.age \in 0 .. LinkAgeLimit
      BY TypesNamed DEF IInv, Links
    <2> QED
      BY <2>1, <2>2, ConstantsAreNat
  <1> QED
    BY <1>1, InductiveInvariant, PTL

\* However many packets are lost, and whenever the node reboots, MAIN counts no
\* reboot that did not happen (NodeLink::acceptSequence).
THEOREM RebootsAreCountedTruly == Spec => []RebootsAreReal
  <1>1. IInv => RebootsAreReal
    BY DEF IInv, RebootsAreCounted
  <1> QED
    BY <1>1, InductiveInvariant, PTL

\* A tick declares forward coverage from a look of the scanner no older than the
\* evidence limit and the packet's way through the UART (main.cpp
\* cachedFrontScannerRange, nodeSampleAgeMs).
THEOREM CoverageRestsOnARecentLook == Spec => CoverageIsRecent
  <1>1. IInv' => (sinceTick' = 0 /\ covered' => evidence'.trueAge <= EvidenceStale + MaxTransit)
    <2> SUFFICES ASSUME IInv', sinceTick' = 0, covered'
                 PROVE  evidence'.trueAge <= EvidenceStale + MaxTransit
      OBVIOUS
    <2>1. evidence'.valid /\ evidence'.sampleAge <= EvidenceStale
      BY DEF IInv, EvidenceIsRecent
    <2>2. evidence'.trueAge <= evidence'.sampleAge + MaxTransit
      BY <2>1 DEF IInv, GoodEvidence
    <2>3. evidence'.sampleAge \in 0 .. AgeLimit /\ evidence'.trueAge \in 0 .. AgeLimit
      BY DEF IInv, TypeOK
    <2> QED
      BY <2>1, <2>2, <2>3, ConstantsAreNat
  <1> QED
    BY <1>1, InductiveInvariant, PTL DEF CoverageIsRecent

\* A reboot of the node that its sequence numbers show ends the evidence of the
\* boot before at the next tick (NodeLink::acceptSequence, main.cpp 198-209).
THEOREM VisibleRebootClears == Spec => VisibleRebootClearsEvidence
  <1>1. IInv /\ [Next]_vars =>
           (Tick /\ evidence'.valid => \/ evidence'.boot = frontNode.packet.boot
                                        \/ evidence'.sequence < frontNode.packet.sequence)
    BY TickStep DEF Follows
  <1> QED
    BY <1>1, InductiveInvariant, PTL DEF Spec, VisibleRebootClearsEvidence

=============================================================================
