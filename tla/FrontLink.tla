------------------------------ MODULE FrontLink ------------------------------
(***************************************************************************)
(* The FRONT node's telemetry as MAIN receives it: the UART, NodeLink's     *)
(* acceptance of packets, and the scanner evidence that buildSafetyInput()  *)
(* keeps while the servo looks outside the forward sector                   *)
(* (firmware/main_esp32/src/NodeLink.cpp, main.cpp).                        *)
(*                                                                         *)
(* Times are ages in one coarse unit; an age stops at the first value past  *)
(* every limit it is compared with.  A packet says what the evidence code   *)
(* tells apart: the scanner's look is "valid" or "invalid" in the sector,   *)
(* "outside" it, or "faulty" (scanner or servo unhealthy).                  *)
(***************************************************************************)
EXTENDS Integers, Sequences

CONSTANTS
    NodeStale,          \* kNodeStaleMs
    EvidenceStale,      \* kForwardScannerEvidenceStaleMs
    ResetWindow,        \* kNodeResetWindowMs
    RebootGap,          \* the 1000 ms of acceptSequence()
    BootTime,           \* time a rebooting node is silent
    SequenceModulus,    \* 2^32
    ScanAges,           \* ages a scan can have when its packet is completed
    MaxSequence,        \* a bound: packets of one boot of the node
    MaxBoots,           \* a bound: reboots of the node
    MaxTransit,         \* a bound: time a packet waits in the UART
    UartCapacity,       \* packets the UART receive buffer holds
    MaxTickGap          \* longest time between two safety ticks

ASSUME FrontLinkAssumption ==
    /\ {NodeStale, EvidenceStale, ResetWindow, RebootGap, BootTime} \subseteq Nat
    /\ {MaxSequence, MaxBoots, MaxTransit, UartCapacity, MaxTickGap} \subseteq Nat
    /\ SequenceModulus \in Nat
    /\ 2 * MaxSequence < SequenceModulus
    /\ ScanAges \subseteq 0 .. NodeStale
    /\ 0 \in ScanAges

VARIABLES
    node,       \* FRONT: its boot, its last sequence and its uptime
    uart,       \* packets on their way, oldest first
    frontNode,  \* NodeLink: the last accepted packet, its age, the reboot count
    evidence,   \* frontScannerEvidence; trueAge, boot and sequence are history:
                \*   the age, on a perfect clock, and the packet of its sample
    covered,    \* coverageSufficient of the last tick
    sinceTick,  \* age of the last tick
    spoiled     \* history: MAIN accepted an in-sector invalid packet after the
                \*   sample the evidence holds

vars == <<node, uart, frontNode, evidence, covered, sinceTick, spoiled>>

Looks == {"valid", "invalid", "outside", "faulty"}

Capped(t, limit) == IF t > limit THEN limit ELSE t

UptimeLimit == ResetWindow + RebootGap + 1
LinkAgeLimit == NodeStale + MaxTickGap + 1
AgeLimit == EvidenceStale + MaxTransit + MaxTickGap + 1

\* boot and transit are known to the model only.
Packets ==
    [boot : 0 .. MaxBoots, sequence : 0 .. MaxSequence, nodeMs : 0 .. UptimeLimit,
     look : Looks, scanAge : ScanAges, fixedValid : BOOLEAN, transit : 0 .. MaxTransit]

NoPacket == [boot |-> 0, sequence |-> 0, nodeMs |-> 0, look |-> "faulty",
             scanAge |-> 0, fixedValid |-> FALSE, transit |-> 0]

ClearedEvidence(ev) ==
    [ev EXCEPT !.valid = FALSE, !.sampleAge = 0, !.trueAge = 0, !.boot = 0, !.sequence = 0]

Init ==
    /\ node = [boot |-> 0, sequence |-> 0, uptime |-> 0, silent |-> BootTime, sent |-> FALSE]
    /\ uart = <<>>
    /\ frontNode = [hasPacket |-> FALSE, packet |-> NoPacket, age |-> 0, rebootCount |-> 0]
    /\ evidence = [valid |-> FALSE, sampleAge |-> 0, observedRebootCount |-> 0,
                   hasProcessedPacket |-> FALSE, lastProcessedSequence |-> 0,
                   trueAge |-> 0, boot |-> 0, sequence |-> 0]
    /\ covered = FALSE
    /\ sinceTick = 0
    /\ spoiled = FALSE

-----------------------------------------------------------------------------
(* The node and the wire *)

\* One acquisition cycle ends in a packet; a full receive buffer loses it.
\* The age of a look that MAIN never takes is not told apart.
NodeCycle(look, scanAge, fixedValid) ==
    /\ look = "valid" \/ scanAge = 0
    /\ node.silent = 0
    /\ ~node.sent
    /\ node.sequence < MaxSequence
    /\ node' = [node EXCEPT !.sequence = @ + 1, !.sent = TRUE]
    /\ LET p == [boot |-> node.boot, sequence |-> node.sequence + 1,
                 nodeMs |-> node.uptime, look |-> look, scanAge |-> scanAge,
                 fixedValid |-> fixedValid, transit |-> 0]
       IN  uart' = IF Len(uart) < UartCapacity THEN Append(uart, p) ELSE uart
    /\ UNCHANGED <<frontNode, evidence, covered, sinceTick, spoiled>>

NodeReboot ==
    /\ node.boot < MaxBoots
    /\ node' = [boot |-> node.boot + 1, sequence |-> 0, uptime |-> 0,
                silent |-> BootTime, sent |-> FALSE]
    /\ UNCHANGED <<uart, frontNode, evidence, covered, sinceTick, spoiled>>

\* A corrupted line fails to parse, an overlong one is discarded.
LoseLine ==
    /\ uart # <<>>
    /\ uart' = Tail(uart)
    /\ UNCHANGED <<node, frontNode, evidence, covered, sinceTick, spoiled>>

TimePasses ==
    /\ sinceTick < MaxTickGap
    /\ \A i \in 1 .. Len(uart) : uart[i].transit < MaxTransit
    /\ node' = [node EXCEPT !.uptime = IF node.silent = 0 THEN Capped(@ + 1, UptimeLimit) ELSE @,
                            !.silent = IF @ = 0 THEN 0 ELSE @ - 1,
                            !.sent = FALSE]
    /\ uart' = [i \in 1 .. Len(uart) |-> [uart[i] EXCEPT !.transit = @ + 1]]
    /\ frontNode' = [frontNode EXCEPT !.age = Capped(@ + 1, LinkAgeLimit)]
    /\ evidence' = IF evidence.valid
                   THEN [evidence EXCEPT !.sampleAge = Capped(@ + 1, EvidenceStale + 1),
                                         !.trueAge = Capped(@ + 1, AgeLimit)]
                   ELSE evidence
    /\ sinceTick' = sinceTick + 1
    /\ UNCHANGED <<covered, spoiled>>

-----------------------------------------------------------------------------
(* NodeLink *)

\* Faulty variant: a small uptime alone is taken for a reboot.
ProbableRebootEarly(p) == p.nodeMs < ResetWindow

ProbableReboot(p) ==
    /\ p.sequence < frontNode.packet.sequence
    /\ p.nodeMs < frontNode.packet.nodeMs
    /\ p.nodeMs < ResetWindow
    /\ frontNode.packet.nodeMs - p.nodeMs > RebootGap

SequenceDelta(p) == (p.sequence - frontNode.packet.sequence) % SequenceModulus

AcceptSequence(p) ==
    \/ ~frontNode.hasPacket
    \/ ProbableReboot(p)
    \/ SequenceDelta(p) # 0 /\ 2 * SequenceDelta(p) < SequenceModulus

\* handleLine() of a well-formed FRONT packet.
Ingest ==
    /\ uart # <<>>
    /\ uart' = Tail(uart)
    /\ LET p == Head(uart)
       IN  IF AcceptSequence(p)
           THEN /\ frontNode' =
                     [hasPacket |-> TRUE, packet |-> p, age |-> 0,
                      rebootCount |-> frontNode.rebootCount +
                          (IF frontNode.hasPacket /\ ProbableReboot(p) THEN 1 ELSE 0)]
                /\ spoiled' = (spoiled \/ (evidence.valid /\ p.look = "invalid"))
           ELSE UNCHANGED <<frontNode, spoiled>>
    /\ UNCHANGED <<node, evidence, covered, sinceTick>>

IsFresh == frontNode.hasPacket /\ frontNode.age <= NodeStale

-----------------------------------------------------------------------------
(* The evidence of one safety tick *)

\* nodeSampleAgeMs(): the age of the packet plus the age of its scan in it.
NodeSampleAge == frontNode.age + frontNode.packet.scanAge

\* The sample of the last packet as evidence.
\* Faulty variant: the sample counts from the tick that takes it.
TakenAtTick(ev) ==
    [ev EXCEPT !.valid = TRUE, !.sampleAge = 0,
               !.trueAge = NodeSampleAge + frontNode.packet.transit,
               !.boot = frontNode.packet.boot, !.sequence = frontNode.packet.sequence]

Taken(ev) ==
    [ev EXCEPT !.valid = TRUE, !.sampleAge = NodeSampleAge,
               !.trueAge = NodeSampleAge + frontNode.packet.transit,
               !.boot = frontNode.packet.boot, !.sequence = frontNode.packet.sequence]

\* Faulty variant: a reboot only makes the next packet a new one.
AfterRebootKept(ev) ==
    IF frontNode.rebootCount # ev.observedRebootCount
    THEN [ev EXCEPT !.observedRebootCount = frontNode.rebootCount,
                    !.hasProcessedPacket = FALSE]
    ELSE ev

AfterReboot(ev) ==
    IF frontNode.rebootCount # ev.observedRebootCount
    THEN [ClearedEvidence(ev) EXCEPT !.observedRebootCount = frontNode.rebootCount,
                                     !.hasProcessedPacket = FALSE]
    ELSE ev

Processed(ev) ==
    [ev EXCEPT !.hasProcessedPacket = TRUE,
               !.lastProcessedSequence = frontNode.packet.sequence]

NewPacket(ev) ==
    \/ ~ev.hasProcessedPacket
    \/ frontNode.packet.sequence # ev.lastProcessedSequence

Takes(ev) ==
    /\ NewPacket(ev)
    /\ frontNode.packet.look = "valid"
    /\ NodeSampleAge <= EvidenceStale

AfterPacket(ev) ==
    CASE ~NewPacket(ev) -> ev
      [] NewPacket(ev) /\ frontNode.packet.look = "outside" -> Processed(ev)
      [] Takes(ev) -> Taken(Processed(ev))
      [] OTHER -> ClearedEvidence(Processed(ev))

Unexpired(ev) ==
    IF ev.valid /\ ev.sampleAge <= EvidenceStale THEN ev ELSE ClearedEvidence(ev)

\* Faulty variant: staleness is left to collectForwardRanges().
CachedNotFreshKept(ev) ==
    CASE ~IsFresh -> ev
      [] IsFresh /\ frontNode.packet.look = "faulty" ->
            ClearedEvidence(Processed(AfterReboot(ev)))
      [] OTHER -> Unexpired(AfterPacket(AfterReboot(ev)))

\* cachedFrontScannerRange(): the evidence it leaves; it is usable iff valid.
CachedFrontScannerRange(ev) ==
    CASE ~IsFresh -> ClearedEvidence(ev)
      [] IsFresh /\ frontNode.packet.look = "faulty" ->
            ClearedEvidence(Processed(AfterReboot(ev)))
      [] OTHER -> Unexpired(AfterPacket(AfterReboot(ev)))

\* collectForwardRanges() of a safety tick.
Tick ==
    /\ evidence' = CachedFrontScannerRange(evidence)
    /\ covered' = (IsFresh /\ evidence'.valid /\ frontNode.packet.fixedValid)
    /\ spoiled' = (spoiled /\ evidence'.valid /\ ~Takes(AfterReboot(evidence)))
    /\ sinceTick' = 0
    /\ UNCHANGED <<node, uart, frontNode>>

Next ==
    \/ \E look \in Looks, scanAge \in ScanAges, fixedValid \in BOOLEAN :
          NodeCycle(look, scanAge, fixedValid)
    \/ NodeReboot
    \/ LoseLine
    \/ TimePasses
    \/ Ingest
    \/ Tick

Spec == Init /\ [][Next]_vars

-----------------------------------------------------------------------------
(* Properties *)

\* Type invariant: the link, the wire and the evidence keep their shapes.
TypeOK ==
    /\ node \in [boot : 0 .. MaxBoots, sequence : 0 .. MaxSequence,
                 uptime : 0 .. UptimeLimit, silent : 0 .. BootTime, sent : BOOLEAN]
    /\ uart \in Seq(Packets)
    /\ Len(uart) <= UartCapacity
    /\ frontNode \in [hasPacket : BOOLEAN, packet : Packets, age : 0 .. LinkAgeLimit,
                      rebootCount : 0 .. MaxBoots]
    /\ evidence \in [valid : BOOLEAN, sampleAge : 0 .. AgeLimit, trueAge : 0 .. AgeLimit,
                     boot : 0 .. MaxBoots, sequence : 0 .. MaxSequence,
                     observedRebootCount : 0 .. MaxBoots, hasProcessedPacket : BOOLEAN,
                     lastProcessedSequence : 0 .. MaxSequence]
    /\ covered \in BOOLEAN
    /\ sinceTick \in 0 .. MaxTickGap
    /\ spoiled \in BOOLEAN

\* The forward coverage a tick declares rests on a look of the scanner that is
\* really no older than 1800 ms and the packet's way through the UART, however
\* late MAIN read the packet and however many ticks kept its sample
\* (main.cpp cachedFrontScannerRange, nodeSampleAgeMs).
CoverageIsRecent ==
    [][sinceTick' = 0 /\ covered' => evidence'.trueAge <= EvidenceStale + MaxTransit]_vars

\* A link that falls silent ends the evidence: it never outlives the last packet
\* by more than the staleness limit and one gap between ticks, so that a later
\* packet that looks outside the sector cannot revive it (main.cpp 192-196).
SilenceEndsEvidence == evidence.valid => frontNode.age <= NodeStale + MaxTickGap

\* MAIN never counts more reboots of the node than there were, whatever packets
\* the wire lost (NodeLink::acceptSequence).
RebootsAreReal == frontNode.rebootCount <= frontNode.packet.boot

\* After a tick, evidence from an earlier boot of the node survives only if the
\* reboot cannot be told from lost packets: the sequence number went on growing
\* (NodeLink::acceptSequence and the reboot count main.cpp compares).
VisibleRebootClearsEvidence ==
    [][Tick /\ evidence'.valid =>
          \/ evidence'.boot = frontNode.packet.boot
          \/ evidence'.sequence < frontNode.packet.sequence]_vars

\* PROTOCOL.md: MAIN clears retained scanner evidence on a new in-sector invalid
\* sample.  A tick examines the newest packet only (main.cpp 216-233).
InvalidSampleClears == [][Tick => ~spoiled']_vars

=============================================================================
