----------------------------- MODULE LiveRuntime -----------------------------
(***************************************************************************)
(* The backend's LIVE runtime: telemetry of MAIN over USB and Wi-Fi, the    *)
(* readers that merge them, the acceptance of packets and what the world    *)
(* store shows (backend/app/live_runtime.py, providers/redundant_reader.py).*)
(*                                                                         *)
(* The coroutine _run() suspends only in its threads and sleeps: opening,   *)
(* polling, the handling of one packet and the end of a pass are steps.     *)
(* With one source the reader is that source and its errors reach _run();   *)
(* with two they stay in RedundantTelemetryReader.  A packet is its counter *)
(* pair and the motor cut it reports; its boot is known to the model only.  *)
(***************************************************************************)
EXTENDS Integers, Sequences

CONSTANTS
    SourceSets,      \* the readers that may be configured: parts of {"USB", "WIFI"}
    ResetSequence,   \* the 5 of _accept_packet()
    CounterModulus,  \* 2^32
    StaleTimeout,    \* stale_timeout_ms
    MaxPassGap,      \* longest time between two passes of _run()
    BootTime,        \* time a rebooting MAIN is silent
    CutSets,         \* a bound: the source sets with which MAIN reports motor cuts
    MaxMs,           \* a bound: MAIN's clock in one boot
    MaxSequence,     \* a bound: telemetry of one boot
    MaxBoots,        \* a bound: reboots of MAIN
    Capacity         \* a bound: packets a source holds

ASSUME LiveRuntimeAssumption ==
    /\ SourceSets \subseteq SUBSET {"USB", "WIFI"} \ {{}}
    /\ {ResetSequence, StaleTimeout, MaxPassGap, BootTime, MaxMs, MaxSequence, MaxBoots, Capacity}
          \subseteq Nat
    /\ CutSets \subseteq SourceSets
    /\ CounterModulus \in Nat
    /\ 2 * MaxSequence < CounterModulus /\ 2 * MaxMs < CounterModulus

VARIABLES
    controller,    \* MAIN: its boot, clock and next telemetry sequence
    wire,          \* packets each source holds, oldest first
    reader,        \* sources with an open reader
    at,            \* _run(): "open", "poll" or "packets"
    batch,         \* packets still to handle in this pass
    accepted,      \* accepted_packet
    last,          \* _last_controller_ms, _last_packet_sequence: their packet
    sampleAge,     \* age of _last_telemetry_ms
    stalePublished,
    detail,        \* _status_detail
    world,         \* the published WorldState
    sincePass      \* age of the last pass

runtime == <<accepted, last, sampleAge, stalePublished, detail, world>>
vars == <<controller, wire, reader, at, batch, runtime, sincePass>>

\* The readers in use, the same for a whole behaviour.
Sources == DOMAIN wire
Redundant == Sources = {"USB", "WIFI"}
Cuts == IF Sources \in CutSets THEN BOOLEAN ELSE {FALSE}

Frames == [boot : 0 .. MaxBoots, seq : 0 .. MaxSequence, ms : 0 .. MaxMs, cut : BOOLEAN]
NoFrame == [boot |-> 0, seq |-> 0, ms |-> 0, cut |-> FALSE]

\* The age at which an outage is noticed at the end of a pass, at the latest: the
\* configuration allows passes longer than the timeout (config.py 25-26).
NoticedAt == IF StaleTimeout < MaxPassGap THEN MaxPassGap ELSE StaleTimeout
AgeLimit == NoticedAt + MaxPassGap + 1
Capped(t, limit) == IF t > limit THEN limit ELSE t

\* start() publishes the offline state before _run() begins.
Init ==
    /\ controller = [boot |-> 0, ms |-> 0, seq |-> 0, silent |-> 0]
    /\ \E configured \in SourceSets : wire = [s \in configured |-> <<>>]
    /\ reader = {}
    /\ at = "open"
    /\ batch = <<>>
    /\ accepted = FALSE
    /\ last = [some |-> FALSE, frame |-> NoFrame]
    /\ sampleAge = 0
    /\ stalePublished = FALSE
    /\ detail = "waiting"
    /\ world = [state |-> "offline", cut |-> FALSE]
    /\ sincePass = 0

-----------------------------------------------------------------------------
(* MAIN, the sources and time *)

\* A source holds packets while its reader is open.  MAIN opens its first Wi-Fi
\* session 3 s after boot, past the first frames (WifiTelemetry::run 112-113).
Carriers == {s \in reader : s = "USB" \/ controller.seq > ResetSequence}

\* Any source may lose the packet.
Emit(cut, reached) ==
    /\ controller.silent = 0
    /\ controller.seq < MaxSequence
    /\ reached \subseteq Carriers
    /\ \A s \in reached : Len(wire[s]) < Capacity
    /\ LET p == [boot |-> controller.boot, seq |-> controller.seq, ms |-> controller.ms,
                 cut |-> cut]
       IN  wire' = [s \in Sources |-> IF s \in reached THEN Append(wire[s], p) ELSE wire[s]]
    /\ controller' = [controller EXCEPT !.seq = @ + 1]
    /\ UNCHANGED <<reader, at, batch, runtime, sincePass>>

Reboot ==
    /\ controller.boot < MaxBoots
    /\ controller' = [boot |-> controller.boot + 1, ms |-> 0, seq |-> 0, silent |-> BootTime]
    /\ UNCHANGED <<wire, reader, at, batch, runtime, sincePass>>

\* While it waits for a reader, _run() has already published the outage.
TimePasses ==
    /\ at = "open" \/ sincePass < MaxPassGap
    /\ controller' = [controller EXCEPT !.ms = IF controller.silent = 0
                                               THEN Capped(@ + 1, MaxMs) ELSE @,
                                        !.silent = IF @ = 0 THEN 0 ELSE @ - 1]
    /\ sampleAge' = IF last.some THEN Capped(sampleAge + 1, AgeLimit) ELSE 0
    /\ sincePass' = IF at = "open" THEN 0 ELSE sincePass + 1
    /\ UNCHANGED <<wire, reader, at, batch, accepted, last, stalePublished, detail, world>>

-----------------------------------------------------------------------------
(* _publish_unavailable() and _publish_sample() *)

\* Faulty variant: the outage clears the reported cut.
UnavailableClears(state) == [state |-> state, cut |-> FALSE]

Unavailable(state) == [state |-> state, cut |-> world.cut]

PublishUnavailable(state, reason) ==
    /\ world' = Unavailable(state)
    /\ detail' = reason

\* Faulty variant: the outage flag survives the next sample.
SamplePublishedStaleKept(frame) ==
    /\ world' = [state |-> "live", cut |-> frame.cut]
    /\ detail' = "receiving"
    /\ sampleAge' = 0
    /\ UNCHANGED stalePublished

SamplePublished(frame) ==
    /\ world' = [state |-> "live", cut |-> frame.cut]
    /\ detail' = "receiving"
    /\ sampleAge' = 0
    /\ stalePublished' = FALSE

-----------------------------------------------------------------------------
(* _accept_packet() *)

CounterDelta(current, previous) == (current - previous) % CounterModulus

\* Faulty variant: any change of a counter counts as an advance.
CounterAdvancedAny(current, previous) == CounterDelta(current, previous) # 0

CounterAdvanced(current, previous) ==
    /\ CounterDelta(current, previous) # 0
    /\ 2 * CounterDelta(current, previous) < CounterModulus

ControllerReset(p) ==
    /\ p.ms < last.frame.ms
    /\ p.seq <= ResetSequence
    /\ p.seq < last.frame.seq

\* Every packet has a sequence, as MAIN sends it (main.cpp 509); the branches for one
\* without, which compare the clock alone, are left out.
AcceptPacket(p) ==
    \/ ~last.some
    \/ ControllerReset(p)
    \/ /\ CounterAdvanced(p.ms, last.frame.ms)
       /\ CounterAdvanced(p.seq, last.frame.seq)

-----------------------------------------------------------------------------
(* _run() *)

\* The factory of the redundant reader cannot fail.
OpenReader ==
    /\ at = "open"
    /\ at' = "poll"
    /\ reader' = IF Redundant THEN {} ELSE Sources
    /\ detail' = "waiting"
    /\ sincePass' = 0
    /\ UNCHANGED <<controller, wire, batch, accepted, last, sampleAge, stalePublished, world>>

OpenFails ==
    /\ at = "open"
    /\ ~Redundant
    /\ IF detail # "openFailed"
       THEN PublishUnavailable("offline", "openFailed")
       ELSE UNCHANGED <<world, detail>>
    /\ UNCHANGED <<controller, wire, reader, at, batch, accepted, last, sampleAge,
                   stalePublished, sincePass>>

Rest(s, taken) == SubSeq(wire[s], taken + 1, Len(wire[s]))
First(s, taken) == SubSeq(wire[s], 1, taken)

\* poll() of a single source: whole packets that have arrived.
PollOne ==
    /\ at = "poll" /\ ~Redundant
    /\ \E s \in Sources : \E taken \in 0 .. Len(wire[s]) :
          /\ batch' = First(s, taken)
          /\ wire' = [wire EXCEPT ![s] = Rest(s, taken)]
    /\ at' = "packets"
    /\ accepted' = FALSE
    /\ UNCHANGED <<controller, reader, last, sampleAge, stalePublished, detail, world, sincePass>>

\* A read error: what the source held is lost with it.
PollFails ==
    /\ at = "poll" /\ ~Redundant
    /\ PublishUnavailable("offline", "readFailed")
    /\ at' = "open"
    /\ reader' = {}
    /\ wire' = [s \in Sources |-> <<>>]
    /\ sincePass' = 0
    /\ UNCHANGED <<controller, batch, accepted, last, sampleAge, stalePublished>>

\* RedundantTelemetryReader.poll(): sources that can be opened are, one that
\* fails is closed, USB packets come before those of Wi-Fi.
PollBoth ==
    /\ at = "poll" /\ Redundant
    /\ \E open \in SUBSET Sources, failed \in SUBSET Sources,
          usb \in 0 .. Len(wire["USB"]), wifi \in 0 .. Len(wire["WIFI"]) :
          /\ reader \subseteq open /\ failed \subseteq open
          /\ "USB" \notin open \ failed => usb = 0
          /\ "WIFI" \notin open \ failed => wifi = 0
          /\ reader' = open \ failed
          /\ batch' = First("USB", usb) \o First("WIFI", wifi)
          /\ wire' = [s \in Sources |->
                         IF s \in failed THEN <<>>
                         ELSE Rest(s, IF s = "USB" THEN usb ELSE wifi)]
    /\ at' = "packets"
    /\ accepted' = FALSE
    /\ UNCHANGED <<controller, last, sampleAge, stalePublished, detail, world, sincePass>>

HandlePacket ==
    /\ at = "packets" /\ batch # <<>>
    /\ batch' = Tail(batch)
    /\ LET p == Head(batch)
       IN  IF AcceptPacket(p)
           THEN /\ last' = [some |-> TRUE, frame |-> p]
                /\ SamplePublished(p)
                /\ accepted' = TRUE
           ELSE UNCHANGED runtime
    /\ UNCHANGED <<controller, wire, reader, at, sincePass>>

\* The staleness check at the end of a pass.
EndPass ==
    /\ at = "packets" /\ batch = <<>>
    /\ IF ~accepted /\ last.some /\ sampleAge > StaleTimeout /\ ~stalePublished
       THEN PublishUnavailable("stale", "telemetryStale") /\ stalePublished' = TRUE
       ELSE UNCHANGED <<world, detail, stalePublished>>
    /\ at' = "poll"
    /\ sincePass' = 0
    /\ UNCHANGED <<controller, wire, reader, batch, accepted, last, sampleAge>>

Next ==
    \/ \E cut \in Cuts, reached \in SUBSET Sources : Emit(cut, reached)
    \/ Reboot
    \/ TimePasses
    \/ OpenReader \/ OpenFails
    \/ PollOne \/ PollFails \/ PollBoth
    \/ HandlePacket \/ EndPass

Spec == Init /\ [][Next]_vars

-----------------------------------------------------------------------------
(* Properties *)

\* Type invariant.
TypeOK ==
    /\ controller \in [boot : 0 .. MaxBoots, ms : 0 .. MaxMs, seq : 0 .. MaxSequence,
                      silent : 0 .. BootTime]
    /\ Sources \in SourceSets /\ wire \in [Sources -> Seq(Frames)]
    /\ \A s \in Sources : Len(wire[s]) <= Capacity
    /\ reader \subseteq Sources
    /\ at \in {"open", "poll", "packets"}
    /\ batch \in Seq(Frames)
    /\ accepted \in BOOLEAN
    /\ last \in [some : BOOLEAN, frame : Frames]
    /\ sampleAge \in 0 .. AgeLimit
    /\ stalePublished \in BOOLEAN
    /\ detail \in {"waiting", "openFailed", "readFailed", "telemetryStale", "receiving"}
    /\ world \in [state : {"offline", "stale", "live"}, cut : BOOLEAN]
    /\ sincePass \in 0 .. MaxPassGap

\* The world store never freezes the last live snapshot: what it shows as live
\* was received within the stale timeout (or the pass that took it, if that was
\* longer) and one pass, in the second outage as in the first, whether packets
\* stop or only rejected ones arrive
\* (docs/ARCHITECTURE.md 69-71, live_runtime.py 329-341).
LiveIsRecent == world.state = "live" => sampleAge <= NoticedAt + MaxPassGap

\* A reported motor cut is withdrawn only by a telemetry frame of MAIN that
\* withdraws it, never by an outage, a failed read or a reconnection
\* (_publish_unavailable 651-670).
CutIsKept ==
    [][world.cut /\ ~world'.cut =>
          /\ at = "packets" /\ batch # <<>>
          /\ ~Head(batch).cut /\ last'.frame = Head(batch)]_vars

\* Past the first frames of a boot, a frame is shown only if it is newer than
\* the one shown before it: the second source's copies are rejected
\* (_accept_packet 412-451).
CopiesAreRejected ==
    [][last.some /\ last' # last /\ last'.frame.boot = last.frame.boot
          /\ last'.frame.seq > ResetSequence
       => last'.frame.seq > last.frame.seq /\ last'.frame.ms > last.frame.ms]_vars

\* docs/ARCHITECTURE.md 66-67: the backend "uses MAIN's sequence and controller
\* clock to reject duplicate or old frames".
OldFramesAreRejected ==
    [][last.some /\ last' # last => last'.frame.boot >= last.frame.boot]_vars

=============================================================================
