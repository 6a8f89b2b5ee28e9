---------------------------- MODULE MainSafetyLoop ----------------------------
(***************************************************************************)
(* The safety half of MAIN's cooperative loop                               *)
(* (firmware/main_esp32/src/main.cpp): a pass samples the clock once, lets  *)
(* the command parser run handlers that sample it again, evaluates the      *)
(* safety controller when its period has elapsed, drives the relay, and     *)
(* builds telemetry from what the last evaluation and the last input left   *)
(* in lastSafetyOutput and lastSafetyInput.                                 *)
(*                                                                         *)
(* The vehicle and the sensors are the environment: each buildSafetyInput() *)
(* sees any member of Worlds.  MAIN may lose power between any two steps.   *)
(***************************************************************************)
EXTENDS SafetyController

CONSTANTS
    Speeds, Ranges,      \* speeds and nearest ranges the sensors can report
    Direction,           \* kConfiguredTravelDirection
    RelayEnabled,        \* kMotorCutRelayEnabled
    SafetyPeriod,        \* kSafetyPeriodMs
    MaxGap               \* a bound: longest time between two safety ticks

ASSUME LoopAssumption ==
    /\ Speeds \subseteq Nat
    /\ 0 \in Speeds
    /\ Ranges \subseteq Nat
    /\ Direction \in TravelDirections
    /\ RelayEnabled \in BOOLEAN
    /\ SafetyPeriod \in Nat
    /\ MaxGap \in Nat
    /\ SafetyPeriod <= MaxGap

\* A stall shorter than the wrap of the clock leaves room for both timers.
ASSUME ClockAssumption ==
    /\ EmergencyPersistence + MaxGap < ClockModulus
    /\ SensorFaultCutPersistence + MaxGap < ClockModulus

VARIABLES
    millis,             \* the hardware clock
    nowMs,              \* the clock value this pass of loop() works with
    phase,              \* where MAIN is in setup() and loop()
    controller,         \* safetyController
    lastSafetyInput, lastSafetyOutput,
    relayCutApplied,
    lastSafetyMs,
    obstacleHeld,       \* history: how long every tick has seen an obstacle
    faultHeld           \*   hazard, a coverage fault; NoCandidate: not now

vars == <<millis, nowMs, phase, controller, lastSafetyInput, lastSafetyOutput,
          relayCutApplied, lastSafetyMs, obstacleHeld, faultHeld>>

Phases == {"setup", "poll", "commands", "telemetry"}

\* What the ranging half of buildSafetyInput() hands over.  Coverage implies a
\* valid range, and an unknown direction never has coverage.
Worlds ==
    {w \in [speed : Speeds, coverage : BOOLEAN, nearest : Ranges \cup {Unknown}] :
        w.coverage => w.nearest # Unknown /\ Direction # "UNKNOWN"}

BuildSafetyInput(w, now) ==
    [nowMs |-> now, speed |-> w.speed, direction |-> Direction,
     coverageSufficient |-> w.coverage, hasValidRange |-> w.nearest # Unknown,
     nearestRange |-> w.nearest]

NothingSeen == [speed |-> 0, coverage |-> FALSE, nearest |-> Unknown]

\* applyRelayCut(cut): a disabled relay is never driven.
ApplyRelayCut(cut) == relayCutApplied' = (RelayEnabled /\ cut)

\* The history of one hazard, extended by a tick at time now.
Capped(t, bound) == IF t > bound THEN bound ELSE t

Held(held, hazard, now, bound) ==
    IF ~hazard THEN NoCandidate
    ELSE IF held = NoCandidate THEN 0
    ELSE Capped(held + elapsedMs(now, lastSafetyMs), bound)

Observe(in) ==
    /\ obstacleHeld' = Held(obstacleHeld, ObstacleHazard(in), in.nowMs, EmergencyPersistence)
    /\ faultHeld' = Held(faultHeld, FaultHazard(in), in.nowMs, SensorFaultCutPersistence)

\* A latched controller looks at nothing; its hazards start afresh after reset.
ForgetHistory == obstacleHeld' = NoCandidate /\ faultHeld' = NoCandidate

\* lastSafetyInput = buildSafetyInput(now); lastSafetyOutput = evaluate(...)
EvaluateAndKeep(c, w, now) ==
    /\ controller' = Evaluate(c, BuildSafetyInput(w, now))
    /\ lastSafetyInput' = w
    /\ lastSafetyOutput' = EvaluateOutput(c, BuildSafetyInput(w, now))

-----------------------------------------------------------------------------
(* Power-up: static initialisation and initializeRelay(), then setup() *)

\* lastSafetyOutput{}: every member zero.
PowerUpOutput ==
    [state |-> "SAFE", reason |-> "CLEAR", motorCut |-> FALSE, nearestRange |-> 0]

Init ==
    /\ millis = 0
    /\ nowMs = 0
    /\ phase = "setup"
    /\ controller = NewController
    /\ lastSafetyInput = NothingSeen
    /\ lastSafetyOutput = PowerUpOutput
    /\ relayCutApplied = FALSE
    /\ lastSafetyMs = 0
    /\ obstacleHeld = NoCandidate
    /\ faultHeld = NoCandidate

\* No node has reported and no wheel has turned when setup() evaluates.
Setup ==
    /\ phase = "setup"
    /\ EvaluateAndKeep(controller, NothingSeen, millis)
    /\ lastSafetyMs' = elapsedMs(millis, SafetyPeriod)
    /\ phase' = "poll"
    /\ UNCHANGED <<millis, nowMs, relayCutApplied, obstacleHeld, faultHeld>>

\* Power loss, brown-out or watchdog reset: nothing survives.
Restart ==
    /\ millis' = 0
    /\ nowMs' = 0
    /\ phase' = "setup"
    /\ controller' = NewController
    /\ lastSafetyInput' = NothingSeen
    /\ lastSafetyOutput' = PowerUpOutput
    /\ relayCutApplied' = FALSE
    /\ lastSafetyMs' = 0
    /\ ForgetHistory

-----------------------------------------------------------------------------
(* Time, and one pass of loop() *)

AdvanceClock ==
    /\ phase # "setup"
    /\ elapsedMs(millis, lastSafetyMs) < MaxGap
    /\ millis' = Later(millis, 1)
    /\ UNCHANGED <<nowMs, phase, controller, lastSafetyInput, lastSafetyOutput,
                   relayCutApplied, lastSafetyMs, obstacleHeld, faultHeld>>

BeginPass ==
    /\ phase = "poll"
    /\ nowMs' = millis
    /\ phase' = "commands"
    /\ UNCHANGED <<millis, controller, lastSafetyInput, lastSafetyOutput,
                   relayCutApplied, lastSafetyMs, obstacleHeld, faultHeld>>

\* ESTOP_TEST: refused without a relay.
EstopTest(w) ==
    /\ phase = "commands"
    /\ RelayEnabled
    /\ EvaluateAndKeep(TriggerManualTest(controller), w, millis)
    /\ ApplyRelayCut(TRUE)
    /\ ForgetHistory
    /\ UNCHANGED <<millis, nowMs, phase, lastSafetyMs>>

\* Faulty variants: the reset is granted on the input of the last tick; the
\* result of the evaluation is not kept.
EstopResetGrantedOldInput(w) ==
    /\ phase = "commands"
    /\ CanReset(BuildSafetyInput(lastSafetyInput, millis))
    /\ EvaluateAndKeep(ResetController(controller), w, millis)
    /\ ApplyRelayCut(FALSE)
    /\ ForgetHistory
    /\ UNCHANGED <<millis, nowMs, phase, lastSafetyMs>>

EstopResetGrantedOutputStale(w) ==
    /\ phase = "commands"
    /\ CanReset(BuildSafetyInput(w, millis))
    /\ controller' = ResetController(controller)
    /\ lastSafetyInput' = w
    /\ ApplyRelayCut(FALSE)
    /\ ForgetHistory
    /\ UNCHANGED <<millis, nowMs, phase, lastSafetyMs, lastSafetyOutput>>

\* ESTOP_RESET when canReset() allows it: the latch opens and the same input
\* is evaluated at once.
EstopResetGranted(w) ==
    /\ phase = "commands"
    /\ CanReset(BuildSafetyInput(w, millis))
    /\ EvaluateAndKeep(ResetController(controller), w, millis)
    /\ ApplyRelayCut(FALSE)
    /\ ForgetHistory
    /\ UNCHANGED <<millis, nowMs, phase, lastSafetyMs>>

\* ESTOP_RESET otherwise: only the input has been replaced.
EstopResetRefused(w) ==
    /\ phase = "commands"
    /\ ~CanReset(BuildSafetyInput(w, millis))
    /\ lastSafetyInput' = w
    /\ UNCHANGED <<millis, nowMs, phase, controller, lastSafetyOutput,
                   relayCutApplied, lastSafetyMs, obstacleHeld, faultHeld>>

\* The periodic evaluation works with the pass's own clock value, which is
\* older than the one the handlers of the same pass have used.
SafetyTick(w) ==
    /\ phase = "commands"
    /\ intervalElapsed(nowMs, lastSafetyMs, SafetyPeriod)
    /\ lastSafetyMs' = nowMs
    /\ EvaluateAndKeep(controller, w, nowMs)
    /\ ApplyRelayCut(Evaluate(controller, BuildSafetyInput(w, nowMs)).motorCut)
    /\ IF controller.latched THEN ForgetHistory ELSE Observe(BuildSafetyInput(w, nowMs))
    /\ phase' = "telemetry"
    /\ UNCHANGED <<millis, nowMs>>

SafetyNotDue ==
    /\ phase = "commands"
    /\ ~intervalElapsed(nowMs, lastSafetyMs, SafetyPeriod)
    /\ phase' = "telemetry"
    /\ UNCHANGED <<millis, nowMs, controller, lastSafetyInput, lastSafetyOutput,
                   relayCutApplied, lastSafetyMs, obstacleHeld, faultHeld>>

\* queueTelemetry() and sendLoraTelemetry() read the state and leave it alone.
EndPass ==
    /\ phase = "telemetry"
    /\ phase' = "poll"
    /\ UNCHANGED <<millis, nowMs, controller, lastSafetyInput, lastSafetyOutput,
                   relayCutApplied, lastSafetyMs, obstacleHeld, faultHeld>>

Next ==
    \/ Setup
    \/ Restart
    \/ AdvanceClock
    \/ BeginPass
    \/ \E w \in Worlds : EstopTest(w)
    \/ \E w \in Worlds : EstopResetGranted(w)
    \/ \E w \in Worlds : EstopResetRefused(w)
    \/ \E w \in Worlds : SafetyTick(w)
    \/ SafetyNotDue
    \/ EndPass

Spec == Init /\ [][Next]_vars

\* The Arduino runtime calls loop() for ever and time passes.
Fairness ==
    /\ WF_vars(Setup)
    /\ WF_vars(AdvanceClock)
    /\ WF_vars(BeginPass)
    /\ WF_vars(SafetyNotDue)
    /\ WF_vars(\E w \in Worlds : SafetyTick(w))
    /\ WF_vars(EndPass)

FairSpec == Spec /\ Fairness

-----------------------------------------------------------------------------
(* Properties *)

\* Type invariant: the loop, the controller and the histories keep their shapes
\* (main.cpp 60-75, SafetyController.h 77-108).
TypeOK ==
    /\ millis \in Clock
    /\ nowMs \in Clock
    /\ phase \in Phases
    /\ controller \in Controllers
    /\ lastSafetyInput \in Worlds \cup {NothingSeen}
    /\ lastSafetyOutput \in SafetyOutputs
    /\ relayCutApplied \in BOOLEAN
    /\ lastSafetyMs \in Clock
    /\ obstacleHeld \in 0 .. EmergencyPersistence \cup {NoCandidate}
    /\ faultHeld \in 0 .. SensorFaultCutPersistence \cup {NoCandidate}

\* The relay pin follows the controller's decision after every tick and every
\* command, whatever order the handlers and the ticks of a pass come in.
RelayMatchesCut == relayCutApplied = (RelayEnabled /\ controller.motorCut)

\* What telemetry reports as cut_requested is the controller's decision, and
\* with a latching configuration it reports EMERGENCY_STOP exactly then: no
\* command handler leaves lastSafetyOutput describing another decision.
ReportedStopIsReal ==
    /\ lastSafetyOutput.motorCut <=> controller.motorCut
    /\ LatchMotorCut =>
          (controller.motorCut <=> lastSafetyOutput.state = "EMERGENCY_STOP")

\* A latch opens only for a stopped vehicle whose covered range is beyond the
\* warning distance, or by a reboot of MAIN: no tick, fault or test opens it.
LatchReleasedOnlyWhenVerified ==
    [][controller.latched /\ ~controller'.latched =>
          \/ phase' = "setup"
          \/ /\ lastSafetyInput'.speed <= ResetMaxSpeed
             /\ lastSafetyInput'.coverage
             /\ lastSafetyInput'.nearest > WarningDistance(lastSafetyInput'.speed)]_vars

\* The motor is cut only by the manual test or by a hazard that every tick has
\* seen for its whole persistence: a gap restarts the timer, and neither the
\* wrap of the clock nor a handler's younger clock value shortens it.
CutIsJustified ==
    [][~controller.motorCut /\ controller'.motorCut =>
          CASE controller'.cutReason = "MANUAL_TEST" -> lastSafetyMs' = lastSafetyMs
            [] controller'.cutReason = "OBSTACLE_STOP" -> obstacleHeld' = EmergencyPersistence
            [] controller'.cutReason = "SENSOR_FAULT_STOP" -> faultHeld' = SensorFaultCutPersistence
            [] OTHER -> FALSE]_vars

\* A hazard the ticks have seen for its persistence always has the motor cut:
\* no interleaving of commands, resets or faults of the other kind delays it.
PersistentHazardCuts ==
    /\ obstacleHeld = EmergencyPersistence => controller.motorCut
    /\ faultHeld = SensorFaultCutPersistence => controller.motorCut

\* A hazard that stays cuts the motor: the loop keeps ticking across the wrap
\* of the clock and nothing postpones the decision for ever.
StandingHazardCuts ==
    (<>[](ObstacleHazard(BuildSafetyInput(lastSafetyInput, nowMs))))
        => <>(controller.motorCut)

\* The inductive invariant behind them.  While the motor is free, a candidate
\* of the controller is exactly a hazard the ticks have seen without a gap, and
\* its age at the last tick is how long they have seen it.
TimerAgrees(held, since, persistence) ==
    /\ since = NoCandidate => held = NoCandidate
    /\ since # NoCandidate => held = elapsedMs(lastSafetyMs, since) /\ held < persistence

LatchConsistent ==
    /\ controller.latched => controller.motorCut
    /\ LatchMotorCut /\ controller.motorCut => controller.latched

PassIsTimely ==
    /\ elapsedMs(millis, lastSafetyMs) <= MaxGap
    /\ phase = "commands" => elapsedMs(nowMs, lastSafetyMs) <= elapsedMs(millis, lastSafetyMs)

TimersAgree ==
    ~controller.motorCut =>
        /\ TimerAgrees(obstacleHeld, controller.emergencyCandidateSinceMs, EmergencyPersistence)
        /\ TimerAgrees(faultHeld, controller.sensorFaultCandidateSinceMs, SensorFaultCutPersistence)

SetupIsFresh ==
    phase = "setup" =>
        /\ controller = NewController
        /\ lastSafetyInput = NothingSeen
        /\ ~relayCutApplied
        /\ obstacleHeld = NoCandidate
        /\ faultHeld = NoCandidate

IInv ==
    /\ TypeOK
    /\ SetupIsFresh
    /\ LatchConsistent
    /\ RelayMatchesCut
    /\ ReportedStopIsReal
    /\ PassIsTimely
    /\ TimersAgree

\* The whole loop, clock and sensors aside, is an emergency stop with verified
\* release: in every order of ticks, commands and reboots a cut begins only at a
\* tick that completes a hazard's persistence, and always there, or by ESTOP_TEST;
\* only a reset that finds the way clear, or a reboot, ends a latched one; and the
\* relay is never behind (main.cpp 700-790, SafetyController.cpp).
Clear(w) == CanReset(BuildSafetyInput(w, 0))

HazardIsDue ==
    \/ obstacleHeld = EmergencyPersistence
    \/ faultHeld = SensorFaultCutPersistence

StopInForce ==
    IF controller.latched THEN "latched" ELSE IF controller.motorCut THEN "cut" ELSE "none"

\* setup() runs before the loop; commands are handled between the start of a
\* pass and its tick.
StopMode ==
    CASE phase = "setup" -> "off"
      [] phase = "commands" -> "listening"
      [] phase \in {"poll", "telemetry"} -> "busy"

Tested == controller.latched /\ controller.cutReason = "MANUAL_TEST"

Stop == INSTANCE EmergencyStop WITH
    Latches <- LatchMotorCut, Wired <- RelayEnabled, mode <- StopMode,
    due <- HazardIsDue, clear <- Clear(lastSafetyInput), stop <- StopInForce,
    tested <- Tested, motorOff <- relayCutApplied

ImplementsEmergencyStop == Stop!Spec

\* PROTOCOL.md:129: the nearest range of a packet is null when no positive
\* range is available.  A packet can be queued by STATUS, between commands,
\* or at the end of the pass; its range is the one of the last evaluation.
NearestIsNullOrARange ==
    phase \in {"commands", "telemetry"} /\ lastSafetyInput.nearest # Unknown
        => lastSafetyOutput.nearestRange # Unknown

=============================================================================
