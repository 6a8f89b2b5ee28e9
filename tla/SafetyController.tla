--------------------------- MODULE SafetyController ---------------------------
(***************************************************************************)
(* The deterministic stop decision of MAIN                                  *)
(* (firmware/main_esp32/src/SafetyController.cpp).  The controller object   *)
(* is a record; each method is an operator from the object (and its input)  *)
(* to the object it leaves behind, so that the main loop can compose them.  *)
(*                                                                         *)
(* Units: speed cm/s, time parameters 1/100 s, distances 1/100 cm, so that  *)
(* speed * time is a distance.  Clock values and the two persistence times  *)
(* are in one unit of the clock of TimeUtils.                               *)
(***************************************************************************)
EXTENDS TimeUtils

CONSTANTS
    WarningTime, CriticalTime, EmergencyTime,
    StationaryWarning, StationaryCritical, StationaryEmergency,
    ReactionTime, BrakingDeceleration, SafetyMargin,
    EmergencyPersistence, SensorFaultCutPersistence,
    MovingSpeedFloor, ResetMaxSpeed,
    LatchMotorCut

ASSUME SafetyParametersAssumption ==
    /\ {WarningTime, CriticalTime, EmergencyTime, ReactionTime} \subseteq Nat
    /\ {StationaryWarning, StationaryCritical, StationaryEmergency} \subseteq Nat
    /\ BrakingDeceleration \in Nat \ {0}
    /\ SafetyMargin \in Nat
    /\ EmergencyPersistence \in Nat
    /\ SensorFaultCutPersistence \in Nat
    /\ MovingSpeedFloor \in Nat
    /\ ResetMaxSpeed \in Nat
    /\ LatchMotorCut \in BOOLEAN

\* The configured values are ordered (SafetyConfig.h:10-25): the nearer the
\* zone, the shorter its time and its stationary distance, and a vehicle slow
\* enough to be reset does not count as moving.
ASSUME ParametersOrdered ==
    /\ EmergencyTime <= CriticalTime /\ CriticalTime <= WarningTime
    /\ StationaryEmergency <= StationaryCritical
    /\ StationaryCritical <= StationaryWarning
    /\ ResetMaxSpeed < MovingSpeedFloor

SafetyStates == {"SAFE", "WARNING", "CRITICAL", "EMERGENCY_STOP", "SENSOR_FAULT"}

CutReasons == {"CLEAR", "OBSTACLE_STOP", "SENSOR_FAULT_STOP", "MANUAL_TEST"}

SafetyReasons == CutReasons \cup
    {"WARNING_DISTANCE", "CRITICAL_DISTANCE", "EMERGENCY_PERSISTENCE",
     "STATIONARY_OBSTACLE", "RANGE_COVERAGE_FAULT", "DIRECTION_UNKNOWN", "LATCHED"}

TravelDirections == {"FORWARD", "REVERSE", "UNKNOWN"}

Unknown == -1   \* nearestRangeM when there is no valid range

SafetyInputs ==
    [nowMs : Clock, speed : Nat, direction : TravelDirections,
     coverageSufficient : BOOLEAN, hasValidRange : BOOLEAN,
     nearestRange : Nat \cup {Unknown}]

\* A candidate is its start time, or NoCandidate while it is not active.
NoCandidate == -1

\* latchedAtMs_ is only ever reported and is left out.
Controllers ==
    [motorCut : BOOLEAN, latched : BOOLEAN, cutReason : CutReasons,
     emergencyCandidateSinceMs : Clock \cup {NoCandidate},
     sensorFaultCandidateSinceMs : Clock \cup {NoCandidate}]

SafetyOutputs ==
    [state : SafetyStates, reason : SafetyReasons, motorCut : BOOLEAN,
     nearestRange : Nat \cup {Unknown}]

NewController ==
    [motorCut |-> FALSE, latched |-> FALSE, cutReason |-> "CLEAR",
     emergencyCandidateSinceMs |-> NoCandidate,
     sensorFaultCandidateSinceMs |-> NoCandidate]

-----------------------------------------------------------------------------
(* thresholdsFor(speed) *)

Larger(a, b) == IF a > b THEN a ELSE b

BrakingDistance(speed) == (100 * speed * speed) \div (2 * BrakingDeceleration)

WarningDistance(speed) ==
    Larger(Larger(StationaryWarning, speed * WarningTime),
           speed * ReactionTime + BrakingDistance(speed) + SafetyMargin)

CriticalDistance(speed) ==
    Larger(Larger(StationaryCritical, speed * CriticalTime),
           BrakingDistance(speed) + SafetyMargin)

EmergencyDistance(speed) == Larger(StationaryEmergency, speed * EmergencyTime)

-----------------------------------------------------------------------------
(* What an input says *)

Moving(in) == in.speed >= MovingSpeedFloor

CoverageFault(in) ==
    \/ in.direction = "UNKNOWN"
    \/ ~in.coverageSufficient
    \/ ~in.hasValidRange

Within(in, distance) == in.hasValidRange /\ in.nearestRange <= distance

InsideEmergency(in) == Within(in, EmergencyDistance(in.speed))

FaultHazard(in) == CoverageFault(in) /\ Moving(in)
ObstacleHazard(in) == InsideEmergency(in) /\ Moving(in)

-----------------------------------------------------------------------------
(* The methods *)

TriggerCut(c, reason, forceLatch) ==
    [c EXCEPT !.motorCut = TRUE,
              !.latched = forceLatch \/ LatchMotorCut,
              !.cutReason = reason]

TriggerManualTest(c) == TriggerCut(c, "MANUAL_TEST", TRUE)

CanReset(in) ==
    /\ in.speed <= ResetMaxSpeed
    /\ in.coverageSufficient
    /\ in.hasValidRange
    /\ in.nearestRange > WarningDistance(in.speed)

\* The state reset() leaves when canReset() allows it.
ResetController(c) ==
    [c EXCEPT !.motorCut = FALSE, !.latched = FALSE, !.cutReason = "CLEAR",
              !.emergencyCandidateSinceMs = NoCandidate,
              !.sensorFaultCandidateSinceMs = NoCandidate]

Output(c, in, state, reason) ==
    [state |-> state, reason |-> reason, motorCut |-> c.motorCut,
     nearestRange |-> IF in.hasValidRange THEN in.nearestRange ELSE Unknown]

\* Faulty variants: a gap in the hazard does not restart the timer; the timer
\* restarts at every tick.
CandidateSinceKept(since, hazard, nowMs) ==
    IF hazard /\ since = NoCandidate THEN nowMs ELSE since
CandidateSinceRestarted(since, hazard, nowMs) ==
    IF hazard THEN nowMs ELSE NoCandidate

\* A candidate starts at the first tick of its hazard and is forgotten at the
\* first tick without it.
CandidateSince(since, hazard, nowMs) ==
    IF ~hazard THEN NoCandidate
    ELSE IF since = NoCandidate THEN nowMs ELSE since

WithFaultCandidate(c, in) ==
    [c EXCEPT !.sensorFaultCandidateSinceMs = CandidateSince(@, FaultHazard(in), in.nowMs)]

WithEmergencyCandidate(c, in) ==
    [c EXCEPT !.emergencyCandidateSinceMs = CandidateSince(@, ObstacleHazard(in), in.nowMs)]

FaultPersisted(c, in) ==
    /\ FaultHazard(in)
    /\ intervalElapsed(in.nowMs, c.sensorFaultCandidateSinceMs,
                       SensorFaultCutPersistence)

EmergencyPersisted(c, in) ==
    /\ ObstacleHazard(in)
    /\ intervalElapsed(in.nowMs, c.emergencyCandidateSinceMs, EmergencyPersistence)

\* The reported state and reason when no cut is triggered by this input.
Graded(in) ==
    CASE ObstacleHazard(in) -> <<"CRITICAL", "EMERGENCY_PERSISTENCE">>
      [] InsideEmergency(in) /\ ~Moving(in) -> <<"CRITICAL", "STATIONARY_OBSTACLE">>
      [] Within(in, CriticalDistance(in.speed)) /\ ~InsideEmergency(in) ->
            <<"CRITICAL", "CRITICAL_DISTANCE">>
      [] OTHER ->
            IF CoverageFault(in)
            THEN <<"SENSOR_FAULT", IF in.direction = "UNKNOWN"
                                   THEN "DIRECTION_UNKNOWN"
                                   ELSE "RANGE_COVERAGE_FAULT">>
            ELSE IF in.nearestRange <= WarningDistance(in.speed)
                 THEN <<"WARNING", "WARNING_DISTANCE">>
                 ELSE <<"SAFE", "CLEAR">>

\* A cut that is not latched is lifted by the first safe evaluation.
LiftUnlatchedCut(c) ==
    IF c.motorCut /\ ~c.latched
    THEN [c EXCEPT !.motorCut = FALSE, !.cutReason = "CLEAR"]
    ELSE c

\* evaluate(input): the controller afterwards.
Evaluate(c, in) ==
    LET f == WithFaultCandidate(c, in)
        e == WithEmergencyCandidate(f, in)
    IN  CASE c.motorCut /\ c.latched -> c
          [] ~(c.motorCut /\ c.latched) /\ FaultPersisted(f, in) ->
                TriggerCut(f, "SENSOR_FAULT_STOP", FALSE)
          [] ~(c.motorCut /\ c.latched) /\ ~FaultPersisted(f, in) /\ EmergencyPersisted(e, in) ->
                TriggerCut(e, "OBSTACLE_STOP", FALSE)
          [] OTHER -> IF Graded(in)[1] = "SAFE" THEN LiftUnlatchedCut(e) ELSE e

\* evaluate(input): what it returns.
EvaluateOutput(c, in) ==
    LET after == Evaluate(c, in)
        f == WithFaultCandidate(c, in)
        e == WithEmergencyCandidate(f, in)
    IN  CASE c.motorCut /\ c.latched ->
                Output(after, in, "EMERGENCY_STOP",
                       IF c.cutReason = "MANUAL_TEST" THEN "MANUAL_TEST" ELSE "LATCHED")
          [] ~(c.motorCut /\ c.latched) /\ (FaultPersisted(f, in) \/ EmergencyPersisted(e, in)) ->
                Output(after, in, "EMERGENCY_STOP", after.cutReason)
          [] OTHER -> Output(after, in, Graded(in)[1], Graded(in)[2])

=============================================================================
