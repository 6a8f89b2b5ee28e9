------------------------- MODULE MainSafetyLoopProofs -------------------------
(***************************************************************************)
(* Proofs about MainSafetyLoop for every value of its constants.            *)
(***************************************************************************)
EXTENDS MainSafetyLoop, TLAPS

USE ClockModulusAssumption

-----------------------------------------------------------------------------
(* The clock *)

\* Ages and moved clock values are clock values again (TimeUtils.h).
LEMMA ClockClosed ==
    ASSUME NEW a \in Clock, NEW b \in Clock
    PROVE  elapsedMs(a, b) \in Clock /\ Later(a, 1) \in Clock
  BY DEF Clock, elapsedMs, Later

LEMMA AgeIsNat ==
    ASSUME NEW a \in Clock, NEW b \in Clock
    PROVE  elapsedMs(a, b) \in Nat
  BY DEF Clock, elapsedMs

\* Two consecutive ages add up unless their sum reaches the wrap.
LEMMA AgesAdd ==
    ASSUME NEW a \in Clock, NEW b \in Clock, NEW c \in Clock,
           elapsedMs(b, a) + elapsedMs(c, b) < ClockModulus
    PROVE  elapsedMs(c, a) = elapsedMs(b, a) + elapsedMs(c, b)
  BY DEF Clock, elapsedMs

-----------------------------------------------------------------------------
(* The controller's methods *)

LEMMA InputType ==
    ASSUME NEW w \in Worlds \cup {NothingSeen}, NEW now \in Clock
    PROVE  BuildSafetyInput(w, now) \in SafetyInputs
<1>1. /\ w.speed \in Nat
      /\ w.coverage \in BOOLEAN
      /\ w.nearest \in Nat \cup {Unknown}
  <2>1. CASE w \in Worlds
    BY <2>1, LoopAssumption DEF Worlds
  <2>2. CASE w = NothingSeen
    BY <2>2 DEF NothingSeen
  <2> QED
    BY <2>1, <2>2
<1> QED
  BY <1>1, LoopAssumption DEF BuildSafetyInput, SafetyInputs

LEMMA GradedType ==
    ASSUME NEW in \in SafetyInputs
    PROVE  /\ Graded(in)[1] \in SafetyStates \ {"EMERGENCY_STOP"}
           /\ Graded(in)[2] \in SafetyReasons
           /\ Graded(in)[1] = "SAFE" => ~FaultHazard(in) /\ ~ObstacleHazard(in)
  BY DEF Graded, SafetyStates, SafetyReasons, CutReasons, FaultHazard

\* The candidates after an evaluation that looks at the hazards.
LEMMA CandidateType ==
    ASSUME NEW c \in Controllers, NEW in \in SafetyInputs
    PROVE  /\ WithFaultCandidate(c, in) \in Controllers
           /\ WithEmergencyCandidate(c, in) \in Controllers
  BY DEF WithFaultCandidate, WithEmergencyCandidate, CandidateSince, Controllers, SafetyInputs

LEMMA TriggerType ==
    ASSUME NEW c \in Controllers, NEW reason \in CutReasons, NEW force \in BOOLEAN
    PROVE  TriggerCut(c, reason, force) \in Controllers
  BY SafetyParametersAssumption DEF TriggerCut, Controllers

LEMMA ResetType ==
    ASSUME NEW c \in Controllers
    PROVE  /\ ResetController(c) \in Controllers
           /\ LiftUnlatchedCut(c) \in Controllers
           /\ NewController \in Controllers
  BY DEF ResetController, LiftUnlatchedCut, NewController, Controllers, CutReasons

\* evaluate() keeps its object and its result well formed.
LEMMA EvaluateType ==
    ASSUME NEW c \in Controllers, NEW in \in SafetyInputs
    PROVE  Evaluate(c, in) \in Controllers /\ EvaluateOutput(c, in) \in SafetyOutputs
<1> DEFINE f == WithFaultCandidate(c, in)
           e == WithEmergencyCandidate(f, in)
<1>1. f \in Controllers /\ e \in Controllers
  BY CandidateType
<1>2. "OBSTACLE_STOP" \in CutReasons /\ "SENSOR_FAULT_STOP" \in CutReasons
  BY DEF CutReasons
<1>3. /\ TriggerCut(f, "SENSOR_FAULT_STOP", FALSE) \in Controllers
      /\ TriggerCut(e, "OBSTACLE_STOP", FALSE) \in Controllers
      /\ LiftUnlatchedCut(e) \in Controllers
  BY <1>1, <1>2, TriggerType, ResetType
<1>4. Evaluate(c, in) \in Controllers
  BY <1>1, <1>3 DEF Evaluate
<1>5. ASSUME NEW d \in Controllers, NEW s \in SafetyStates, NEW r \in SafetyReasons
      PROVE  Output(d, in, s, r) \in SafetyOutputs
  BY DEF Output, SafetyOutputs, Controllers, SafetyInputs
<1>6. Evaluate(c, in).cutReason \in SafetyReasons
  BY <1>4 DEF Controllers, SafetyReasons
<1>7. {"EMERGENCY_STOP"} \subseteq SafetyStates /\ {"MANUAL_TEST", "LATCHED"} \subseteq SafetyReasons
  BY DEF SafetyStates, SafetyReasons, CutReasons
<1>8. EvaluateOutput(c, in) \in SafetyOutputs
  BY <1>4, <1>5, <1>6, <1>7, GradedType DEF EvaluateOutput
<1> QED
  BY <1>4, <1>8

\* A latched cut ignores its input.
LEMMA EvaluateLatched ==
    ASSUME NEW c \in Controllers, NEW in \in SafetyInputs, c.motorCut, c.latched
    PROVE  /\ Evaluate(c, in) = c
           /\ EvaluateOutput(c, in).motorCut = TRUE
           /\ EvaluateOutput(c, in).state = "EMERGENCY_STOP"
  BY DEF Evaluate, EvaluateOutput, Output

\* What an evaluation of a controller that is not latched does to the cut.
Faulted(c, in) == WithFaultCandidate(c, in)
Watched(c, in) == WithEmergencyCandidate(WithFaultCandidate(c, in), in)

LEMMA EvaluateFree ==
    ASSUME NEW c \in Controllers, NEW in \in SafetyInputs, ~(c.motorCut /\ c.latched)
    PROVE  /\ FaultPersisted(Faulted(c, in), in) =>
                 Evaluate(c, in) = TriggerCut(Faulted(c, in), "SENSOR_FAULT_STOP", FALSE)
           /\ ~FaultPersisted(Faulted(c, in), in) /\ EmergencyPersisted(Watched(c, in), in) =>
                 Evaluate(c, in) = TriggerCut(Watched(c, in), "OBSTACLE_STOP", FALSE)
           /\ ~FaultPersisted(Faulted(c, in), in) /\ ~EmergencyPersisted(Watched(c, in), in) =>
                 /\ Graded(in)[1] = "SAFE" => Evaluate(c, in) = LiftUnlatchedCut(Watched(c, in))
                 /\ Graded(in)[1] # "SAFE" => Evaluate(c, in) = Watched(c, in)
           /\ EvaluateOutput(c, in).motorCut = Evaluate(c, in).motorCut
           /\ FaultPersisted(Faulted(c, in), in) \/ EmergencyPersisted(Watched(c, in), in) =>
                 EvaluateOutput(c, in).state = "EMERGENCY_STOP"
           /\ ~FaultPersisted(Faulted(c, in), in) /\ ~EmergencyPersisted(Watched(c, in), in) =>
                 EvaluateOutput(c, in).state = Graded(in)[1]
<1>1. CASE FaultPersisted(Faulted(c, in), in)
  BY <1>1 DEF Evaluate, EvaluateOutput, Output, Faulted, Watched
<1>2. CASE ~FaultPersisted(Faulted(c, in), in) /\ EmergencyPersisted(Watched(c, in), in)
  BY <1>2 DEF Evaluate, EvaluateOutput, Output, Faulted, Watched
<1>3. CASE ~FaultPersisted(Faulted(c, in), in) /\ ~EmergencyPersisted(Watched(c, in), in)
  BY <1>3 DEF Evaluate, EvaluateOutput, Output, Faulted, Watched
<1> QED
  BY <1>1, <1>2, <1>3

\* The fields an evaluation leaves when nothing is triggered.
LEMMA CandidateFields ==
    ASSUME NEW c \in Controllers, NEW in \in SafetyInputs
    PROVE  /\ Faulted(c, in) \in Controllers
           /\ Faulted(c, in).motorCut = c.motorCut
           /\ Faulted(c, in).latched = c.latched
           /\ Faulted(c, in).sensorFaultCandidateSinceMs =
                 CandidateSince(c.sensorFaultCandidateSinceMs, FaultHazard(in), in.nowMs)
           /\ Watched(c, in) \in Controllers
           /\ Watched(c, in).motorCut = c.motorCut
           /\ Watched(c, in).latched = c.latched
           /\ Watched(c, in).sensorFaultCandidateSinceMs =
                 CandidateSince(c.sensorFaultCandidateSinceMs, FaultHazard(in), in.nowMs)
           /\ Watched(c, in).emergencyCandidateSinceMs =
                 CandidateSince(c.emergencyCandidateSinceMs, ObstacleHazard(in), in.nowMs)
<1>1. Faulted(c, in) \in Controllers /\ Watched(c, in) \in Controllers
  BY CandidateType DEF Faulted, Watched
<1> QED
  BY <1>1 DEF Faulted, Watched, WithFaultCandidate, WithEmergencyCandidate, Controllers

\* Triggering leaves the cut set, latched if the build latches it.
LEMMA TriggerFields ==
    ASSUME NEW c \in Controllers, NEW reason \in CutReasons, NEW force \in BOOLEAN
    PROVE  /\ TriggerCut(c, reason, force).motorCut = TRUE
           /\ TriggerCut(c, reason, force).latched <=> force \/ LatchMotorCut
           /\ TriggerCut(c, reason, force).cutReason = reason
  BY DEF TriggerCut, Controllers

\* An input without a hazard frees an uncut controller of both candidates.
LEMMA EvaluateHarmless ==
    ASSUME NEW c \in Controllers, NEW in \in SafetyInputs,
           ~c.motorCut, ~c.latched, ~FaultHazard(in), ~ObstacleHazard(in)
    PROVE  /\ ~Evaluate(c, in).motorCut
           /\ ~Evaluate(c, in).latched
           /\ Evaluate(c, in).emergencyCandidateSinceMs = NoCandidate
           /\ Evaluate(c, in).sensorFaultCandidateSinceMs = NoCandidate
           /\ ~EvaluateOutput(c, in).motorCut
           /\ EvaluateOutput(c, in).state # "EMERGENCY_STOP"
<1> DEFINE f == Faulted(c, in)
           e == Watched(c, in)
<1>1. /\ ~FaultPersisted(f, in)
      /\ ~EmergencyPersisted(e, in)
  BY DEF FaultPersisted, EmergencyPersisted
<1>2. /\ ~e.motorCut
      /\ ~e.latched
      /\ e.emergencyCandidateSinceMs = NoCandidate
      /\ e.sensorFaultCandidateSinceMs = NoCandidate
  BY CandidateFields DEF CandidateSince
<1>3. Evaluate(c, in) = e
  <2>1. LiftUnlatchedCut(e) = e
    BY <1>2 DEF LiftUnlatchedCut
  <2> QED
    BY <1>1, <2>1, EvaluateFree
<1>4. /\ EvaluateOutput(c, in).motorCut = Evaluate(c, in).motorCut
      /\ EvaluateOutput(c, in).state = Graded(in)[1]
  BY <1>1, EvaluateFree
<1> QED
  BY <1>2, <1>3, <1>4, GradedType

\* A vehicle slow enough to be reset is not moving and has no hazard.
LEMMA SlowIsHarmless ==
    ASSUME NEW in \in SafetyInputs, in.speed <= ResetMaxSpeed
    PROVE  ~FaultHazard(in) /\ ~ObstacleHazard(in)
  BY ParametersOrdered, SafetyParametersAssumption
  DEF FaultHazard, ObstacleHazard, Moving, SafetyInputs

-----------------------------------------------------------------------------
(* Type correctness *)

LEMMA HeldType ==
    ASSUME TypeOK, NEW bound \in Nat, NEW held \in 0 .. bound \cup {NoCandidate},
           NEW hazard \in BOOLEAN, NEW now \in Clock
    PROVE  Held(held, hazard, now, bound) \in 0 .. bound \cup {NoCandidate}
<1>1. elapsedMs(now, lastSafetyMs) \in Nat
  BY ClockClosed DEF TypeOK, Clock
<1> QED
  BY <1>1 DEF Held, Capped, NoCandidate

LEMMA KeepType ==
    ASSUME NEW c \in Controllers, NEW w \in Worlds \cup {NothingSeen}, NEW now \in Clock,
           EvaluateAndKeep(c, w, now)
    PROVE  /\ controller' \in Controllers
           /\ lastSafetyInput' \in Worlds \cup {NothingSeen}
           /\ lastSafetyOutput' \in SafetyOutputs
  BY InputType, EvaluateType DEF EvaluateAndKeep

LEMMA PeriodIsAge == SafetyPeriod \in Clock
<1>1. EmergencyPersistence \in Nat
  BY SafetyParametersAssumption
<1>2. /\ SafetyPeriod \in Nat
      /\ MaxGap \in Nat
      /\ SafetyPeriod <= MaxGap
  BY LoopAssumption
<1> QED
  BY <1>1, <1>2, ClockAssumption DEF Clock

LEMMA PowerUpType ==
    /\ NothingSeen \in Worlds \cup {NothingSeen}
    /\ 0 \in Clock
    /\ NewController \in Controllers
    /\ PowerUpOutput \in SafetyOutputs
<1>1. 0 \in Clock
  BY DEF Clock
<1>2. NewController \in Controllers
  BY <1>1, ResetType, SMT DEF NewController, Controllers, CutReasons
<1> QED
  BY <1>1, <1>2 DEF PowerUpOutput, SafetyOutputs, SafetyStates, SafetyReasons, CutReasons

LEMMA TypeInit == Init => TypeOK
  BY PowerUpType DEF Init, TypeOK, Phases

LEMMA TypeStep == TypeOK /\ [Next]_vars => TypeOK'
<1> SUFFICES ASSUME TypeOK, [Next]_vars PROVE TypeOK'
  OBVIOUS
<1> USE DEF TypeOK, Phases
<1>1. CASE Setup
  <2>1. elapsedMs(millis, SafetyPeriod) \in Clock
    BY ClockClosed, PeriodIsAge
  <2> QED
    BY <1>1, <2>1, KeepType DEF Setup
<1>2. CASE Restart
  BY <1>2, PowerUpType DEF Restart, ForgetHistory
<1>3. CASE AdvanceClock
  <2>1. Later(millis, 1) \in Clock
    BY ClockClosed
  <2> QED
    BY <1>3, <2>1 DEF AdvanceClock
<1>4. CASE BeginPass
  BY <1>4 DEF BeginPass
<1>5. ASSUME NEW w \in Worlds, EstopTest(w) PROVE TypeOK'
  <2>1. TriggerManualTest(controller) \in Controllers
    BY TriggerType DEF TriggerManualTest, CutReasons
  <2> QED
    BY <1>5, <2>1, KeepType, LoopAssumption DEF EstopTest, ApplyRelayCut, ForgetHistory
<1>6. ASSUME NEW w \in Worlds, EstopResetGranted(w) PROVE TypeOK'
  BY <1>6, ResetType, KeepType, LoopAssumption DEF EstopResetGranted, ApplyRelayCut, ForgetHistory
<1>7. ASSUME NEW w \in Worlds, EstopResetRefused(w) PROVE TypeOK'
  BY <1>7 DEF EstopResetRefused
<1>8. ASSUME NEW w \in Worlds, SafetyTick(w) PROVE TypeOK'
  <2> DEFINE in == BuildSafetyInput(w, nowMs)
  <2>1. in \in SafetyInputs /\ in.nowMs = nowMs
    BY InputType DEF BuildSafetyInput
  <2>2. ObstacleHazard(in) \in BOOLEAN /\ FaultHazard(in) \in BOOLEAN
    BY DEF ObstacleHazard, FaultHazard
  <2>3. /\ Held(obstacleHeld, ObstacleHazard(in), in.nowMs, EmergencyPersistence)
              \in 0 .. EmergencyPersistence \cup {NoCandidate}
        /\ Held(faultHeld, FaultHazard(in), in.nowMs, SensorFaultCutPersistence)
              \in 0 .. SensorFaultCutPersistence \cup {NoCandidate}
    BY <2>1, <2>2, HeldType, SafetyParametersAssumption
  <2>4. /\ obstacleHeld' \in 0 .. EmergencyPersistence \cup {NoCandidate}
        /\ faultHeld' \in 0 .. SensorFaultCutPersistence \cup {NoCandidate}
    BY <1>8, <2>3 DEF SafetyTick, Observe, ForgetHistory
  <2>5. /\ controller' \in Controllers
        /\ lastSafetyInput' \in Worlds \cup {NothingSeen}
        /\ lastSafetyOutput' \in SafetyOutputs
    BY <1>8, KeepType DEF SafetyTick
  <2>6. relayCutApplied' \in BOOLEAN
    BY <1>8, LoopAssumption DEF SafetyTick, ApplyRelayCut
  <2> QED
    BY <1>8, <2>4, <2>5, <2>6 DEF SafetyTick
<1>9. CASE SafetyNotDue
  BY <1>9 DEF SafetyNotDue
<1>10. CASE EndPass
  BY <1>10 DEF EndPass
<1>11. CASE UNCHANGED vars
  BY <1>11 DEF vars
<1> QED
  BY <1>1, <1>2, <1>3, <1>4, <1>5, <1>6, <1>7, <1>8, <1>9, <1>10, <1>11 DEF Next

\* Every variable keeps its type (main.cpp: the state of setup() and loop()).
THEOREM TypeCorrect == Spec => []TypeOK
  BY TypeInit, TypeStep, PTL DEF Spec

-----------------------------------------------------------------------------
(* The inductive invariant *)

\* One tick of one timer that does not fire: it goes on agreeing with the
\* history of its hazard.
LEMMA TimerStep ==
    ASSUME TypeOK, NEW bound \in Nat, bound + MaxGap < ClockModulus,
           NEW held \in 0 .. bound \cup {NoCandidate},
           NEW since \in Clock \cup {NoCandidate},
           TimerAgrees(held, since, bound),
           NEW hazard \in BOOLEAN, NEW now \in Clock,
           elapsedMs(now, lastSafetyMs) <= MaxGap,
           NEW since2, since2 = CandidateSince(since, hazard, now),
           NEW held2, held2 = Held(held, hazard, now, bound)
    PROVE  ~(hazard /\ elapsedMs(now, since2) >= bound) =>
                 /\ since2 = NoCandidate => held2 = NoCandidate
                 /\ since2 # NoCandidate => held2 = elapsedMs(now, since2) /\ held2 < bound
<1>1. MaxGap \in Nat /\ lastSafetyMs \in Clock
  BY LoopAssumption DEF TypeOK
<1>2. NoCandidate \notin Nat /\ NoCandidate \notin Clock
  BY DEF NoCandidate, Clock
<1>3. CASE ~hazard
  BY <1>3 DEF CandidateSince, Held
<1>4. CASE hazard /\ since = NoCandidate
  <2>1. since2 = now /\ held2 = 0
    BY <1>2, <1>4 DEF CandidateSince, Held, TimerAgrees
  <2>2. elapsedMs(now, now) = 0
    BY DEF elapsedMs, Clock
  <2>3. elapsedMs(now, since2) = 0 /\ since2 # NoCandidate
    BY <1>2, <2>1, <2>2
  <2>4. CASE bound = 0
    <3>1. elapsedMs(now, since2) >= bound /\ held2 = bound
      BY <2>1, <2>3, <2>4
    <3> QED
      BY <1>4, <3>1
  <2>5. CASE bound # 0
    <3>1. 0 < bound /\ ~(0 >= bound)
      BY <2>5
    <3> QED
      BY <2>1, <2>3, <3>1
  <2> QED
    BY <2>4, <2>5
<1>5. CASE hazard /\ since # NoCandidate
  <2>1. /\ since \in Clock /\ since2 = since
        /\ held = elapsedMs(lastSafetyMs, since) /\ held < bound
    BY <1>5 DEF TimerAgrees, CandidateSince
  <2>2. /\ elapsedMs(lastSafetyMs, since) \in Nat
        /\ elapsedMs(now, lastSafetyMs) \in Nat
    BY <1>1, <2>1, ClockClosed DEF Clock
  <2>3. elapsedMs(now, since) = held + elapsedMs(now, lastSafetyMs)
    <3>1. elapsedMs(lastSafetyMs, since) + elapsedMs(now, lastSafetyMs) < ClockModulus
      BY <1>1, <2>1, <2>2
    <3> QED
      BY <1>1, <2>1, <3>1, AgesAdd
  <2>4. held2 = Capped(elapsedMs(now, since), bound)
    BY <1>2, <1>5, <2>1, <2>2, <2>3 DEF Held
  <2>5. elapsedMs(now, since) \in Nat /\ since # NoCandidate
    BY <1>2, <2>1, <2>2, <2>3
  <2>6. CASE elapsedMs(now, since) >= bound
    <3>1. held2 = bound
      BY <2>4, <2>5, <2>6 DEF Capped
    <3> QED
      BY <1>5, <2>1, <2>6, <3>1
  <2>7. CASE ~(elapsedMs(now, since) >= bound)
    <3>1. held2 = elapsedMs(now, since) /\ held2 < bound
      BY <2>4, <2>5, <2>7 DEF Capped
    <3> QED
      BY <2>1, <2>5, <2>7, <3>1
  <2> QED
    BY <2>6, <2>7
<1> QED
  BY <1>3, <1>4, <1>5

\* A timer fires only when that history has reached the persistence.
LEMMA TimerFires ==
    ASSUME TypeOK, NEW bound \in Nat, bound + MaxGap < ClockModulus,
           NEW held \in 0 .. bound \cup {NoCandidate},
           NEW since \in Clock \cup {NoCandidate},
           TimerAgrees(held, since, bound),
           NEW now \in Clock,
           elapsedMs(now, lastSafetyMs) <= MaxGap,
           NEW since2, since2 = (IF since = NoCandidate THEN now ELSE since),
           NEW held2,
           held2 = (IF held = NoCandidate THEN 0
                    ELSE Capped(held + elapsedMs(now, lastSafetyMs), bound)),
           elapsedMs(now, since2) >= bound
    PROVE  held2 = bound
<1>1. MaxGap \in Nat /\ lastSafetyMs \in Clock
  BY LoopAssumption DEF TypeOK
<1>2. NoCandidate \notin Nat /\ NoCandidate \notin Clock
  BY DEF NoCandidate, Clock
<1>3. CASE since = NoCandidate
  <2>1. since2 = now /\ held = NoCandidate
    BY <1>3 DEF TimerAgrees
  <2>2. held2 = 0 /\ elapsedMs(now, now) = 0
    BY <2>1 DEF elapsedMs, Clock
  <2> QED
    BY <2>1, <2>2
<1>4. CASE since # NoCandidate
  <2>1. /\ since \in Clock
        /\ since2 = since
        /\ held = elapsedMs(lastSafetyMs, since) /\ held < bound
    BY <1>4 DEF TimerAgrees
  <2>2. /\ elapsedMs(lastSafetyMs, since) \in Nat
        /\ elapsedMs(now, lastSafetyMs) \in Nat
    BY <1>1, <2>1, AgeIsNat
  <2>3. elapsedMs(now, since) = held + elapsedMs(now, lastSafetyMs)
    <3>1. elapsedMs(lastSafetyMs, since) + elapsedMs(now, lastSafetyMs) < ClockModulus
      BY <1>1, <2>1, <2>2
    <3> QED
      BY <1>1, <2>1, <3>1, AgesAdd
  <2>4. held2 = Capped(elapsedMs(now, since), bound)
    BY <1>2, <2>1, <2>2, <2>3
  <2> QED
    BY <2>1, <2>2, <2>3, <2>4 DEF Capped
<1> QED
  BY <1>3, <1>4

\* An evaluation keeps the two flags of the cut consistent and reports the cut.
LEMMA EvaluateConsistent ==
    ASSUME NEW c \in Controllers, NEW in \in SafetyInputs,
           c.latched => c.motorCut,
           LatchMotorCut /\ c.motorCut => c.latched,
           NEW d, d = Evaluate(c, in), NEW out, out = EvaluateOutput(c, in)
    PROVE  /\ d.latched => d.motorCut
           /\ LatchMotorCut /\ d.motorCut => d.latched
           /\ out.motorCut = d.motorCut
           /\ LatchMotorCut => (d.motorCut <=> out.state = "EMERGENCY_STOP")
<1> DEFINE f == Faulted(c, in)
           e == Watched(c, in)
<1>1. CASE c.motorCut /\ c.latched
  BY <1>1, EvaluateLatched
<1>2. CASE ~(c.motorCut /\ c.latched)
  <2>1. /\ f \in Controllers /\ f.motorCut = c.motorCut /\ f.latched = c.latched
        /\ e \in Controllers /\ e.motorCut = c.motorCut /\ e.latched = c.latched
    BY CandidateFields
  <2>2. out.motorCut = d.motorCut
    BY <1>2, EvaluateFree
  <2>3. CASE FaultPersisted(f, in) \/ EmergencyPersisted(e, in)
    <3>1. d.motorCut /\ (d.latched <=> LatchMotorCut)
      <4>1. \/ d = TriggerCut(f, "SENSOR_FAULT_STOP", FALSE)
            \/ d = TriggerCut(e, "OBSTACLE_STOP", FALSE)
        BY <1>2, <2>3, EvaluateFree
      <4>2. "SENSOR_FAULT_STOP" \in CutReasons /\ "OBSTACLE_STOP" \in CutReasons
        BY DEF CutReasons
      <4>3. CASE d = TriggerCut(f, "SENSOR_FAULT_STOP", FALSE)
        BY <2>1, <4>2, <4>3, TriggerFields
      <4>4. CASE d = TriggerCut(e, "OBSTACLE_STOP", FALSE)
        BY <2>1, <4>2, <4>4, TriggerFields
      <4> QED
        BY <4>1, <4>3, <4>4
    <3>2. out.state = "EMERGENCY_STOP"
      BY <1>2, <2>3, EvaluateFree
    <3> QED
      BY <2>2, <3>1, <3>2
  <2>4. CASE ~FaultPersisted(f, in) /\ ~EmergencyPersisted(e, in)
    <3>1. d = e \/ d = LiftUnlatchedCut(e)
      BY <1>2, <2>4, EvaluateFree
    <3>2. /\ d.latched = c.latched
          /\ d.motorCut = c.motorCut \/ (~d.motorCut /\ ~c.latched)
      BY <2>1, <3>1 DEF LiftUnlatchedCut, Controllers
    <3>3. out.state # "EMERGENCY_STOP"
      BY <1>2, <2>4, EvaluateFree, GradedType
    <3> QED
      BY <1>2, <2>2, <3>2, <3>3
  <2> QED
    BY <2>3, <2>4
<1> QED
  BY <1>1, <1>2

\* An evaluation of a harmless input at any time, as setup() and a granted
\* ESTOP_RESET make it: nothing is cut and no timer runs.
LEMMA HarmlessKeep ==
    ASSUME NEW c \in Controllers, ~c.motorCut, ~c.latched,
           NEW w \in Worlds \cup {NothingSeen}, w.speed <= ResetMaxSpeed,
           NEW now \in Clock, EvaluateAndKeep(c, w, now)
    PROVE  /\ ~controller'.motorCut
           /\ ~controller'.latched
           /\ controller'.emergencyCandidateSinceMs = NoCandidate
           /\ controller'.sensorFaultCandidateSinceMs = NoCandidate
           /\ ~lastSafetyOutput'.motorCut
           /\ lastSafetyOutput'.state # "EMERGENCY_STOP"
<1> DEFINE in == BuildSafetyInput(w, now)
<1>1. in \in SafetyInputs /\ in.speed <= ResetMaxSpeed
  BY InputType DEF BuildSafetyInput
<1>2. ~FaultHazard(in) /\ ~ObstacleHazard(in)
  BY <1>1, SlowIsHarmless
<1>3. controller' = Evaluate(c, in) /\ lastSafetyOutput' = EvaluateOutput(c, in)
  BY DEF EvaluateAndKeep
<1> QED
  BY <1>1, <1>2, <1>3, EvaluateHarmless

LEMMA NewControllerFields ==
    /\ ~NewController.motorCut
    /\ ~NewController.latched
    /\ NewController.emergencyCandidateSinceMs = NoCandidate
    /\ NewController.sensorFaultCandidateSinceMs = NoCandidate
  BY DEF NewController

\* The output setup() starts from claims no cut.
LEMMA PowerUpHarmless ==
    /\ ~PowerUpOutput.motorCut
    /\ PowerUpOutput.state # "EMERGENCY_STOP"
  BY DEF PowerUpOutput

LEMMA PowerUpTimely == elapsedMs(0, 0) <= MaxGap
  BY LoopAssumption DEF elapsedMs

LEMMA IInvInit == Init => IInv
<1> SUFFICES ASSUME Init PROVE IInv
  OBVIOUS
<1>1. TypeOK
  BY TypeInit
<1>2. SetupIsFresh /\ LatchConsistent /\ RelayMatchesCut /\ TimersAgree
  BY NewControllerFields
  DEF Init, SetupIsFresh, LatchConsistent, RelayMatchesCut, TimersAgree, TimerAgrees
<1>3. ReportedStopIsReal
  BY NewControllerFields, PowerUpHarmless DEF Init, ReportedStopIsReal
<1>4. PassIsTimely
  BY PowerUpTimely DEF Init, PassIsTimely
<1> QED
  BY <1>1, <1>2, <1>3, <1>4 DEF IInv

\* What a reboot leaves is an initial state.
LEMMA RestartStep == Restart => IInv'
<1> SUFFICES ASSUME Restart PROVE IInv'
  OBVIOUS
<1>1. TypeOK'
  BY PowerUpType DEF Restart, ForgetHistory, TypeOK, Phases
<1>2. SetupIsFresh' /\ LatchConsistent' /\ RelayMatchesCut' /\ TimersAgree'
  BY NewControllerFields
  DEF Restart, ForgetHistory, SetupIsFresh, LatchConsistent, RelayMatchesCut, TimersAgree,
      TimerAgrees
<1>3. ReportedStopIsReal'
  BY NewControllerFields, PowerUpHarmless DEF Restart, ReportedStopIsReal
<1>4. PassIsTimely'
  BY PowerUpTimely DEF Restart, PassIsTimely
<1> QED
  BY <1>1, <1>2, <1>3, <1>4 DEF IInv

LEMMA SetupStep == IInv /\ Setup => IInv'
<1> SUFFICES ASSUME IInv, Setup PROVE IInv'
  OBVIOUS
<1>1. TypeOK /\ TypeOK'
  BY TypeStep DEF IInv, Next
<1>2. /\ ~controller'.motorCut /\ ~controller'.latched
      /\ controller'.emergencyCandidateSinceMs = NoCandidate
      /\ controller'.sensorFaultCandidateSinceMs = NoCandidate
      /\ ~lastSafetyOutput'.motorCut
      /\ lastSafetyOutput'.state # "EMERGENCY_STOP"
  <2>1. controller \in Controllers /\ ~controller.motorCut /\ ~controller.latched
    BY <1>1, NewControllerFields DEF IInv, SetupIsFresh, Setup, TypeOK
  <2>2. NothingSeen.speed <= ResetMaxSpeed
    BY SafetyParametersAssumption DEF NothingSeen
  <2> QED
    BY <1>1, <2>1, <2>2, HarmlessKeep DEF Setup, TypeOK
<1>3. SetupIsFresh' /\ LatchConsistent' /\ RelayMatchesCut' /\ TimersAgree'
  BY <1>2
  DEF IInv, Setup, SetupIsFresh, LatchConsistent, RelayMatchesCut, TimersAgree, TimerAgrees
<1>4. ReportedStopIsReal'
  BY <1>1, <1>2 DEF ReportedStopIsReal, TypeOK, Controllers, SafetyOutputs
<1>5. PassIsTimely'
  <2>1. elapsedMs(millis, elapsedMs(millis, SafetyPeriod)) = SafetyPeriod
    BY <1>1, PeriodIsAge DEF TypeOK, Clock, elapsedMs
  <2> QED
    BY <2>1, LoopAssumption DEF Setup, PassIsTimely
<1> QED
  BY <1>1, <1>3, <1>4, <1>5 DEF IInv

LEMMA ClockStep == IInv /\ AdvanceClock => IInv'
<1> SUFFICES ASSUME IInv, AdvanceClock PROVE IInv'
  OBVIOUS
<1>1. TypeOK /\ TypeOK'
  BY TypeStep DEF IInv, Next
<1>2. /\ SetupIsFresh' /\ LatchConsistent' /\ RelayMatchesCut'
      /\ ReportedStopIsReal' /\ TimersAgree'
  BY DEF IInv, AdvanceClock, SetupIsFresh, LatchConsistent, RelayMatchesCut,
         ReportedStopIsReal, TimersAgree, TimerAgrees
<1>3. PassIsTimely'
  <2>1. /\ EmergencyPersistence \in Nat
        /\ MaxGap \in Nat
        /\ MaxGap < ClockModulus
    BY LoopAssumption, SafetyParametersAssumption, ClockAssumption
  <2>2. elapsedMs(Later(millis, 1), lastSafetyMs) = elapsedMs(millis, lastSafetyMs) + 1
    BY <1>1, <2>1 DEF AdvanceClock, TypeOK, Clock, Later, elapsedMs
  <2>3. elapsedMs(millis, lastSafetyMs) \in Nat /\ elapsedMs(nowMs, lastSafetyMs) \in Nat
    BY <1>1, AgeIsNat DEF TypeOK
  <2> QED
    BY <2>1, <2>2, <2>3 DEF IInv, AdvanceClock, PassIsTimely
<1> QED
  BY <1>1, <1>2, <1>3 DEF IInv

\* The steps of a pass that touch neither controller, relay nor ticks.
LEMMA PassStep == IInv /\ (BeginPass \/ SafetyNotDue \/ EndPass \/ UNCHANGED vars) => IInv'
<1> SUFFICES ASSUME IInv, BeginPass \/ SafetyNotDue \/ EndPass \/ UNCHANGED vars PROVE IInv'
  OBVIOUS
<1>1. TypeOK /\ TypeOK'
  BY TypeStep DEF IInv, Next
<1>2. UNCHANGED <<controller, relayCutApplied, lastSafetyOutput, lastSafetyMs,
                  obstacleHeld, faultHeld, millis>>
  BY DEF BeginPass, SafetyNotDue, EndPass, vars
<1>3. /\ SetupIsFresh' /\ LatchConsistent' /\ RelayMatchesCut'
      /\ ReportedStopIsReal' /\ TimersAgree'
  BY <1>2 DEF IInv, BeginPass, SafetyNotDue, EndPass, vars, SetupIsFresh, LatchConsistent,
         RelayMatchesCut, ReportedStopIsReal, TimersAgree, TimerAgrees
<1>4. PassIsTimely'
  <2>1. elapsedMs(millis, lastSafetyMs) \in Nat
    BY <1>1, AgeIsNat DEF TypeOK
  <2> QED
    BY <1>2, <2>1 DEF IInv, BeginPass, SafetyNotDue, EndPass, vars, PassIsTimely
<1> QED
  BY <1>1, <1>3, <1>4 DEF IInv

LEMMA TestStep == ASSUME NEW w \in Worlds PROVE IInv /\ EstopTest(w) => IInv'
<1> SUFFICES ASSUME IInv, EstopTest(w) PROVE IInv'
  OBVIOUS
<1>1. TypeOK /\ TypeOK'
  BY TypeStep DEF IInv, Next
<1> DEFINE c == TriggerManualTest(controller)
<1>2. c \in Controllers /\ c.motorCut /\ c.latched
  BY <1>1, TriggerType, TriggerFields DEF TriggerManualTest, TypeOK, CutReasons
<1>3. /\ controller' = c
      /\ lastSafetyOutput'.motorCut = TRUE
      /\ lastSafetyOutput'.state = "EMERGENCY_STOP"
  BY <1>1, <1>2, InputType, EvaluateLatched DEF EstopTest, EvaluateAndKeep, TypeOK
<1>4. /\ SetupIsFresh' /\ LatchConsistent' /\ RelayMatchesCut'
      /\ ReportedStopIsReal' /\ TimersAgree'
  BY <1>2, <1>3
  DEF EstopTest, SetupIsFresh, LatchConsistent, ReportedStopIsReal, TimersAgree,
      RelayMatchesCut, ApplyRelayCut
<1>5. PassIsTimely'
  BY DEF IInv, EstopTest, PassIsTimely
<1> QED
  BY <1>1, <1>4, <1>5 DEF IInv

LEMMA GrantedStep == ASSUME NEW w \in Worlds PROVE IInv /\ EstopResetGranted(w) => IInv'
<1> SUFFICES ASSUME IInv, EstopResetGranted(w) PROVE IInv'
  OBVIOUS
<1>1. TypeOK /\ TypeOK'
  BY TypeStep DEF IInv, Next
<1> DEFINE c == ResetController(controller)
<1>2. c \in Controllers /\ ~c.motorCut /\ ~c.latched
  BY <1>1, ResetType DEF ResetController, TypeOK, Controllers
<1>3. w.speed <= ResetMaxSpeed
  BY DEF EstopResetGranted, CanReset, BuildSafetyInput
<1>4. /\ ~controller'.motorCut /\ ~controller'.latched
      /\ controller'.emergencyCandidateSinceMs = NoCandidate
      /\ controller'.sensorFaultCandidateSinceMs = NoCandidate
      /\ ~lastSafetyOutput'.motorCut
      /\ lastSafetyOutput'.state # "EMERGENCY_STOP"
  BY <1>1, <1>2, <1>3, HarmlessKeep DEF EstopResetGranted, TypeOK
<1>5. /\ SetupIsFresh' /\ LatchConsistent' /\ RelayMatchesCut'
      /\ ReportedStopIsReal' /\ TimersAgree'
  BY <1>4
  DEF EstopResetGranted, ForgetHistory, ApplyRelayCut, SetupIsFresh, LatchConsistent,
      RelayMatchesCut, ReportedStopIsReal, TimersAgree, TimerAgrees
<1>6. PassIsTimely'
  BY DEF IInv, EstopResetGranted, PassIsTimely
<1> QED
  BY <1>1, <1>5, <1>6 DEF IInv

LEMMA RefusedStep == ASSUME NEW w \in Worlds PROVE IInv /\ EstopResetRefused(w) => IInv'
<1> SUFFICES ASSUME IInv, EstopResetRefused(w) PROVE IInv'
  OBVIOUS
<1>1. TypeOK'
  BY TypeStep DEF IInv, Next
<1> QED
  BY <1>1
  DEF IInv, EstopResetRefused, SetupIsFresh, LatchConsistent, RelayMatchesCut,
      ReportedStopIsReal, PassIsTimely, TimersAgree, TimerAgrees

\* A tick, the only step at which a timer moves.
LEMMA TickStep == ASSUME NEW w \in Worlds PROVE IInv /\ SafetyTick(w) => IInv'
<1> SUFFICES ASSUME IInv, SafetyTick(w) PROVE IInv'
  OBVIOUS
<1>1. TypeOK /\ TypeOK'
  BY TypeStep DEF IInv, Next
<1> DEFINE in == BuildSafetyInput(w, nowMs)
           f == Faulted(controller, in)
           e == Watched(controller, in)
<1>2. /\ controller \in Controllers
      /\ in \in SafetyInputs
      /\ in.nowMs = nowMs
      /\ nowMs \in Clock
  BY <1>1, InputType DEF TypeOK, BuildSafetyInput
<1>3. /\ controller' = Evaluate(controller, in)
      /\ lastSafetyOutput' = EvaluateOutput(controller, in)
      /\ phase' = "telemetry"
  BY DEF SafetyTick, EvaluateAndKeep
<1>4. SetupIsFresh'
  BY <1>3 DEF SetupIsFresh
<1>5. LatchConsistent' /\ ReportedStopIsReal'
  BY <1>2, <1>3, EvaluateConsistent DEF IInv, LatchConsistent, ReportedStopIsReal
<1>6. RelayMatchesCut'
  BY <1>3 DEF SafetyTick, ApplyRelayCut, RelayMatchesCut
<1>7. PassIsTimely'
  <2>1. elapsedMs(nowMs, lastSafetyMs) <= elapsedMs(millis, lastSafetyMs)
    BY DEF IInv, PassIsTimely, SafetyTick
  <2>2. elapsedMs(millis, nowMs) <= elapsedMs(millis, lastSafetyMs)
    BY <1>1, <2>1 DEF TypeOK, Clock, elapsedMs
  <2>3. /\ elapsedMs(millis, nowMs) \in Nat
        /\ elapsedMs(millis, lastSafetyMs) \in Nat
    BY <1>1, AgeIsNat DEF TypeOK
  <2>4. elapsedMs(millis, nowMs) <= MaxGap
    BY <2>2, <2>3, LoopAssumption DEF IInv, PassIsTimely
  <2> QED
    BY <1>3, <2>4 DEF PassIsTimely, SafetyTick
<1>8. TimersAgree'
  <2>1. SUFFICES ASSUME ~controller'.motorCut PROVE TimersAgree'
    BY DEF TimersAgree
  <2>2. ~(controller.motorCut /\ controller.latched)
    BY <1>2, <1>3, <2>1, EvaluateLatched
  <2>3. ~FaultPersisted(f, in) /\ ~EmergencyPersisted(e, in)
    <3>1. SUFFICES ASSUME FaultPersisted(f, in) \/ EmergencyPersisted(e, in)
                   PROVE  controller'.motorCut
      BY <2>1
    <3>2. EvaluateOutput(controller, in).motorCut <=> controller'.motorCut
      BY <1>2, <1>3, <2>2, EvaluateFree
    <3>3. f \in Controllers /\ e \in Controllers
      BY <1>2, CandidateFields
    <3>4. \/ controller' = TriggerCut(f, "SENSOR_FAULT_STOP", FALSE)
          \/ controller' = TriggerCut(e, "OBSTACLE_STOP", FALSE)
      BY <1>2, <1>3, <2>2, <3>1, EvaluateFree
    <3>5. "SENSOR_FAULT_STOP" \in CutReasons /\ "OBSTACLE_STOP" \in CutReasons
      BY DEF CutReasons
    <3>6. CASE controller' = TriggerCut(f, "SENSOR_FAULT_STOP", FALSE)
      BY <3>3, <3>5, <3>6, TriggerFields
    <3>7. CASE controller' = TriggerCut(e, "OBSTACLE_STOP", FALSE)
      BY <3>3, <3>5, <3>7, TriggerFields
    <3> QED
      BY <3>4, <3>6, <3>7
  <2>4. /\ e \in Controllers
        /\ e.motorCut = controller.motorCut
        /\ e.sensorFaultCandidateSinceMs =
              CandidateSince(controller.sensorFaultCandidateSinceMs, FaultHazard(in), nowMs)
        /\ e.emergencyCandidateSinceMs =
              CandidateSince(controller.emergencyCandidateSinceMs, ObstacleHazard(in), nowMs)
        /\ f.sensorFaultCandidateSinceMs = e.sensorFaultCandidateSinceMs
    BY <1>2, CandidateFields
  <2>5. /\ Graded(in)[1] = "SAFE" => controller' = LiftUnlatchedCut(e)
        /\ Graded(in)[1] # "SAFE" => controller' = e
    BY <1>2, <1>3, <2>2, <2>3, EvaluateFree
  <2>6. /\ controller'.emergencyCandidateSinceMs = e.emergencyCandidateSinceMs
        /\ controller'.sensorFaultCandidateSinceMs = e.sensorFaultCandidateSinceMs
    BY <2>4, <2>5 DEF LiftUnlatchedCut, Controllers
  <2>7. ~controller.latched
    BY <2>2 DEF IInv, LatchConsistent
  <2>8. /\ lastSafetyMs' = nowMs
        /\ obstacleHeld' = Held(obstacleHeld, ObstacleHazard(in), nowMs, EmergencyPersistence)
        /\ faultHeld' = Held(faultHeld, FaultHazard(in), nowMs, SensorFaultCutPersistence)
    BY <1>2, <2>7 DEF SafetyTick, Observe
  <2>9. CASE controller.motorCut
    <3>1. Graded(in)[1] = "SAFE"
      BY <2>1, <2>4, <2>5, <2>9
    <3>2. ~ObstacleHazard(in) /\ ~FaultHazard(in)
      BY <1>2, <3>1, GradedType
    <3> QED
      BY <2>4, <2>6, <2>8, <3>2 DEF TimersAgree, TimerAgrees, CandidateSince, Held
  <2>10. CASE ~controller.motorCut
    <3>1. /\ TimerAgrees(obstacleHeld, controller.emergencyCandidateSinceMs, EmergencyPersistence)
          /\ TimerAgrees(faultHeld, controller.sensorFaultCandidateSinceMs,
                         SensorFaultCutPersistence)
      BY <2>10 DEF IInv, TimersAgree
    <3>2. elapsedMs(nowMs, lastSafetyMs) <= MaxGap
      <4>1. elapsedMs(nowMs, lastSafetyMs) \in Nat /\ elapsedMs(millis, lastSafetyMs) \in Nat
        BY <1>1, AgeIsNat DEF TypeOK
      <4> QED
        BY <4>1, LoopAssumption DEF IInv, PassIsTimely, SafetyTick
    <3>3. ObstacleHazard(in) \in BOOLEAN /\ FaultHazard(in) \in BOOLEAN
      BY DEF ObstacleHazard, FaultHazard
    <3>4. /\ controller.emergencyCandidateSinceMs \in Clock \cup {NoCandidate}
          /\ controller.sensorFaultCandidateSinceMs \in Clock \cup {NoCandidate}
          /\ obstacleHeld \in 0 .. EmergencyPersistence \cup {NoCandidate}
          /\ faultHeld \in 0 .. SensorFaultCutPersistence \cup {NoCandidate}
      BY <1>1 DEF TypeOK, Controllers
    <3>5. ~(ObstacleHazard(in) /\
            elapsedMs(nowMs, controller'.emergencyCandidateSinceMs) >= EmergencyPersistence)
      BY <1>2, <2>3, <2>6 DEF EmergencyPersisted, intervalElapsed
    <3>6. ~(FaultHazard(in) /\
            elapsedMs(nowMs, controller'.sensorFaultCandidateSinceMs)
                >= SensorFaultCutPersistence)
      BY <1>2, <2>3, <2>4, <2>6 DEF FaultPersisted, intervalElapsed
    <3>7. TimerAgrees(obstacleHeld, controller.emergencyCandidateSinceMs,
                      EmergencyPersistence)'
      <4>1. /\ EmergencyPersistence \in Nat
            /\ EmergencyPersistence + MaxGap < ClockModulus
        BY SafetyParametersAssumption, ClockAssumption
      <4>2. /\ controller'.emergencyCandidateSinceMs = NoCandidate => obstacleHeld' = NoCandidate
            /\ controller'.emergencyCandidateSinceMs # NoCandidate =>
                  /\ obstacleHeld' = elapsedMs(nowMs, controller'.emergencyCandidateSinceMs)
                  /\ obstacleHeld' < EmergencyPersistence
        BY <1>1, <1>2, <2>4, <2>6, <2>8, <3>1, <3>2, <3>3, <3>4, <3>5, <4>1, TimerStep
      <4> QED
        BY <2>8, <4>2 DEF TimerAgrees
    <3>8. TimerAgrees(faultHeld, controller.sensorFaultCandidateSinceMs,
                      SensorFaultCutPersistence)'
      <4>1. /\ SensorFaultCutPersistence \in Nat
            /\ SensorFaultCutPersistence + MaxGap < ClockModulus
        BY SafetyParametersAssumption, ClockAssumption
      <4>2. /\ controller'.sensorFaultCandidateSinceMs = NoCandidate => faultHeld' = NoCandidate
            /\ controller'.sensorFaultCandidateSinceMs # NoCandidate =>
                  /\ faultHeld' = elapsedMs(nowMs, controller'.sensorFaultCandidateSinceMs)
                  /\ faultHeld' < SensorFaultCutPersistence
        BY <1>1, <1>2, <2>4, <2>6, <2>8, <3>1, <3>2, <3>3, <3>4, <3>6, <4>1, TimerStep
      <4> QED
        BY <2>8, <4>2 DEF TimerAgrees
    <3> QED
      BY <3>7, <3>8 DEF TimersAgree
  <2> QED
    BY <2>9, <2>10
<1> QED
  BY <1>1, <1>4, <1>5, <1>6, <1>7, <1>8 DEF IInv

\* IInv is inductive.
LEMMA IInvStep == IInv /\ [Next]_vars => IInv'
  BY SetupStep, RestartStep, ClockStep, PassStep, TestStep, GrantedStep, RefusedStep, TickStep
  DEF Next

\* The controller, the relay, the report and the timers agree in every
\* reachable state (main.cpp, SafetyController.cpp).
THEOREM InductiveInvariant == Spec => []IInv
  BY IInvInit, IInvStep, PTL DEF Spec

\* The relay pin follows the controller's decision (applyRelayCut).
THEOREM RelayFollowsController == Spec => []RelayMatchesCut
<1>1. IInv => RelayMatchesCut
  BY DEF IInv
<1> QED
  BY <1>1, InductiveInvariant, PTL

\* Telemetry reports a stop exactly when the controller has one.
THEOREM ReportIsReal == Spec => []ReportedStopIsReal
<1>1. IInv => ReportedStopIsReal
  BY DEF IInv
<1> QED
  BY <1>1, InductiveInvariant, PTL

\* A hazard seen for its persistence has the motor cut.
THEOREM PersistentHazardIsCut == Spec => []PersistentHazardCuts
<1>1. IInv => PersistentHazardCuts
  BY SafetyParametersAssumption
  DEF IInv, TypeOK, TimersAgree, TimerAgrees, PersistentHazardCuts, NoCandidate
<1> QED
  BY <1>1, InductiveInvariant, PTL

-----------------------------------------------------------------------------
(* Action properties *)

\* A tick that cuts a free motor has seen the hazard for its persistence.
LEMMA TickCuts ==
    ASSUME IInv, NEW w \in Worlds, SafetyTick(w), ~controller.motorCut, controller'.motorCut
    PROVE  \/ /\ controller'.cutReason = "OBSTACLE_STOP"
              /\ obstacleHeld' = EmergencyPersistence
           \/ /\ controller'.cutReason = "SENSOR_FAULT_STOP"
              /\ faultHeld' = SensorFaultCutPersistence
<1> DEFINE in == BuildSafetyInput(w, nowMs)
           f == Faulted(controller, in)
           e == Watched(controller, in)
<1>1. /\ TypeOK
      /\ controller \in Controllers
      /\ in \in SafetyInputs
      /\ in.nowMs = nowMs
      /\ nowMs \in Clock
  BY InputType DEF IInv, TypeOK, BuildSafetyInput
<1>2. controller' = Evaluate(controller, in)
  BY DEF SafetyTick, EvaluateAndKeep
<1>3. /\ f \in Controllers /\ e \in Controllers
      /\ f.sensorFaultCandidateSinceMs =
            CandidateSince(controller.sensorFaultCandidateSinceMs, FaultHazard(in), nowMs)
      /\ e.emergencyCandidateSinceMs =
            CandidateSince(controller.emergencyCandidateSinceMs, ObstacleHazard(in), nowMs)
      /\ e.motorCut = FALSE
  BY <1>1, CandidateFields DEF Controllers
<1>4. "SENSOR_FAULT_STOP" \in CutReasons /\ "OBSTACLE_STOP" \in CutReasons
  BY DEF CutReasons
<1>5. ~controller.latched
  BY DEF IInv, LatchConsistent
<1>6. /\ obstacleHeld' = Held(obstacleHeld, ObstacleHazard(in), nowMs, EmergencyPersistence)
      /\ faultHeld' = Held(faultHeld, FaultHazard(in), nowMs, SensorFaultCutPersistence)
  BY <1>1, <1>5 DEF SafetyTick, Observe
<1>7. /\ TimerAgrees(obstacleHeld, controller.emergencyCandidateSinceMs, EmergencyPersistence)
      /\ TimerAgrees(faultHeld, controller.sensorFaultCandidateSinceMs, SensorFaultCutPersistence)
      /\ ObstacleHazard(in) \in BOOLEAN
      /\ FaultHazard(in) \in BOOLEAN
      /\ controller.emergencyCandidateSinceMs \in Clock \cup {NoCandidate}
      /\ controller.sensorFaultCandidateSinceMs \in Clock \cup {NoCandidate}
      /\ obstacleHeld \in 0 .. EmergencyPersistence \cup {NoCandidate}
      /\ faultHeld \in 0 .. SensorFaultCutPersistence \cup {NoCandidate}
  BY <1>1 DEF IInv, TimersAgree, TypeOK, Controllers, ObstacleHazard, FaultHazard
<1>8. elapsedMs(nowMs, lastSafetyMs) <= MaxGap
  <2>1. elapsedMs(nowMs, lastSafetyMs) \in Nat /\ elapsedMs(millis, lastSafetyMs) \in Nat
    BY <1>1, AgeIsNat DEF TypeOK
  <2> QED
    BY <2>1, LoopAssumption DEF IInv, PassIsTimely, SafetyTick
<1>9. CASE FaultPersisted(f, in)
  <2>1. controller' = TriggerCut(f, "SENSOR_FAULT_STOP", FALSE)
    BY <1>1, <1>2, <1>9, EvaluateFree
  <2>2. controller'.cutReason = "SENSOR_FAULT_STOP"
    BY <1>3, <1>4, <2>1, TriggerFields
  <2>3. /\ FaultHazard(in)
        /\ elapsedMs(nowMs, f.sensorFaultCandidateSinceMs) >= SensorFaultCutPersistence
    BY <1>1, <1>9 DEF FaultPersisted, intervalElapsed
  <2>4. /\ SensorFaultCutPersistence \in Nat
        /\ SensorFaultCutPersistence + MaxGap < ClockModulus
    BY SafetyParametersAssumption, ClockAssumption
  <2>5. f.sensorFaultCandidateSinceMs
          = IF controller.sensorFaultCandidateSinceMs = NoCandidate THEN nowMs
            ELSE controller.sensorFaultCandidateSinceMs
    BY <1>3, <2>3 DEF CandidateSince
  <2>6. faultHeld'
          = IF faultHeld = NoCandidate THEN 0
            ELSE Capped(faultHeld + elapsedMs(nowMs, lastSafetyMs), SensorFaultCutPersistence)
    BY <1>6, <2>3 DEF Held
  <2>8. faultHeld' = SensorFaultCutPersistence
    BY <1>1, <1>7, <1>8, <2>3, <2>4, <2>5, <2>6, TimerFires
  <2> QED
    BY <2>2, <2>8
<1>10. CASE ~FaultPersisted(f, in) /\ EmergencyPersisted(e, in)
  <2>1. controller' = TriggerCut(e, "OBSTACLE_STOP", FALSE)
    BY <1>1, <1>2, <1>10, EvaluateFree
  <2>2. controller'.cutReason = "OBSTACLE_STOP"
    BY <1>3, <1>4, <2>1, TriggerFields
  <2>3. /\ ObstacleHazard(in)
        /\ elapsedMs(nowMs, e.emergencyCandidateSinceMs) >= EmergencyPersistence
    BY <1>1, <1>10 DEF EmergencyPersisted, intervalElapsed
  <2>4. /\ EmergencyPersistence \in Nat
        /\ EmergencyPersistence + MaxGap < ClockModulus
    BY SafetyParametersAssumption, ClockAssumption
  <2>5. e.emergencyCandidateSinceMs
          = IF controller.emergencyCandidateSinceMs = NoCandidate THEN nowMs
            ELSE controller.emergencyCandidateSinceMs
    BY <1>3, <2>3 DEF CandidateSince
  <2>6. obstacleHeld'
          = IF obstacleHeld = NoCandidate THEN 0
            ELSE Capped(obstacleHeld + elapsedMs(nowMs, lastSafetyMs), EmergencyPersistence)
    BY <1>6, <2>3 DEF Held
  <2>8. obstacleHeld' = EmergencyPersistence
    BY <1>1, <1>7, <1>8, <2>3, <2>4, <2>5, <2>6, TimerFires
  <2> QED
    BY <2>2, <2>8
<1>11. CASE ~FaultPersisted(f, in) /\ ~EmergencyPersisted(e, in)
  <2>1. controller' = e \/ controller' = LiftUnlatchedCut(e)
    BY <1>1, <1>2, <1>11, EvaluateFree
  <2> QED
    BY <1>3, <2>1 DEF LiftUnlatchedCut
<1> QED
  BY <1>9, <1>10, <1>11

\* The motor is cut only by the test or by a hazard that has persisted.
THEOREM CutsAreJustified == Spec => CutIsJustified
<1> DEFINE Justified ==
        ~controller.motorCut /\ controller'.motorCut =>
          CASE controller'.cutReason = "MANUAL_TEST" -> lastSafetyMs' = lastSafetyMs
            [] controller'.cutReason = "OBSTACLE_STOP" -> obstacleHeld' = EmergencyPersistence
            [] controller'.cutReason = "SENSOR_FAULT_STOP" -> faultHeld' = SensorFaultCutPersistence
            [] OTHER -> FALSE
<1>1. ASSUME IInv, [Next]_vars PROVE [Justified]_vars
  <2> SUFFICES ASSUME ~controller.motorCut, controller'.motorCut, Next PROVE Justified
    BY <1>1 DEF vars
  <2> USE <1>1
  <2>1. CASE Setup
    <3>1. controller \in Controllers /\ ~controller.motorCut /\ ~controller.latched
      BY <2>1, NewControllerFields DEF IInv, SetupIsFresh, Setup, TypeOK
    <3>2. NothingSeen.speed <= ResetMaxSpeed
      BY SafetyParametersAssumption DEF NothingSeen
    <3> QED
      BY <2>1, <3>1, <3>2, HarmlessKeep DEF Setup, IInv, TypeOK
  <2>2. CASE Restart
    BY <2>2, NewControllerFields DEF Restart
  <2>3. CASE AdvanceClock \/ BeginPass \/ SafetyNotDue \/ EndPass
    BY <2>3 DEF AdvanceClock, BeginPass, SafetyNotDue, EndPass
  <2>4. ASSUME NEW w \in Worlds, EstopTest(w) PROVE Justified
    <3> DEFINE c == TriggerManualTest(controller)
    <3>1. c \in Controllers /\ c.motorCut /\ c.latched /\ c.cutReason = "MANUAL_TEST"
      BY TriggerType, TriggerFields DEF TriggerManualTest, IInv, TypeOK, CutReasons
    <3>2. controller' = c /\ lastSafetyMs' = lastSafetyMs
      BY <2>4, <3>1, InputType, EvaluateLatched
      DEF EstopTest, EvaluateAndKeep, IInv, TypeOK
    <3> QED
      BY <3>1, <3>2
  <2>5. ASSUME NEW w \in Worlds, EstopResetGranted(w) PROVE Justified
    <3> DEFINE c == ResetController(controller)
    <3>1. c \in Controllers /\ ~c.motorCut /\ ~c.latched
      BY ResetType DEF ResetController, IInv, TypeOK, Controllers
    <3>2. w.speed <= ResetMaxSpeed
      BY <2>5 DEF EstopResetGranted, CanReset, BuildSafetyInput
    <3> QED
      BY <2>5, <3>1, <3>2, HarmlessKeep DEF EstopResetGranted, IInv, TypeOK
  <2>6. ASSUME NEW w \in Worlds, EstopResetRefused(w) PROVE Justified
    BY <2>6 DEF EstopResetRefused
  <2>7. ASSUME NEW w \in Worlds, SafetyTick(w) PROVE Justified
    BY <2>7, TickCuts
  <2> QED
    BY <2>1, <2>2, <2>3, <2>4, <2>5, <2>6, <2>7 DEF Next
<1> QED
  BY <1>1, InductiveInvariant, PTL DEF Spec, CutIsJustified

\* A latched cut is opened only by a verified ESTOP_RESET or by a reboot.
THEOREM LatchIsReleasedVerified == Spec => LatchReleasedOnlyWhenVerified
<1> DEFINE Verified ==
        controller.latched /\ ~controller'.latched =>
          \/ phase' = "setup"
          \/ /\ lastSafetyInput'.speed <= ResetMaxSpeed
             /\ lastSafetyInput'.coverage
             /\ lastSafetyInput'.nearest > WarningDistance(lastSafetyInput'.speed)
<1>1. ASSUME IInv, [Next]_vars PROVE [Verified]_vars
  <2> SUFFICES ASSUME controller.latched, ~controller'.latched, Next PROVE Verified
    BY <1>1 DEF vars
  <2> USE <1>1
  <2>0. controller \in Controllers /\ controller.motorCut
    BY DEF IInv, TypeOK, LatchConsistent
  <2>1. CASE Setup
    BY <2>1, NewControllerFields DEF IInv, SetupIsFresh, Setup
  <2>2. CASE Restart
    BY <2>2 DEF Restart
  <2>3. CASE AdvanceClock \/ BeginPass \/ SafetyNotDue \/ EndPass
    BY <2>3 DEF AdvanceClock, BeginPass, SafetyNotDue, EndPass
  <2>4. ASSUME NEW w \in Worlds, EstopTest(w) PROVE Verified
    <3> DEFINE c == TriggerManualTest(controller)
    <3>1. c \in Controllers /\ c.motorCut /\ c.latched
      BY <2>0, TriggerType, TriggerFields DEF TriggerManualTest, CutReasons
    <3>2. controller' = c
      BY <2>4, <3>1, InputType, EvaluateLatched
      DEF EstopTest, EvaluateAndKeep, IInv, TypeOK
    <3> QED
      BY <3>1, <3>2
  <2>5. ASSUME NEW w \in Worlds, EstopResetGranted(w) PROVE Verified
    BY <2>5 DEF EstopResetGranted, CanReset, BuildSafetyInput, EvaluateAndKeep
  <2>6. ASSUME NEW w \in Worlds, EstopResetRefused(w) PROVE Verified
    BY <2>6 DEF EstopResetRefused
  <2>7. ASSUME NEW w \in Worlds, SafetyTick(w) PROVE Verified
    BY <2>0, <2>7, InputType, EvaluateLatched DEF SafetyTick, EvaluateAndKeep, IInv, TypeOK
  <2> QED
    BY <2>1, <2>2, <2>3, <2>4, <2>5, <2>6, <2>7 DEF Next
<1> QED
  BY <1>1, InductiveInvariant, PTL DEF Spec, LatchReleasedOnlyWhenVerified

-----------------------------------------------------------------------------
(* The loop implements EmergencyStop *)

\* An evaluation latches a cut only if the build latches the cuts of a hazard.
LEMMA EvaluateLatches ==
    ASSUME NEW c \in Controllers, NEW in \in SafetyInputs, ~c.latched, Evaluate(c, in).latched
    PROVE  LatchMotorCut
<1> DEFINE f == Faulted(c, in)
           e == Watched(c, in)
<1>1. /\ f \in Controllers /\ e \in Controllers
      /\ ~f.latched /\ ~e.latched
  BY CandidateFields
<1>2. ~LiftUnlatchedCut(e).latched
  BY <1>1 DEF LiftUnlatchedCut
<1>3. /\ TriggerCut(f, "SENSOR_FAULT_STOP", FALSE).latched => LatchMotorCut
      /\ TriggerCut(e, "OBSTACLE_STOP", FALSE).latched => LatchMotorCut
  BY <1>1, TriggerFields DEF CutReasons
<1>4. Evaluate(c, in) \in {TriggerCut(f, "SENSOR_FAULT_STOP", FALSE),
                          TriggerCut(e, "OBSTACLE_STOP", FALSE), LiftUnlatchedCut(e), e}
  BY EvaluateFree
<1> HIDE DEF f, e
<1> QED
  BY <1>1, <1>2, <1>3, <1>4

\* The evaluation in setup() cuts nothing.
LEMMA SetupIsHarmless ==
    ASSUME IInv, Setup
    PROVE  /\ ~controller.motorCut /\ ~controller.latched
           /\ ~controller'.motorCut /\ ~controller'.latched
<1>1. controller \in Controllers /\ ~controller.motorCut /\ ~controller.latched
  BY NewControllerFields DEF IInv, SetupIsFresh, Setup, TypeOK
<1>2. NothingSeen.speed <= ResetMaxSpeed
  BY SafetyParametersAssumption DEF NothingSeen
<1> QED
  BY <1>1, <1>2, HarmlessKeep DEF Setup, IInv, TypeOK

\* ESTOP_TEST latches whatever the sensors show.
LEMMA TestLatches ==
    ASSUME IInv, NEW w \in Worlds, EstopTest(w)
    PROVE  controller'.latched /\ controller'.cutReason = "MANUAL_TEST"
<1> DEFINE c == TriggerManualTest(controller)
<1>1. c \in Controllers /\ c.motorCut /\ c.latched /\ c.cutReason = "MANUAL_TEST"
  BY TriggerType, TriggerFields DEF TriggerManualTest, IInv, TypeOK, CutReasons
<1>2. controller' = c
  BY <1>1, InputType, EvaluateLatched DEF EstopTest, EvaluateAndKeep, IInv, TypeOK
<1> QED
  BY <1>1, <1>2

\* The evaluation that follows a granted reset cuts nothing.
LEMMA GrantedIsFree ==
    ASSUME IInv, NEW w \in Worlds, EstopResetGranted(w)
    PROVE  ~controller'.motorCut /\ ~controller'.latched
<1> DEFINE c == ResetController(controller)
<1>1. c \in Controllers /\ ~c.motorCut /\ ~c.latched
  BY ResetType DEF ResetController, IInv, TypeOK, Controllers
<1>2. w.speed <= ResetMaxSpeed
  BY DEF EstopResetGranted, CanReset, BuildSafetyInput
<1> QED
  BY <1>1, <1>2, HarmlessKeep DEF EstopResetGranted, IInv, TypeOK

\* What allows a release has no hazard.
LEMMA ClearIsHarmless ==
    ASSUME NEW w \in Worlds \cup {NothingSeen}, NEW now \in Clock, Clear(w)
    PROVE  /\ ~FaultHazard(BuildSafetyInput(w, now))
           /\ ~ObstacleHazard(BuildSafetyInput(w, now))
<1>1. BuildSafetyInput(w, now) \in SafetyInputs
  BY InputType
<1>2. BuildSafetyInput(w, now).speed <= ResetMaxSpeed
  BY DEF Clear, CanReset, BuildSafetyInput
<1> QED
  BY <1>1, <1>2, SlowIsHarmless

LEMMA ClearIsNow ==
    ASSUME NEW w, NEW now
    PROVE  Clear(w) <=> CanReset(BuildSafetyInput(w, now))
  BY DEF Clear, CanReset, BuildSafetyInput

\* No hazard is due whose history starts afresh.
LEMMA NothingIsDue == ForgetHistory => HazardIsDue' = FALSE
  BY SafetyParametersAssumption DEF HazardIsDue, ForgetHistory, NoCandidate

\* The relay shows what is in force.
RelayShows ==
    /\ StopInForce \in {"none", "cut", "latched"}
    /\ StopInForce # "none" <=> controller.motorCut
    /\ StopInForce = "latched" <=> controller.latched
    /\ relayCutApplied = (RelayEnabled /\ StopInForce # "none")
    /\ StopInForce = "cut" => ~LatchMotorCut

LEMMA RelayShowsStop == IInv => RelayShows
<1> SUFFICES ASSUME IInv PROVE RelayShows
  OBVIOUS
<1>1. /\ StopInForce \in {"none", "cut", "latched"}
      /\ StopInForce # "none" <=> controller.motorCut
      /\ StopInForce = "latched" <=> controller.latched
      /\ StopInForce = "cut" => ~LatchMotorCut
  BY DEF StopInForce, IInv, LatchConsistent
<1>2. relayCutApplied = (RelayEnabled /\ StopInForce # "none")
  BY <1>1 DEF IInv, RelayMatchesCut
<1> QED
  BY <1>1, <1>2 DEF RelayShows

LEMMA RelayStillShowsStop == IInv' => RelayShows'
  BY RelayShowsStop, PTL

\* The steps that neither look nor change the cut.
LEMMA CutStays ==
    ASSUME UNCHANGED <<controller, lastSafetyInput, relayCutApplied, obstacleHeld, faultHeld>>
    PROVE  /\ HazardIsDue' = HazardIsDue
           /\ Clear(lastSafetyInput)' = Clear(lastSafetyInput)
           /\ StopInForce' = StopInForce
           /\ Tested' = Tested
           /\ relayCutApplied' = relayCutApplied
  BY DEF HazardIsDue, StopInForce, Clear, Tested

\* setup() is without the stop, the commands of a pass are what it listens to.
LEMMA ModeOfPhase ==
    /\ phase = "setup" => StopMode = "off"
    /\ phase = "commands" => StopMode = "listening"
    /\ phase \in {"poll", "telemetry"} => StopMode = "busy"
  BY DEF StopMode

LEMMA ModeOfNextPhase ==
    /\ phase' = "setup" => StopMode' = "off"
    /\ phase' = "commands" => StopMode' = "listening"
    /\ phase' \in {"poll", "telemetry"} => StopMode' = "busy"
  BY DEF StopMode

\* A tick that takes a hazard for due has the motor cut; one that does not leaves a free
\* motor free.
LEMMA TickSettles ==
    ASSUME IInv, IInv', NEW w \in Worlds, SafetyTick(w)
    PROVE  /\ HazardIsDue' => StopInForce' # "none"
           /\ StopInForce = "none" /\ ~HazardIsDue' => StopInForce' = "none"
           /\ StopInForce = "latched" => StopInForce' = "latched"
           /\ StopInForce # "latched" => StopInForce' # "latched" \/ LatchMotorCut
           /\ ~(HazardIsDue' /\ Clear(w))
           /\ StopInForce = "latched" => HazardIsDue' = FALSE /\ Tested' = Tested
           /\ StopInForce # "latched" => Tested' = FALSE
<1> DEFINE in == BuildSafetyInput(w, nowMs)
<1>1. /\ controller \in Controllers /\ in \in SafetyInputs /\ in.nowMs = nowMs
      /\ nowMs \in Clock
  BY InputType DEF IInv, TypeOK, BuildSafetyInput
<1>2. controller' = Evaluate(controller, in)
  BY DEF SafetyTick, EvaluateAndKeep
<1>3. /\ StopInForce # "none" <=> controller.motorCut
      /\ StopInForce = "latched" <=> controller.latched
      /\ controller.latched => controller.motorCut
  BY RelayShowsStop DEF RelayShows, IInv, LatchConsistent
<1>4. /\ StopInForce' # "none" <=> controller'.motorCut
      /\ StopInForce' = "latched" <=> controller'.latched
  BY RelayStillShowsStop DEF RelayShows
<1>5. HazardIsDue' => controller'.motorCut
  BY SafetyParametersAssumption
  DEF IInv, TypeOK, TimersAgree, TimerAgrees, HazardIsDue, NoCandidate
<1>6. ASSUME ~controller.motorCut, controller'.motorCut
      PROVE  HazardIsDue'
  BY <1>6, TickCuts DEF HazardIsDue
<1>7. controller.latched => controller'.latched
  BY <1>1, <1>2, <1>3, EvaluateLatched
<1>8. ASSUME ~controller.latched, controller'.latched
      PROVE  LatchMotorCut
  BY <1>1, <1>2, <1>8, EvaluateLatches
<1>9. ASSUME HazardIsDue', Clear(w)
      PROVE  FALSE
  <2>1. ~FaultHazard(in) /\ ~ObstacleHazard(in)
    BY <1>1, <1>9, ClearIsHarmless
  <2>2. obstacleHeld' = NoCandidate /\ faultHeld' = NoCandidate
    BY <1>1, <2>1 DEF SafetyTick, ForgetHistory, Observe, Held
  <2> QED
    BY <1>9, <2>2, SafetyParametersAssumption DEF HazardIsDue, NoCandidate
<1>10. ASSUME controller.latched
       PROVE  HazardIsDue' = FALSE /\ Tested' = Tested
  <2>1. HazardIsDue' = FALSE
    BY <1>10, NothingIsDue DEF SafetyTick
  <2>2. controller' = controller
    BY <1>1, <1>2, <1>3, <1>10, EvaluateLatched
  <2> QED
    BY <2>1, <2>2 DEF Tested
<1>11. ASSUME ~controller.latched
       PROVE  Tested' = FALSE
  <2> SUFFICES ASSUME controller'.latched PROVE controller'.cutReason # "MANUAL_TEST"
    BY DEF Tested
  <2>1. LatchMotorCut
    BY <1>8, <1>11
  <2>2. ~controller.motorCut /\ controller'.motorCut
    BY <1>4, <1>11, <2>1, RelayStillShowsStop, RelayShowsStop DEF IInv, LatchConsistent
  <2> QED
    BY <2>2, TickCuts
<1> QED
  BY <1>3, <1>4, <1>5, <1>6, <1>7, <1>8, <1>9, <1>10, <1>11

LEMMA StepIsStop == IInv /\ IInv' /\ [Next]_vars => [Stop!Next]_Stop!vars
<1> SUFFICES ASSUME IInv, IInv', [Next]_vars PROVE [Stop!Next]_Stop!vars
  OBVIOUS
<1>1. /\ StopInForce \in {"none", "cut", "latched"}
      /\ relayCutApplied = (RelayEnabled /\ StopInForce # "none")
      /\ StopInForce = "cut" => ~LatchMotorCut
  BY RelayShowsStop DEF RelayShows
<1>2. /\ StopInForce' \in {"none", "cut", "latched"}
      /\ relayCutApplied' = (RelayEnabled /\ StopInForce' # "none")
      /\ StopInForce' = "cut" => ~LatchMotorCut
  BY RelayStillShowsStop DEF RelayShows
<1>3. Clear(lastSafetyInput)' \in BOOLEAN /\ HazardIsDue' \in BOOLEAN
  BY DEF Clear, CanReset, HazardIsDue
<1>4. CASE Setup
  <2>1. /\ StopInForce = "none" /\ StopInForce' = "none"
        /\ Tested = FALSE /\ Tested' = FALSE
    BY <1>4, SetupIsHarmless DEF StopInForce, Tested
  <2>2. /\ HazardIsDue = FALSE /\ HazardIsDue' = FALSE
        /\ relayCutApplied' = relayCutApplied
    BY <1>4, SafetyParametersAssumption
    DEF IInv, SetupIsFresh, Setup, HazardIsDue, NoCandidate
  <2>3. lastSafetyInput = NothingSeen /\ lastSafetyInput' = NothingSeen
    BY <1>4 DEF IInv, SetupIsFresh, Setup, EvaluateAndKeep
  <2>4. Clear(lastSafetyInput)' = Clear(lastSafetyInput)
    BY <2>3 DEF Clear
  <2>5. StopMode = "off" /\ StopMode' = "busy"
    BY <1>4, ModeOfPhase, ModeOfNextPhase DEF Setup
  <2> QED
    BY <2>1, <2>2, <2>4, <2>5 DEF Stop!Next, Stop!PowerUp
<1>5. CASE Restart
  <2>1. /\ StopInForce' = "none" /\ Clear(lastSafetyInput)' = FALSE
        /\ Tested' = FALSE
    BY <1>5 DEF Restart, NewController, StopInForce, Tested, Clear, CanReset,
                BuildSafetyInput, NothingSeen
  <2>2. HazardIsDue' = FALSE
    BY <1>5, NothingIsDue DEF Restart
  <2>3. StopMode' = "off"
    BY <1>5, ModeOfNextPhase DEF Restart
  <2> QED
    BY <1>2, <2>1, <2>2, <2>3 DEF Stop!Next, Stop!PowerCycle, Stop!Settle
<1>6. ASSUME NEW w \in Worlds, EstopTest(w)
      PROVE  Stop!Test
  <2>1. controller'.latched /\ controller'.cutReason = "MANUAL_TEST"
    BY <1>6, TestLatches
  <2>2. HazardIsDue' = FALSE
    BY <1>6, NothingIsDue DEF EstopTest
  <2>3. StopMode = "listening" /\ StopMode' = "listening" /\ RelayEnabled
    BY <1>6, ModeOfPhase, ModeOfNextPhase DEF EstopTest
  <2>4. StopInForce' = "latched" /\ Tested' = TRUE
    BY <2>1 DEF StopInForce, Tested
  <2> QED
    BY <1>2, <1>3, <2>2, <2>3, <2>4 DEF Stop!Test, Stop!Settle
<1>7. ASSUME NEW w \in Worlds, EstopResetGranted(w)
      PROVE  Stop!Release
  <2>1. StopInForce' = "none" /\ Tested' = FALSE
    BY <1>7, GrantedIsFree DEF StopInForce, Tested
  <2>2. HazardIsDue' = FALSE
    BY <1>7, NothingIsDue DEF EstopResetGranted
  <2>3. Clear(lastSafetyInput)' = TRUE
    BY <1>3, <1>7, ClearIsNow DEF EstopResetGranted, EvaluateAndKeep
  <2>4. StopMode = "listening" /\ StopMode' = "listening"
    BY <1>7, ModeOfPhase, ModeOfNextPhase DEF EstopResetGranted
  <2> QED
    BY <1>2, <2>1, <2>2, <2>3, <2>4 DEF Stop!Release, Stop!Settle
<1>8. ASSUME NEW w \in Worlds, EstopResetRefused(w)
      PROVE  Stop!Refuse
  <2>1. Clear(lastSafetyInput)' = FALSE
    BY <1>3, <1>8, ClearIsNow DEF EstopResetRefused
  <2>2. StopMode = "listening" /\ StopMode' = "listening"
    BY <1>8, ModeOfPhase, ModeOfNextPhase DEF EstopResetRefused
  <2> QED
    BY <1>8, <2>1, <2>2 DEF EstopResetRefused, Stop!Refuse, HazardIsDue, StopInForce, Tested
<1>9. ASSUME NEW w \in Worlds, SafetyTick(w)
      PROVE  Stop!Look
  <2>1. lastSafetyInput' = w
    BY <1>9 DEF SafetyTick, EvaluateAndKeep
  <2>2. /\ HazardIsDue' => StopInForce' # "none"
        /\ StopInForce = "none" /\ ~HazardIsDue' => StopInForce' = "none"
        /\ StopInForce = "latched" => StopInForce' = "latched"
        /\ StopInForce # "latched" => StopInForce' # "latched" \/ LatchMotorCut
        /\ ~(HazardIsDue' /\ Clear(lastSafetyInput)')
        /\ StopInForce = "latched" => HazardIsDue' = FALSE /\ Tested' = Tested
        /\ StopInForce # "latched" => Tested' = FALSE
    BY <1>9, <2>1, TickSettles DEF Clear
  <2>3. StopMode = "listening" /\ StopMode' = "busy"
    BY <1>9, ModeOfPhase, ModeOfNextPhase DEF SafetyTick
  <2> HIDE DEF StopInForce, HazardIsDue, Clear, StopMode, Tested
  <2> QED
    BY <1>1, <1>2, <1>3, <2>2, <2>3 DEF Stop!Look, Stop!Settle, Stop!Begun
<1>10. CASE BeginPass
  <2>1. StopMode = "busy" /\ StopMode' = "listening"
    BY <1>10, ModeOfPhase, ModeOfNextPhase DEF BeginPass
  <2> QED
    BY <1>10, <2>1, CutStays DEF BeginPass, Stop!Next, Stop!Listen
<1>11. CASE SafetyNotDue
  <2>1. StopMode = "listening" /\ StopMode' = "busy"
    BY <1>11, ModeOfPhase, ModeOfNextPhase DEF SafetyNotDue
  <2> QED
    BY <1>11, <2>1, CutStays DEF SafetyNotDue, Stop!Next, Stop!Pass
<1>12. CASE EndPass
  <2>1. StopMode = "busy" /\ StopMode' = "busy"
    BY <1>12, ModeOfPhase, ModeOfNextPhase DEF EndPass
  <2> QED
    BY <1>12, <2>1, CutStays DEF EndPass, Stop!vars
<1>13. CASE AdvanceClock \/ UNCHANGED vars
  <2>1. StopMode' = StopMode
    BY <1>13 DEF AdvanceClock, vars, StopMode
  <2> QED
    BY <1>13, <2>1, CutStays DEF AdvanceClock, vars, Stop!vars
<1> QED
  BY <1>4, <1>5, <1>6, <1>7, <1>8, <1>9, <1>10, <1>11, <1>12, <1>13 DEF Next, Stop!Next

LEMMA StartsAsStop == Init => Stop!Init
<1> SUFFICES ASSUME Init PROVE Stop!Init
  OBVIOUS
<1>1. HazardIsDue = FALSE
  BY SafetyParametersAssumption DEF Init, HazardIsDue, NoCandidate
<1>2. Clear(lastSafetyInput) = FALSE
  BY DEF Init, Clear, CanReset, BuildSafetyInput, NothingSeen
<1>3. StopInForce = "none" /\ Tested = FALSE /\ relayCutApplied = FALSE
  BY DEF Init, NewController, StopInForce, Tested
<1>4. StopMode = "off"
  BY DEF Init, StopMode
<1> QED
  BY <1>1, <1>2, <1>3, <1>4 DEF Stop!Init

\* The loop implements EmergencyStop: whatever the order of ticks, commands, stalls and
\* reboots, a cut begins at the tick that completes a hazard's persistence or at
\* ESTOP_TEST, a latched one ends at an ESTOP_RESET that finds the way clear or at a
\* reboot, and the relay is off in between (main.cpp 700-790, SafetyController.cpp).
THEOREM LoopImplementsEmergencyStop == Spec => ImplementsEmergencyStop
  BY StartsAsStop, StepIsStop, InductiveInvariant, PTL DEF Spec, ImplementsEmergencyStop, Stop!Spec

-----------------------------------------------------------------------------
(* The zones of thresholdsFor() *)

LEMMA ProductGrows ==
    ASSUME NEW s \in Nat, NEW a \in Nat, NEW b \in Nat, a <= b
    PROVE  s * a \in Nat /\ s * b \in Nat /\ s * a <= s * b
  OBVIOUS

LEMMA BrakingType == ASSUME NEW s \in Nat PROVE BrakingDistance(s) \in Nat
<1> DEFINE n == 100 * s * s
           d == 2 * BrakingDeceleration
<1>1. n \in Nat /\ d \in Nat /\ d > 0
  BY SafetyParametersAssumption
<1>2. n \div d \in Nat
  <2> HIDE DEF n, d
  <2> QED
    BY <1>1
<1> QED
  BY <1>2 DEF BrakingDistance

\* At every speed the emergency zone lies inside the critical one and that
\* inside the warning one, so a range that grants ESTOP_RESET is in none of
\* them (SafetyController::thresholdsFor).
THEOREM ZonesAreNested ==
    ASSUME NEW s \in Nat
    PROVE  /\ EmergencyDistance(s) <= CriticalDistance(s)
           /\ CriticalDistance(s) <= WarningDistance(s)
<1>1. /\ {WarningTime, CriticalTime, EmergencyTime, ReactionTime} \subseteq Nat
      /\ {StationaryWarning, StationaryCritical, StationaryEmergency} \subseteq Nat
      /\ SafetyMargin \in Nat
  BY SafetyParametersAssumption
<1>2. /\ s * EmergencyTime \in Nat /\ s * CriticalTime \in Nat
      /\ s * WarningTime \in Nat /\ s * ReactionTime \in Nat
      /\ s * EmergencyTime <= s * CriticalTime
      /\ s * CriticalTime <= s * WarningTime
  BY <1>1, ProductGrows, ParametersOrdered
<1>3. BrakingDistance(s) \in Nat
  BY BrakingType
<1> DEFINE e == s * EmergencyTime
           c == s * CriticalTime
           x == s * WarningTime
           r == s * ReactionTime
<1>4. /\ e \in Nat /\ c \in Nat /\ x \in Nat /\ r \in Nat
      /\ e <= c /\ c <= x
  BY <1>2
<1>5. EmergencyDistance(s) = Larger(StationaryEmergency, e)
  BY DEF EmergencyDistance
<1>6. CriticalDistance(s) = Larger(Larger(StationaryCritical, c), BrakingDistance(s) + SafetyMargin)
  BY DEF CriticalDistance
<1>7. WarningDistance(s) = Larger(Larger(StationaryWarning, x), r + BrakingDistance(s) + SafetyMargin)
  BY DEF WarningDistance
<1> HIDE DEF e, c, x, r
<1> QED
  BY <1>1, <1>3, <1>4, <1>5, <1>6, <1>7, ParametersOrdered DEF Larger

=============================================================================
