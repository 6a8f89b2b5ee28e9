------------------------------ MODULE Simulator ------------------------------
(***************************************************************************)
(* The motor cut of the simulated truck: FullSimulator's ticks and controls *)
(* and its EmergencyController (backend/app/simulation/engine.py,           *)
(* haul_route.py, haul_fleet.py, safety/emergency.py).                      *)
(*                                                                         *)
(* A tick, and a control call with its tick, hold the control lock and      *)
(* never suspend, so each is one step.  Where the truck is and what its     *)
(* sensors see is the environment's choice; times are ages in tick periods. *)
(***************************************************************************)
EXTENDS Integers

CONSTANTS
    Persistence,   \* emergency_persistence_ms, in tick periods
    ControlCalls,  \* bodies of POST /simulation/control (see Requests)
    MaxJump        \* a bound: tick periods between two timestamps

Scenarios == {"HAUL", "NORMAL", "OBSTACLE"}
DefaultScenario == "HAUL"

\* A control call; a field of value "keep" is left out of the request.
Requests == [reset : BOOLEAN, scenario : Scenarios \cup {"keep"},
             running : {"keep", "run", "pause"}, obstacle : {"keep", "on", "off"}]

ASSUME SimulatorAssumption ==
    /\ Persistence \in Nat \ {0}
    /\ MaxJump \in Nat \ {0}
    /\ ControlCalls \subseteq Requests

VARIABLES
    sim,        \* the simulator (see Simulators)
    world,      \* what publish() last showed of the emergency
    moved,      \* the truck moved in the last tick
    lastCall,   \* history: what the last step was
    standing    \* history: age of the first of the unbroken run of ticks that saw
                \*   the front inside the emergency distance

vars == <<sim, world, moved, lastCall, standing>>

Levels == {"SAFE", "WARNING", "CRITICAL", "EMERGENCY_STOP"}
NoCandidate == -1
NoAlert == "none"
Calls == {"tick", "reset", "scenario", "obstacle", "other", "map"}

\* What the front sensors of a tick show; "unusable" is invalid or stale, and
\* "partial" a safe range without complete coverage.
Readings == Levels \cup {"unusable", "partial"}
Close == "EMERGENCY_STOP"

\* candidate is the age of _emergency_candidate_since_ms; production is the
\* configuration's production_cycle; obstacleDue and cycleDone are the elapsed and
\* dwell times of the HaulRun against their limits; released is history: the cut
\* was released since the last evaluation.
Simulators ==
    [production : BOOLEAN, scenario : Scenarios, movementRunning : BOOLEAN,
     obstacleEnabled : BOOLEAN, obstacleDue : BOOLEAN, cycleDone : BOOLEAN,
     candidate : {NoCandidate} \cup 0 .. Persistence, latched : BOOLEAN,
     outputActive : BOOLEAN, released : BOOLEAN,
     lastLevel : Levels, lastAlert : Levels \cup {NoAlert}]

Capped(t, limit) == IF t > limit THEN limit ELSE t

OnHaul(s) == s.scenario = "HAUL"
OnProduction(s) == OnHaul(s) /\ s.production

-----------------------------------------------------------------------------
(* EmergencyController *)

\* EmergencyController.reset() and set_motor_cut(FALSE), which go together.
Released(s) == [s EXCEPT !.candidate = NoCandidate, !.latched = FALSE,
                         !.outputActive = FALSE, !.released = TRUE]

CandidateTicked(s, dt) ==
    IF s.candidate = NoCandidate THEN 0 ELSE Capped(s.candidate + dt, Persistence)

\* Faulty variant: a tick without usable readings keeps the candidate.
CandidateAgeKept(s, reading, dt) ==
    CASE reading = Close -> CandidateTicked(s, dt)
      [] reading = "unusable" /\ s.candidate # NoCandidate -> CandidateTicked(s, dt)
      [] OTHER -> NoCandidate

\* Faulty variant: the candidate counts from the latest tick.
CandidateAgeRestarted(s, reading, dt) == IF reading = Close THEN 0 ELSE NoCandidate

\* The age of the candidate once evaluate() has seen the reading.
CandidateAge(s, reading, dt) ==
    IF reading = Close THEN CandidateTicked(s, dt) ELSE NoCandidate

\* The level evaluate() grades the reading with, the latch aside.
Graded(reading) ==
    CASE reading \in {Close, "CRITICAL"} -> "CRITICAL"
      [] reading \in {"WARNING", "unusable", "partial"} -> "WARNING"
      [] reading = "SAFE" -> "SAFE"

\* evaluate(), then set_motor_cut() with its verdict.
Evaluate(s, reading, dt) ==
    LET age == CandidateAge(s, reading, dt)
    IN  IF s.latched
        THEN [s EXCEPT !.outputActive = TRUE]
        ELSE [s EXCEPT !.candidate = age, !.latched = (age >= Persistence),
                       !.outputActive = (age >= Persistence)]

-----------------------------------------------------------------------------
(* The tick *)

\* _append_alert()
AppendAlert(s, level) == [s EXCEPT !.lastLevel = level,
                                   !.lastAlert = IF level = s.lastLevel THEN @ ELSE level]

\* _configure_pipeline() makes a new controller and a new output.
ConfigurePipeline(s) == Released(s)

\* The HAUL part before the movement: a finished cycle starts over, and the
\* encounter's obstacle comes and goes with the cycle's clock.
AdvanceHaul(s, due) ==
    LET c == IF s.movementRunning /\ s.cycleDone
             THEN [ConfigurePipeline(s) EXCEPT !.cycleDone = FALSE, !.obstacleDue = FALSE]
             ELSE s
        e == [c EXCEPT !.obstacleDue = ~c.production /\ (@ \/ (c.movementRunning /\ due)),
                       !.obstacleEnabled = ~c.production /\ (c.obstacleDue \/ (c.movementRunning /\ due))]
    IN  IF c.obstacleEnabled /\ ~e.obstacleEnabled THEN Released(e) ELSE e

\* Faulty variant: the production fleet does not hear of the stop.
MayMoveUnlessHeldOnRoute(s) == s.movementRunning /\ (OnProduction(s) \/ ~s.outputActive)

MayMove(s) == s.movementRunning /\ ~s.outputActive

\* Faulty variant: the alerts go, the level they stood for stays.
RouteRestartedLevelKept(s) == [Released(s) EXCEPT !.lastAlert = NoAlert]

\* A route other than HAUL starts over after its dwell at the end.
RouteRestarted(s) == [Released(s) EXCEPT !.lastAlert = NoAlert, !.lastLevel = "SAFE"]

\* What the environment chooses in a tick.
Surroundings ==
    [reading : Readings, dt : 1 .. MaxJump, due : BOOLEAN, moves : BOOLEAN, atEnd : BOOLEAN]

\* The dwell at the HAUL route's end completes the cycle.
Driven(s, e) ==
    CASE e.atEnd /\ MayMove(s) /\ ~OnHaul(s) -> RouteRestarted(s)
      [] e.atEnd /\ MayMove(s) /\ OnHaul(s) /\ ~s.production -> [s EXCEPT !.cycleDone = TRUE]
      [] OTHER -> s

\* _tick_once() of the simulator s that the step's calls left.
TickOnce(s, e) ==
    LET prepared == IF OnHaul(s) THEN AdvanceHaul(s, e.due) ELSE s
        driven == Driven(prepared, e)
        evaluated == Evaluate(driven, e.reading, e.dt)
        level == IF evaluated.latched THEN "EMERGENCY_STOP" ELSE Graded(e.reading)
    IN  /\ sim' = [AppendAlert(evaluated, level) EXCEPT !.released = FALSE]
        /\ world' = [state |-> level, cut |-> evaluated.latched]
        /\ moved' = (e.moves /\ MayMove(prepared))
        /\ standing' = CASE e.reading # Close -> NoCandidate
                         [] e.reading = Close /\ (standing = NoCandidate \/ driven.released) -> 0
                         [] OTHER -> Capped(standing + e.dt, Persistence)

-----------------------------------------------------------------------------
(* Controls *)

\* _apply_scenario(): a HaulRun starts afresh; every scenario releases the cut.
ApplyScenario(s, scenario) ==
    [Released(s) EXCEPT !.scenario = scenario, !.obstacleEnabled = (scenario = "OBSTACLE"),
                        !.obstacleDue = FALSE, !.cycleDone = FALSE]

\* _reset_unlocked()
Reset(s) ==
    ApplyScenario([ConfigurePipeline(s) EXCEPT !.movementRunning = TRUE, !.lastAlert = NoAlert,
                                               !.lastLevel = "SAFE"],
                  DefaultScenario)

\* _apply_control_unlocked() reads the request's fields in this order.
WithReset(s, r) == IF r.reset THEN Reset(s) ELSE s

WithScenario(s, r) == IF r.scenario = "keep" THEN s ELSE ApplyScenario(s, r.scenario)

WithRunning(s, r) == IF r.running = "keep" THEN s ELSE [s EXCEPT !.movementRunning = (r.running = "run")]

WithObstacle(s, r) ==
    CASE r.obstacle = "keep" -> s
      [] r.obstacle = "on" -> [s EXCEPT !.obstacleEnabled = TRUE]
      [] r.obstacle = "off" -> [Released(s) EXCEPT !.obstacleEnabled = FALSE]

ApplyControl(s, r) == WithObstacle(WithRunning(WithScenario(WithReset(s, r), r), r), r)

CallOf(r) ==
    CASE r.reset -> "reset"
      [] ~r.reset /\ r.scenario # "keep" -> "scenario"
      [] ~r.reset /\ r.scenario = "keep" /\ r.obstacle # "keep" -> "obstacle"
      [] OTHER -> "other"

-----------------------------------------------------------------------------

Init ==
    /\ sim \in [production : BOOLEAN, scenario : {DefaultScenario},
               movementRunning : {TRUE}, obstacleEnabled : {FALSE},
               obstacleDue : {FALSE}, cycleDone : {FALSE},
               candidate : {NoCandidate}, latched : {FALSE}, outputActive : {FALSE},
               released : {FALSE}, lastLevel : {"SAFE"}, lastAlert : {NoAlert}]
    /\ world = [state |-> "SAFE", cut |-> FALSE]
    /\ moved = FALSE
    /\ lastCall = "tick"
    /\ standing = NoCandidate

Tick ==
    /\ \E e \in Surroundings : TickOnce(sim, e)
    /\ lastCall' = "tick"

\* apply_control_and_tick()
Control ==
    \E r \in ControlCalls :
        /\ \E e \in Surroundings : TickOnce(ApplyControl(sim, r), e)
        /\ lastCall' = CallOf(r)

\* set_reference_map() resets without a tick.
SetReferenceMap ==
    /\ sim' = Reset(sim)
    /\ moved' = FALSE
    /\ lastCall' = "map"
    /\ UNCHANGED <<world, standing>>

Next == Tick \/ Control \/ SetReferenceMap

Spec == Init /\ [][Next]_vars

-----------------------------------------------------------------------------
(* Properties *)

\* Type invariant.
TypeOK ==
    /\ sim \in Simulators
    /\ world \in [state : Levels, cut : BOOLEAN]
    /\ moved \in BOOLEAN
    /\ lastCall \in Calls
    /\ standing \in {NoCandidate} \cup 0 .. Persistence

\* While the published cut stands, the truck stands: no tick moves it, on the
\* production fleet as on a single route, whatever the controls do meanwhile
\* (engine.py 540-575, haul_fleet.py 166-171).
TruckStandsWhileCut == [][world.cut /\ world'.cut => ~moved']_vars

\* An obstacle inside the emergency distance in every tick of the persistence
\* time cuts the motor: no pause, control or alert restarts the count, only a
\* release does (emergency.py 131-152).
PersistentObstacleCuts == standing >= Persistence => world.cut

\* The cut is never the verdict of a glitch: it begins only after an unbroken run
\* of ticks inside the emergency distance, and no release leaves a candidate
\* behind (emergency.py 121-154, reset 57-59).
CutIsJustified == [][~world.cut /\ world'.cut => standing' >= Persistence]_vars

\* The alert list tells the truth: its last alert is the published level, and it
\* is empty only if the level is SAFE, also after resets and route restarts that
\* empty it (_append_alert 484-505).
LastAlertIsTheLevel ==
    lastCall # "map" =>
        world.state = IF sim.lastAlert = NoAlert THEN "SAFE" ELSE sim.lastAlert

\* docs/ARCHITECTURE.md 123: "A triggered simulated motor cut stays latched until
\* an explicit scenario change or reset."
LatchReleasedExplicitly ==
    [][sim.latched /\ ~sim'.latched => lastCall' \in {"scenario", "reset", "map"}]_vars

=============================================================================
