--------------------------- MODULE SimulatorProofs ---------------------------
(***************************************************************************)
(* Proofs about Simulator for every persistence time, every longest jump   *)
(* of the clock and every set of control calls.                            *)
(*                                                                         *)
(* A tick strings together a dozen functions of the simulator.  What they  *)
(* have in common is stated once (Keeps): whatever a control call or the   *)
(* movement does to the emergency controller, it either leaves it alone or *)
(* releases it altogether.                                                 *)
(***************************************************************************)
EXTENDS Simulator, TLAPS

\* The level the list of alerts stands for.
AlertLevel(s) == IF s.lastAlert = NoAlert THEN "SAFE" ELSE s.lastAlert

\* What every function of the simulator preserves.
Consistent(s) ==
    /\ s \in Simulators
    /\ s.outputActive = s.latched
    /\ s.released => s.candidate = NoCandidate /\ ~s.latched
    /\ ~s.latched => s.candidate < Persistence
    /\ s.lastLevel = AlertLevel(s)

\* The controller of t is that of s, or has been released.
Keeps(s, t) ==
    /\ Consistent(t)
    /\ \/ t.released
       \/ /\ t.released = s.released
          /\ t.candidate = s.candidate
          /\ t.latched = s.latched

\* After a tick the history agrees with the controller.
HistoryAgrees ==
    ~sim.released =>
        /\ sim.latched = world.cut
        /\ ~sim.latched => sim.candidate = standing

AlertsAgree == lastCall # "map" => world.state = sim.lastLevel

IInv ==
    /\ TypeOK
    /\ Consistent(sim)
    /\ HistoryAgrees
    /\ AlertsAgree
    /\ PersistentObstacleCuts

-----------------------------------------------------------------------------
(* The functions of the simulator *)

LEMMA PersistenceIsPositive ==
    Persistence \in Nat /\ 0 < Persistence /\ MaxJump \in Nat
  BY SimulatorAssumption

LEMMA KeepsItself ==
    ASSUME NEW s, Consistent(s)
    PROVE  Keeps(s, s)
  BY DEF Keeps

LEMMA KeepsChain ==
    ASSUME NEW s, NEW t, NEW u, Keeps(s, t), Keeps(t, u)
    PROVE  Keeps(s, u)
  BY DEF Keeps

\* A simulator with a released controller and alerts that agree.
LEMMA ReleasedIsKept ==
    ASSUME NEW s, NEW t \in Simulators,
           t.released, t.candidate = NoCandidate, ~t.latched, ~t.outputActive,
           t.lastLevel = AlertLevel(t)
    PROVE  Keeps(s, t)
  <1>1. t.candidate < Persistence
    BY PersistenceIsPositive DEF NoCandidate
  <1>2. t.outputActive = t.latched
    BY DEF Simulators
  <1> QED
    BY <1>1, <1>2 DEF Keeps, Consistent

\* The fields that neither the controller nor the alerts read may change.
LEMMA MovementKeeps ==
    ASSUME NEW s, NEW t \in Simulators, Consistent(s),
           t.candidate = s.candidate, t.latched = s.latched,
           t.outputActive = s.outputActive, t.released = s.released,
           t.lastLevel = s.lastLevel, t.lastAlert = s.lastAlert
    PROVE  Keeps(s, t)
  BY DEF Keeps, Consistent, AlertLevel

LEMMA ReleasedFields ==
    ASSUME NEW s \in Simulators
    PROVE  /\ Released(s) \in Simulators
           /\ Released(s).candidate = NoCandidate
           /\ Released(s).latched = FALSE
           /\ Released(s).outputActive = FALSE
           /\ Released(s).released = TRUE
           /\ Released(s).lastLevel = s.lastLevel
           /\ Released(s).lastAlert = s.lastAlert
  <1>1. Released(s) \in Simulators
    BY DEF Released, Simulators
  <1> QED
    BY <1>1 DEF Released, Simulators

\* EmergencyController.reset()
LEMMA ReleasedKeeps ==
    ASSUME NEW s, Consistent(s)
    PROVE  Keeps(s, Released(s)) /\ Released(s).released
  <1>1. s \in Simulators /\ s.lastLevel = AlertLevel(s)
    BY DEF Consistent
  <1>2. Released(s).lastLevel = AlertLevel(Released(s))
    BY <1>1, ReleasedFields DEF AlertLevel
  <1> QED
    BY <1>1, <1>2, ReleasedFields, ReleasedIsKept

\* A HAUL cycle that is done releases the controller, and so does the
\* disappearance of the encounter's obstacle; otherwise only the clock of the
\* cycle goes on (_tick_once).
LEMMA AdvanceHaulKeeps ==
    ASSUME NEW s, Consistent(s), NEW due \in BOOLEAN
    PROVE  Keeps(s, AdvanceHaul(s, due))
  <1> DEFINE c == IF s.movementRunning /\ s.cycleDone
                  THEN [ConfigurePipeline(s) EXCEPT !.cycleDone = FALSE,
                                                    !.obstacleDue = FALSE]
                  ELSE s
             seen == c.obstacleDue \/ (c.movementRunning /\ due)
             e == [c EXCEPT !.obstacleDue = ~c.production /\ seen,
                            !.obstacleEnabled = ~c.production /\ seen]
  <1>1. Keeps(s, c)
    <2>1. CASE s.movementRunning /\ s.cycleDone
      <3>1. Keeps(s, Released(s)) /\ Released(s) \in Simulators
        BY ReleasedKeeps, ReleasedFields DEF Consistent
      <3>2. Keeps(Released(s), c)
        <4> DEFINE r == Released(s)
        <4>1. Consistent(r) /\ r \in Simulators
          BY <3>1 DEF Keeps
        <4>2. c = [r EXCEPT !.cycleDone = FALSE, !.obstacleDue = FALSE]
          BY <2>1 DEF ConfigurePipeline
        <4> HIDE DEF c, r
        <4>3. c \in Simulators
          BY <4>1, <4>2 DEF Simulators
        <4>4. /\ c.candidate = r.candidate /\ c.latched = r.latched
              /\ c.outputActive = r.outputActive /\ c.released = r.released
              /\ c.lastLevel = r.lastLevel /\ c.lastAlert = r.lastAlert
          BY <4>1, <4>2 DEF Simulators
        <4> QED
          BY <4>1, <4>3, <4>4, MovementKeeps DEF r
      <3> QED
        BY <3>1, <3>2, KeepsChain
    <2>2. CASE ~(s.movementRunning /\ s.cycleDone)
      BY <2>2, KeepsItself
    <2> QED
      BY <2>1, <2>2
  <1> HIDE DEF c
  <1>2. Consistent(c) /\ c \in Simulators
    BY <1>1 DEF Keeps, Consistent
  <1>3. Keeps(c, e)
    <2>1. e \in Simulators
      BY <1>2 DEF Simulators
    <2>2. /\ e.candidate = c.candidate /\ e.latched = c.latched
          /\ e.outputActive = c.outputActive /\ e.released = c.released
          /\ e.lastLevel = c.lastLevel /\ e.lastAlert = c.lastAlert
      BY <1>2 DEF Simulators
    <2> QED
      BY <1>2, <2>1, <2>2, MovementKeeps
  <1>4. Keeps(e, Released(e))
    BY <1>3, ReleasedKeeps DEF Keeps
  <1>5. AdvanceHaul(s, due) =
          IF c.obstacleEnabled /\ ~e.obstacleEnabled THEN Released(e) ELSE e
    BY DEF AdvanceHaul, c
  <1> HIDE DEF e
  <1> QED
    BY <1>1, <1>3, <1>4, <1>5, KeepsChain

\* The end of the route.
LEMMA DrivenKeeps ==
    ASSUME NEW s, Consistent(s), NEW e \in Surroundings
    PROVE  Keeps(s, Driven(s, e))
  <1>1. s \in Simulators
    BY DEF Consistent
  <1>2. Keeps(s, RouteRestarted(s))
    <2> DEFINE r == Released(s)
               t == RouteRestarted(s)
    <2>1. t = [r EXCEPT !.lastAlert = NoAlert, !.lastLevel = "SAFE"]
      BY DEF RouteRestarted
    <2>2. /\ r \in Simulators
          /\ r.released = TRUE /\ r.candidate = NoCandidate
          /\ r.latched = FALSE /\ r.outputActive = FALSE
      BY <1>1, ReleasedFields
    <2> HIDE DEF r, t
    <2>3. t \in Simulators
      BY <2>1, <2>2 DEF Simulators, Levels
    <2>4. /\ t.released = TRUE /\ t.candidate = NoCandidate
          /\ t.latched = FALSE /\ t.outputActive = FALSE
          /\ t.lastLevel = "SAFE" /\ t.lastAlert = NoAlert
      BY <2>1, <2>2 DEF Simulators
    <2> QED
      BY <2>3, <2>4, ReleasedIsKept DEF AlertLevel, t
  <1>3. Keeps(s, [s EXCEPT !.cycleDone = TRUE])
    <2> DEFINE t == [s EXCEPT !.cycleDone = TRUE]
    <2>1. /\ t \in Simulators
          /\ t.candidate = s.candidate /\ t.latched = s.latched
          /\ t.outputActive = s.outputActive /\ t.released = s.released
          /\ t.lastLevel = s.lastLevel /\ t.lastAlert = s.lastAlert
      BY <1>1 DEF Simulators
    <2> QED
      BY <2>1, MovementKeeps
  <1> QED
    BY <1>2, <1>3, KeepsItself DEF Driven

-----------------------------------------------------------------------------
(* The controls *)

\* _apply_scenario() needs of the simulator only its shape and true alerts.
LEMMA ScenarioKeeps ==
    ASSUME NEW s, NEW t \in Simulators, t.lastLevel = AlertLevel(t),
           NEW scenario \in Scenarios
    PROVE  Keeps(s, ApplyScenario(t, scenario))
  <1> DEFINE r == Released(t)
             a == ApplyScenario(t, scenario)
  <1>1. a = [r EXCEPT !.scenario = scenario, !.obstacleEnabled = (scenario = "OBSTACLE"),
                      !.obstacleDue = FALSE, !.cycleDone = FALSE]
    BY DEF ApplyScenario
  <1>2. /\ r \in Simulators
        /\ r.released = TRUE /\ r.candidate = NoCandidate
        /\ r.latched = FALSE /\ r.outputActive = FALSE
        /\ r.lastLevel = t.lastLevel /\ r.lastAlert = t.lastAlert
    BY ReleasedFields
  <1> HIDE DEF r, a
  <1>3. a \in Simulators
    BY <1>1, <1>2 DEF Simulators
  <1>4. /\ a.released = TRUE /\ a.candidate = NoCandidate
        /\ a.latched = FALSE /\ a.outputActive = FALSE
        /\ a.lastLevel = t.lastLevel /\ a.lastAlert = t.lastAlert
    BY <1>1, <1>2 DEF Simulators
  <1>5. Keeps(s, a)
    BY <1>3, <1>4, ReleasedIsKept DEF AlertLevel
  <1> QED
    BY <1>5 DEF a

LEMMA ResetKeeps ==
    ASSUME NEW s, Consistent(s)
    PROVE  Keeps(s, Reset(s)) /\ Reset(s).released
  <1> DEFINE r == Released(s)
             t == [r EXCEPT !.movementRunning = TRUE, !.lastAlert = NoAlert,
                            !.lastLevel = "SAFE"]
  <1>1. r \in Simulators
    BY ReleasedFields DEF Consistent
  <1>2. Reset(s) = ApplyScenario(t, DefaultScenario)
    BY DEF Reset, ConfigurePipeline
  <1>3. t \in Simulators /\ t.lastLevel = AlertLevel(t)
    <2> HIDE DEF r
    <2> QED
      BY <1>1 DEF Simulators, Levels, AlertLevel
  <1>4. DefaultScenario \in Scenarios
    BY DEF DefaultScenario, Scenarios
  <1> HIDE DEF t
  <1>5. Released(t).released = TRUE /\ Released(t) \in Simulators
    BY <1>3, ReleasedFields
  <1>6. ApplyScenario(t, DefaultScenario).released = TRUE
    BY <1>5 DEF ApplyScenario, Simulators
  <1> QED
    BY <1>2, <1>3, <1>4, <1>6, ScenarioKeeps

\* Each field of a request in turn (_apply_control_unlocked).
LEMMA ControlKeeps ==
    ASSUME NEW s, Consistent(s), NEW r \in Requests
    PROVE  Keeps(s, ApplyControl(s, r))
  <1> USE DEF Requests
  <1>1. Keeps(s, WithReset(s, r))
    BY ResetKeeps, KeepsItself DEF WithReset
  <1>2. ASSUME NEW t, Consistent(t)
        PROVE  Keeps(t, WithScenario(t, r))
    <2>1. r.scenario = "keep" \/ r.scenario \in Scenarios
      OBVIOUS
    <2>2. t \in Simulators /\ t.lastLevel = AlertLevel(t)
      BY <1>2 DEF Consistent
    <2> QED
      BY <1>2, <2>1, <2>2, ScenarioKeeps, KeepsItself DEF WithScenario
  <1>3. ASSUME NEW t, Consistent(t)
        PROVE  Keeps(t, WithRunning(t, r))
    <2> DEFINE u == [t EXCEPT !.movementRunning = (r.running = "run")]
    <2>1. /\ u \in Simulators
          /\ u.candidate = t.candidate /\ u.latched = t.latched
          /\ u.outputActive = t.outputActive /\ u.released = t.released
          /\ u.lastLevel = t.lastLevel /\ u.lastAlert = t.lastAlert
      BY <1>3 DEF Consistent, Simulators
    <2> QED
      BY <1>3, <2>1, MovementKeeps, KeepsItself DEF WithRunning
  <1>4. ASSUME NEW t, Consistent(t), NEW enabled \in BOOLEAN
        PROVE  Keeps(t, [t EXCEPT !.obstacleEnabled = enabled])
    <2> DEFINE u == [t EXCEPT !.obstacleEnabled = enabled]
    <2>1. /\ u \in Simulators
          /\ u.candidate = t.candidate /\ u.latched = t.latched
          /\ u.outputActive = t.outputActive /\ u.released = t.released
          /\ u.lastLevel = t.lastLevel /\ u.lastAlert = t.lastAlert
      BY <1>4 DEF Consistent, Simulators
    <2> QED
      BY <1>4, <2>1, MovementKeeps
  <1>5. ASSUME NEW t, Consistent(t)
        PROVE  Keeps(t, WithObstacle(t, r))
    <2>1. CASE r.obstacle = "keep"
      BY <1>5, <2>1, KeepsItself DEF WithObstacle
    <2>2. CASE r.obstacle = "on"
      BY <1>4, <1>5, <2>2 DEF WithObstacle
    <2>3. CASE r.obstacle = "off"
      <3>1. Keeps(t, Released(t)) /\ Consistent(Released(t))
        BY <1>5, ReleasedKeeps DEF Keeps
      <3>2. Keeps(Released(t), [Released(t) EXCEPT !.obstacleEnabled = FALSE])
        BY <1>4, <3>1
      <3> QED
        BY <2>3, <3>1, <3>2, KeepsChain DEF WithObstacle
    <2> QED
      BY <2>1, <2>2, <2>3
  <1> DEFINE u == WithReset(s, r)
             v == WithScenario(u, r)
             w == WithRunning(v, r)
  <1>6. Keeps(s, u) /\ Consistent(u)
    BY <1>1 DEF Keeps
  <1>7. Keeps(u, v) /\ Consistent(v)
    BY <1>2, <1>6 DEF Keeps
  <1>8. Keeps(v, w) /\ Consistent(w)
    BY <1>3, <1>7 DEF Keeps
  <1>9. Keeps(w, WithObstacle(w, r))
    BY <1>5, <1>8
  <1>10. Keeps(s, w)
    BY <1>6, <1>7, <1>8, KeepsChain
  <1> QED
    BY <1>9, <1>10, KeepsChain DEF ApplyControl

-----------------------------------------------------------------------------
(* The tick *)

LEMMA AgeType ==
    ASSUME NEW s, Consistent(s), NEW e \in Surroundings
    PROVE  /\ CandidateAge(s, e.reading, e.dt) \in {NoCandidate} \cup 0 .. Persistence
           /\ CandidateAge(s, e.reading, e.dt) >= Persistence =>
                e.reading = Close /\ s.candidate # NoCandidate
  <1>1. s.candidate \in {NoCandidate} \cup 0 .. Persistence /\ e.dt \in Nat
    BY PersistenceIsPositive DEF Consistent, Simulators, Surroundings
  <1> QED
    BY <1>1, PersistenceIsPositive
       DEF CandidateAge, CandidateTicked, Capped, NoCandidate

\* evaluate(): a latched cut stays, any other follows the candidate's age.
LEMMA EvaluateFields ==
    ASSUME NEW s, Consistent(s), NEW e \in Surroundings
    PROVE  LET v == Evaluate(s, e.reading, e.dt)
               age == CandidateAge(s, e.reading, e.dt)
           IN  /\ v \in Simulators
               /\ v.latched = (s.latched \/ age >= Persistence)
               /\ v.outputActive = v.latched
               /\ ~v.latched => v.candidate = age /\ v.candidate < Persistence
               /\ v.lastLevel = AlertLevel(v)
  <1> DEFINE v == Evaluate(s, e.reading, e.dt)
             age == CandidateAge(s, e.reading, e.dt)
  <1>1. /\ s \in Simulators /\ s.lastLevel = AlertLevel(s)
        /\ age \in {NoCandidate} \cup 0 .. Persistence
    BY AgeType DEF Consistent
  <1>2. CASE s.latched
    <2>1. v = [s EXCEPT !.outputActive = TRUE]
      BY <1>2 DEF Evaluate
    <2> HIDE DEF v, age
    <2>2. /\ v \in Simulators /\ v.latched = s.latched /\ v.outputActive = TRUE
          /\ v.lastLevel = s.lastLevel /\ v.lastAlert = s.lastAlert
      BY <1>1, <2>1 DEF Simulators
    <2>3. s.latched = TRUE
      BY <1>1, <1>2 DEF Simulators
    <2>4. v.latched = (s.latched \/ age >= Persistence) /\ v.outputActive = v.latched
      BY <2>2, <2>3
    <2> QED
      BY <1>1, <2>2, <2>3, <2>4 DEF AlertLevel, v, age
  <1>3. CASE ~s.latched
    <2> DEFINE fires == age >= Persistence
    <2>1. v = [s EXCEPT !.candidate = age, !.latched = fires, !.outputActive = fires]
      BY <1>3 DEF Evaluate
    <2> HIDE DEF v, age
    <2>2. /\ v \in Simulators /\ v.latched = fires
          /\ v.outputActive = fires /\ v.candidate = age
          /\ v.lastLevel = s.lastLevel /\ v.lastAlert = s.lastAlert
      <3>1. fires \in BOOLEAN
        OBVIOUS
      <3> HIDE DEF fires
      <3> QED
        BY <1>1, <2>1, <3>1 DEF Simulators
    <2>3. ~(age >= Persistence) => age < Persistence
      BY <1>1, PersistenceIsPositive DEF NoCandidate
    <2>4. v.latched = (s.latched \/ age >= Persistence) /\ v.outputActive = v.latched
      BY <1>3, <2>2
    <2> QED
      BY <1>1, <2>2, <2>3, <2>4 DEF AlertLevel, v, age
  <1> QED
    BY <1>2, <1>3

\* _append_alert(): afterwards the alerts stand for the level.
LEMMA AppendAlertFields ==
    ASSUME NEW s \in Simulators, s.lastLevel = AlertLevel(s), NEW level \in Levels
    PROVE  LET t == [AppendAlert(s, level) EXCEPT !.released = FALSE]
           IN  /\ t \in Simulators
               /\ t.candidate = s.candidate /\ t.latched = s.latched
               /\ t.outputActive = s.outputActive /\ t.released = FALSE
               /\ t.lastLevel = level
               /\ t.lastLevel = AlertLevel(t)
  <1> DEFINE alert == IF level = s.lastLevel THEN s.lastAlert ELSE level
             a == AppendAlert(s, level)
             t == [a EXCEPT !.released = FALSE]
  <1>1. a = [s EXCEPT !.lastLevel = level, !.lastAlert = alert]
    BY DEF AppendAlert
  <1>2. alert \in Levels \cup {NoAlert}
    BY DEF Simulators
  <1>3. /\ a \in Simulators
        /\ a.candidate = s.candidate /\ a.latched = s.latched
        /\ a.outputActive = s.outputActive
        /\ a.lastLevel = level /\ a.lastAlert = alert
    <2> HIDE DEF a, alert
    <2> QED
      BY <1>1, <1>2 DEF Simulators
  <1>4. /\ t \in Simulators
        /\ t.candidate = a.candidate /\ t.latched = a.latched
        /\ t.outputActive = a.outputActive /\ t.released = FALSE
        /\ t.lastLevel = a.lastLevel /\ t.lastAlert = a.lastAlert
    <2> HIDE DEF a
    <2> QED
      BY <1>3 DEF Simulators
  <1>5. level # NoAlert
    BY DEF Levels, NoAlert
  <1>6. t.lastLevel = AlertLevel(t)
    <2> HIDE DEF a, t
    <2> QED
      BY <1>3, <1>4, <1>5 DEF AlertLevel
  <1> QED
    BY <1>3, <1>4, <1>6

\* One tick of a simulator that the controls before it left.  The count of the
\* history and the candidate advance together, and start together at a release.
LEMMA TickStep ==
    ASSUME IInv, NEW s, Keeps(sim, s), NEW e \in Surroundings, TickOnce(s, e)
    PROVE  /\ Consistent(sim')
           /\ world' \in [state : Levels, cut : BOOLEAN]
           /\ moved' \in BOOLEAN
           /\ standing' \in {NoCandidate} \cup 0 .. Persistence
           /\ HistoryAgrees'
           /\ world'.state = sim'.lastLevel
           /\ PersistentObstacleCuts'
           /\ world.cut /\ world'.cut => ~moved'
           /\ ~world.cut /\ world'.cut => standing' >= Persistence
  <1> DEFINE prepared == IF OnHaul(s) THEN AdvanceHaul(s, e.due) ELSE s
             driven == Driven(prepared, e)
             v == Evaluate(driven, e.reading, e.dt)
             age == CandidateAge(driven, e.reading, e.dt)
             level == IF v.latched THEN "EMERGENCY_STOP" ELSE Graded(e.reading)
  <1>1. /\ sim' = [AppendAlert(v, level) EXCEPT !.released = FALSE]
        /\ world' = [state |-> level, cut |-> v.latched]
        /\ moved' = (e.moves /\ MayMove(prepared))
        /\ standing' = CASE e.reading # Close -> NoCandidate
                         [] e.reading = Close /\ (standing = NoCandidate \/ driven.released) -> 0
                         [] OTHER -> Capped(standing + e.dt, Persistence)
    BY DEF TickOnce
  <1>2. /\ e.reading \in Readings /\ e.dt \in Nat /\ 0 < e.dt
        /\ e.moves \in BOOLEAN /\ e.due \in BOOLEAN
    BY PersistenceIsPositive DEF Surroundings
  <1>3. Keeps(sim, prepared) /\ Consistent(prepared)
    <2>1. Keeps(s, prepared)
      BY <1>2, AdvanceHaulKeeps, KeepsItself DEF Keeps
    <2> QED
      BY <2>1, KeepsChain DEF Keeps
  <1>4. Keeps(prepared, driven) /\ Consistent(driven)
    BY <1>3, DrivenKeeps DEF Keeps
  <1>5. Keeps(sim, driven)
    BY <1>3, <1>4, KeepsChain
  <1>6. /\ v \in Simulators
        /\ v.latched = (driven.latched \/ age >= Persistence)
        /\ v.outputActive = v.latched
        /\ ~v.latched => v.candidate = age /\ v.candidate < Persistence
        /\ v.lastLevel = AlertLevel(v)
    BY <1>4, EvaluateFields
  <1>7. /\ age \in {NoCandidate} \cup 0 .. Persistence
        /\ age >= Persistence => e.reading = Close /\ driven.candidate # NoCandidate
    BY <1>4, AgeType
  <1>8. level \in Levels /\ v.latched \in BOOLEAN
    <2>1. Graded(e.reading) \in Levels
      BY <1>2 DEF Graded, Levels, Readings, Close
    <2>2. "EMERGENCY_STOP" \in Levels
      BY DEF Levels
    <2> QED
      BY <1>6, <2>1, <2>2 DEF Simulators
  <1> HIDE DEF prepared, driven, v, age, level
  <1>9. /\ sim' \in Simulators
        /\ sim'.candidate = v.candidate /\ sim'.latched = v.latched
        /\ sim'.outputActive = v.outputActive /\ sim'.released = FALSE
        /\ sim'.lastLevel = level
        /\ sim'.lastLevel = AlertLevel(sim')
    BY <1>1, <1>6, <1>8, AppendAlertFields
  <1>10. Consistent(sim')
    BY <1>6, <1>9 DEF Consistent
  <1>11. world'.cut = v.latched /\ world'.state = sim'.lastLevel
    BY <1>1, <1>9
  <1>12. world' \in [state : Levels, cut : BOOLEAN]
    BY <1>1, <1>8
  <1>13. moved' \in BOOLEAN
    <2>1. MayMove(prepared) \in BOOLEAN
      BY <1>3 DEF Consistent, Simulators, MayMove
    <2> QED
      BY <1>1, <1>2, <2>1
  <1>14. standing \in {NoCandidate} \cup 0 .. Persistence
    BY DEF IInv, TypeOK
  <1>15. standing' \in {NoCandidate} \cup 0 .. Persistence
    BY <1>1, <1>2, <1>14, PersistenceIsPositive DEF Capped, NoCandidate
  \* A release before the tick leaves nothing to go on from.
  <1>16. driven.released => ~v.latched
    <2>1. driven.released => driven.candidate = NoCandidate /\ ~driven.latched
      BY <1>4 DEF Consistent
    <2> QED
      BY <1>6, <1>7, <2>1
  <1>17. ~driven.released =>
           /\ ~sim.released /\ driven.candidate = sim.candidate
           /\ driven.latched = sim.latched
    BY <1>5 DEF Keeps
  <1>18. ~driven.latched => age = standing'
    <2> SUFFICES ASSUME ~driven.latched PROVE age = standing'
      OBVIOUS
    <2>1. CASE e.reading # Close
      BY <1>1, <2>1 DEF CandidateAge, age
    <2>2. CASE e.reading = Close /\ driven.released
      <3>1. driven.candidate = NoCandidate
        BY <1>4, <2>2 DEF Consistent
      <3> QED
        BY <1>1, <2>2, <3>1 DEF CandidateAge, CandidateTicked, age
    <2>3. CASE e.reading = Close /\ ~driven.released
      <3>1. driven.candidate = standing
        BY <1>17, <2>3 DEF IInv, HistoryAgrees
      <3> QED
        BY <1>1, <2>3, <3>1 DEF CandidateAge, CandidateTicked, age
    <2> QED
      BY <2>1, <2>2, <2>3
  <1>19. HistoryAgrees'
    BY <1>6, <1>9, <1>11, <1>18 DEF HistoryAgrees
  <1>20. PersistentObstacleCuts'
    BY <1>6, <1>11, <1>18 DEF PersistentObstacleCuts
  <1>21. ~world.cut /\ world'.cut => standing' >= Persistence
    <2> SUFFICES ASSUME ~world.cut, world'.cut PROVE standing' >= Persistence
      OBVIOUS
    <2>1. v.latched /\ ~driven.released
      BY <1>11, <1>16
    <2>2. ~driven.latched
      BY <1>17, <2>1 DEF IInv, HistoryAgrees
    <2> QED
      BY <1>6, <1>18, <2>1, <2>2
  <1>22. world.cut /\ world'.cut => ~moved'
    <2> SUFFICES ASSUME world.cut, world'.cut PROVE ~moved'
      OBVIOUS
    <2>1. ~driven.released /\ sim.latched
      BY <1>11, <1>16, <1>17 DEF IInv, HistoryAgrees
    <2>2. ~prepared.released
      BY <1>4, <2>1 DEF Keeps
    <2>3. prepared.latched = sim.latched
      BY <1>3, <2>2 DEF Keeps
    <2>4. prepared.outputActive
      BY <1>3, <2>1, <2>3 DEF Consistent
    <2> QED
      BY <1>1, <2>4 DEF MayMove
  <1> QED
    BY <1>10, <1>11, <1>12, <1>13, <1>15, <1>19, <1>20, <1>21, <1>22

-----------------------------------------------------------------------------
(* The theorems *)

LEMMA InitInvariant == Init => IInv
  <1> SUFFICES ASSUME Init PROVE IInv
    OBVIOUS
  <1>1. /\ sim \in Simulators
        /\ sim.candidate = NoCandidate /\ sim.latched = FALSE
        /\ sim.outputActive = FALSE /\ sim.released = FALSE
        /\ sim.lastLevel = "SAFE" /\ sim.lastAlert = NoAlert
    BY DEF Init, Simulators, Scenarios, DefaultScenario, Levels, NoAlert
  <1>2. TypeOK
    BY <1>1 DEF Init, TypeOK, Levels, Calls
  <1>3. Consistent(sim)
    <2>1. sim.candidate < Persistence
      BY <1>1, PersistenceIsPositive DEF NoCandidate
    <2>2. sim.lastLevel = AlertLevel(sim)
      BY <1>1 DEF AlertLevel
    <2> QED
      BY <1>1, <2>1, <2>2 DEF Consistent
  <1>4. PersistentObstacleCuts
    BY PersistenceIsPositive DEF Init, PersistentObstacleCuts, NoCandidate
  <1> QED
    BY <1>1, <1>2, <1>3, <1>4 DEF Init, IInv, HistoryAgrees, AlertsAgree

\* The three steps; what the tick of a step shows of the truck and the cut is
\* passed on for the action properties.
LEMMA NextInvariant ==
    ASSUME IInv, [Next]_vars
    PROVE  /\ IInv'
           /\ UNCHANGED vars \/ (world.cut /\ world'.cut => ~moved')
           /\ ~world.cut /\ world'.cut => standing' >= Persistence
  <1>1. ASSUME NEW s, Keeps(sim, s), NEW e \in Surroundings, TickOnce(s, e),
               lastCall' \in Calls
        PROVE  /\ IInv'
               /\ world.cut /\ world'.cut => ~moved'
               /\ ~world.cut /\ world'.cut => standing' >= Persistence
    <2>1. /\ Consistent(sim') /\ world' \in [state : Levels, cut : BOOLEAN]
          /\ moved' \in BOOLEAN /\ standing' \in {NoCandidate} \cup 0 .. Persistence
          /\ HistoryAgrees' /\ world'.state = sim'.lastLevel
          /\ PersistentObstacleCuts'
          /\ world.cut /\ world'.cut => ~moved'
          /\ ~world.cut /\ world'.cut => standing' >= Persistence
      BY <1>1, TickStep
    <2>2. TypeOK'
      BY <1>1, <2>1 DEF TypeOK, Consistent
    <2> QED
      BY <2>1, <2>2 DEF IInv, Consistent, AlertLevel, AlertsAgree
  <1>2. CASE Tick
    <2>1. Keeps(sim, sim)
      BY KeepsItself DEF IInv
    <2>2. lastCall' \in Calls
      BY <1>2 DEF Tick, Calls
    <2> QED
      BY <1>1, <1>2, <2>1, <2>2 DEF Tick
  <1>3. CASE Control
    <2>1. PICK r \in ControlCalls :
            /\ \E e \in Surroundings : TickOnce(ApplyControl(sim, r), e)
            /\ lastCall' = CallOf(r)
      BY <1>3 DEF Control
    <2>2. Keeps(sim, ApplyControl(sim, r))
      BY ControlKeeps, SimulatorAssumption DEF IInv
    <2>3. lastCall' \in Calls
      BY <2>1 DEF CallOf, Calls
    <2> QED
      BY <1>1, <2>1, <2>2, <2>3
  <1>4. CASE SetReferenceMap
    <2>1. sim' = Reset(sim) /\ Keeps(sim, Reset(sim)) /\ Reset(sim).released
      BY <1>4, ResetKeeps DEF SetReferenceMap, IInv
    <2>2. Consistent(sim') /\ sim'.released
      BY <2>1 DEF Keeps
    <2>3. /\ moved' = FALSE /\ lastCall' = "map"
          /\ world' = world /\ standing' = standing
      BY <1>4 DEF SetReferenceMap
    <2>4. TypeOK'
      BY <2>2, <2>3 DEF IInv, TypeOK, Consistent, Calls
    <2>5. PersistentObstacleCuts'
      BY <2>3 DEF IInv, PersistentObstacleCuts
    <2> QED
      BY <2>2, <2>3, <2>4, <2>5
         DEF IInv, Consistent, AlertLevel, HistoryAgrees, AlertsAgree
  <1>5. CASE UNCHANGED vars
    BY <1>5 DEF vars, IInv, TypeOK, Consistent, AlertLevel, HistoryAgrees,
                AlertsAgree, PersistentObstacleCuts
  <1> QED
    BY <1>2, <1>3, <1>4, <1>5 DEF Next

\* The strengthened invariant holds throughout: between two steps the controller
\* is what the history says it is, or has been released.
THEOREM InductiveInvariant == Spec => []IInv
  <1>1. Init => IInv
    BY InitInvariant
  <1>2. IInv /\ [Next]_vars => IInv'
    BY NextInvariant
  <1> QED
    BY <1>1, <1>2, PTL DEF Spec

\* Every variable of the simulator keeps its type, whatever is requested.
THEOREM TypeCorrect == Spec => []TypeOK
  <1>1. IInv => TypeOK
    BY DEF IInv
  <1> QED
    BY <1>1, InductiveInvariant, PTL

\* An obstacle inside the emergency distance for the persistence time cuts the
\* motor, however ticks and controls interleave (EmergencyController.evaluate).
THEOREM PersistentObstacleIsCut == Spec => []PersistentObstacleCuts
  <1>1. IInv => PersistentObstacleCuts
    BY DEF IInv
  <1> QED
    BY <1>1, InductiveInvariant, PTL

\* A cut begins only after the whole persistence time, also after releases and
\* restarts of the route or the cycle (EmergencyController.reset).
THEOREM CutsAreJustified == Spec => CutIsJustified
  <1>1. IInv /\ [Next]_vars =>
          [~world.cut /\ world'.cut => standing' >= Persistence]_vars
    BY NextInvariant
  <1> QED
    BY <1>1, InductiveInvariant, PTL DEF Spec, CutIsJustified

\* While the published cut stands, no tick moves the truck (FullSimulator's
\* _tick_once, HaulFleet.advance).
THEOREM TruckIsHeld == Spec => TruckStandsWhileCut
  <1>1. IInv /\ [Next]_vars => [world.cut /\ world'.cut => ~moved']_vars
    BY NextInvariant
  <1> QED
    BY <1>1, InductiveInvariant, PTL DEF Spec, TruckStandsWhileCut

\* The last alert is the level published, or there is none and the level is SAFE
\* (_append_alert).
THEOREM AlertsAreTrue == Spec => []LastAlertIsTheLevel
  <1>1. IInv => LastAlertIsTheLevel
    BY DEF IInv, AlertsAgree, Consistent, AlertLevel, LastAlertIsTheLevel
  <1> QED
    BY <1>1, InductiveInvariant, PTL

=============================================================================
