# Verification of FogSen (SIH26007)

FogSen is a fog-driving aid for mine haul trucks.  Sensor nodes on the truck
report ranges to a MAIN controller (ESP32), MAIN decides whether the motor must
be cut and sends telemetry over USB, Wi-Fi and LoRa, a Python backend merges the
telemetry into one world state, and a React dashboard shows it.  The same backend
can run a deterministic simulation of the truck in place of the hardware.

This directory holds TLA+ models of the parts of the system in which order,
timing and failure decide correctness, TLC configurations that check them on
small instances, and TLAPS proofs for every instance of the safety core.

Contents: [inventory](#inventory) · [how the parts interact](#how-the-parts-interact)
· [modules](#modules-and-the-code) · [runs](#runs-bounds-and-what-they-show)
· [disagreements with the documents](#disagreements-with-the-documents)
· [fairness](#fairness) · [proofs](#proofs) · [limits](#what-is-not-modelled)
· [plan](#plan).

## Inventory

| Part | State it keeps | Operations | What makes it correct |
|---|---|---|---|
| **MAIN safety controller** (`firmware/main_esp32/src/SafetyController.*`) | cut, latch, cause, start of an obstacle and of a sensor-fault candidate | `evaluate`, `triggerManualTest`, `reset` | a hazard that persists cuts; a glitch does not; a latch opens only when the vehicle stands and the way is verified clear |
| **MAIN loop** (`main.cpp`) | last safety input, last output, relay pin, tick time, retained scanner evidence | setup, safety tick, ESTOP_TEST, ESTOP_RESET, STATUS, telemetry | relay, report and controller agree; timers survive the clock's wrap and the handlers' own clock values |
| **Node link** (`NodeLink.*`) | last packet, receive time, reboot and loss counters | `poll`, `handleLine`, `acceptSequence` | duplicates are rejected, a reboot is told from a loss, silence makes the link stale |
| **FRONT/MIDDLE nodes** (`xiao_shared`, `middle_esp32c3_supermini`) | sequence, servo position, scanner samples | acquisition cycle, commands | every packet describes one look of the scanner |
| **Rear scanner, local sensors, GPS, load cell** | measurement phases, retry timers | `poll` | a failed sensor is reported as failed, and retried |
| **USB queue, Wi-Fi sender, LoRa** (`SerialTxQueue`, `WifiTelemetry`, `LoraTransmitter`) | bounded queues, counters, TCP session generation | enqueue, send, reconnect | a frame of an old session never reaches a new one, every frame is accounted for, the sender comes back |
| **Backend LIVE runtime** (`backend/app/live_runtime.py`, `providers/`) | readers, last counters, staleness flag, world state | `start`, `stop`, `_run`, `_accept_packet`, publish | old telemetry is never shown as live, duplicates are rejected, a cut is kept through outages |
| **Wi-Fi listener** (`providers/wifi_listener.py`) | active client, packet deque, counters | handler threads, `poll`, `close` | packets of a replaced client do not overtake the new client's |
| **World store** (`twin/world_store.py`) | state, revision, encoded snapshot | `publish`, `stream_snapshot`, `accept_vehicle` | one encoding per revision |
| **Simulation** (`simulation/engine.py`, `haul_route.py`, `haul_fleet.py`, `safety/emergency.py`) | scenario, route progress, encounter, candidate, latch, alerts | tick, control, map change | as for MAIN's cut; the truck stands while cut; alerts agree with the level |
| **V2X, fleet, mine map, router** | peers, advisories, vehicles, graph | broadcast, receive, expire, route | peers expire, alerts are not repeated within their cooldown |
| **Camera** (`camera/stream.py`) | latest frame per stage, worker threads | read, enhance, encode | a stale image is marked stale |
| **LoRa base station** (`firmware/base_station`) | per-node tracker | receive, expire | loss and reboots are counted per node |
| **Dashboard: connection** (`state/useTelemetry.ts`, `simulation/demoPlayback.ts`) | socket, two timers, the shown world and its label; in the static demo the player's token, chunks and timer | open, message, close, stale, retry, snapshot over HTTP, visibility; advance, pause, dispose | every shown world was published, the stream never goes back, a quiet stream is not called live, the newest world is shown in the end; the recording is played frame by frame by one timer |
| **Dashboard: snapshot guard** (`state/worldStateSnapshot.ts`, `types.ts`, `defaultState.ts`) | none | `isWorldStateSnapshot` | what the backend publishes is accepted, what is accepted is what the types declare |
| **Dashboard: console** (`App.tsx`, `auth/`, `layout/`, `theme.ts`) | role, view, theme; the location, session and local storage | enter, exit, choose a view, back, forward, reload | the page is that of its location, for every history |
| **Dashboard: driver view** (`driver/`, `spatial/forwardHazard.ts`) | the hazard held since the last world, map and camera choices, Leaflet markers | render of a world, expand, close, choose | a hazard shown is there or was a moment ago; clear means verified; the maps show the peers |
| **Dashboard: range displays** (`ProximityWidget`, `rangeReadings`, `spatialPoints`, `spatial/`) | the preview and its shared request; in the backend the accumulated points | publish, outage, restart of MAIN, lost link, preview | the displays agree on what is near, and every point shown is recent evidence |
| **Dashboard: fleet view** (`supervisor/`, `twin/TwinMap.tsx`) | section, selected vehicle, advisory drafts and notice | select, open, broadcast | every vehicle once, its issues listed, one marker each on the road map, a notice that is true |
| **Dashboard: settings, trips** (`settings/`, `useHaulageEfficiencyData.ts`; `sensor_settings.py`, `trip_logger.py`) | drafts and requests, memory and file; the log and the fetched history | edit, save, reset; poll, choose | what is settled is stored; no draft but the saved one changes; the trips are those of the selection |
| **Dashboard: WebGL scenes** (`lidarRenderer`, `mappingRenderer`, `mineRenderer`, `IRCameraCanvas`) | the frame asked for, visibility, context | update, observe, hide, lose and restore the context | no wake-up is lost, and nothing is drawn unseen |

`PROJECT.json` names every part with its status, and lists the hazards of the
code at the line where each bites with the properties that watch it.

## How the parts interact

    FRONT --UART--> NodeLink --evidence--> buildSafetyInput --> SafetyController
                                                |                     |
                              commands (USB) ---+              relay, last output
                                                                      |
                            USB queue / Wi-Fi task  <-- telemetry ----+
                                   |        |
                                 serial    TCP
                                   |        |
                          RedundantTelemetryReader --> LiveRuntime --> WorldStore --> dashboard
                                                       FullSimulator --^

* FRONT and MAIN share nothing but a lossy, buffering UART; either may restart.
* MAIN's `loop()` is one thread.  It samples `millis()` once per pass; command
  handlers run inside the pass and sample it again, so one pass works with two
  clock values.  The Wi-Fi task runs on the other core and shares a queue and
  five atomics with `loop()`.
* The backend is one asyncio loop; readers run in threads and may fail, stall
  and come back.  USB and Wi-Fi carry the same frames, and arrive through one
  `poll()` that puts USB first.
* The simulator runs ticks and controls under one lock without suspending.
* The dashboard is one browser thread.  Every `await`, timer, observer and animation
  frame is a place where another event may run first.  Its parts share the snapshot
  and nothing else; each hook adds its own requests to the backend.

The hard behaviour is in these joints: two clock values in one pass, unsigned
time that wraps, samples that wait on a wire, restarts that look like losses,
a session that changes between two loads of an atomic, duplicates from two
transports, an outage that replaces the whole published state, controls that
arrive between any two ticks, and in the dashboard answers that come after the
question was changed, connections that die silently, and wake-ups that are
cancelled by one event and owed by another.

## Modules and the code

**TimeUtils** – `Clock`, `elapsedMs`, `intervalElapsed`, `timeReached` of
`TimeUtils.h` with the modulus as a constant.

**SafetyController** (extends TimeUtils) – the controller object is a record, each
method an operator from the object and its input to the object it leaves
(`Evaluate`, `TriggerManualTest`, `ResetController`) and to its result
(`EvaluateOutput`).  The thresholds are the code's formulas in integers: speed in
cm/s, times in 1/100 s, distances in 1/100 cm.  The faulted-return order of
`evaluate()` is kept: a sensor-fault cut leaves the obstacle candidate alone.

**MainSafetyLoop** (extends SafetyController) – `main.cpp`.  `phase` is the position
in `setup()` and `loop()`: `poll`, where the pass samples the clock (`BeginPass`);
`commands`, where any number of handlers may run (`EstopTest`,
`EstopResetGranted`, `EstopResetRefused`) before the tick (`SafetyTick` or
`SafetyNotDue`); `telemetry` (`EndPass`).  What `buildSafetyInput()` finds is any
member of `Worlds`, chosen afresh at every call.  `AdvanceClock` moves the clock
between any two steps, `Restart` loses everything.  `obstacleHeld` and `faultHeld`
are history: how long the ticks have seen a hazard without a gap, measured from
tick to tick, so that they share nothing with the controller's candidates.

**EmergencyStop** – the abstract specification of MAIN's emergency stop, without a clock or a
sensor: a hazard seen for its persistence cuts at the look that completes it and no other
look does; only a test cuts besides; a latched cut outlasts its hazard and every later look,
until a command finds the way clear or the power fails; the motor is off exactly while a cut is
in force.  `mode` and `tested` make what happens visible: a test or a release is a step while
the stop listens for commands, a look ends the listening, and a loss of power leads to `off`.
A tick that cuts without its hazard, or a command that releases what it has not verified, is
therefore a step of nothing.  MainSafetyLoop implements it, with or without latch and relay.

**FrontLink** – the UART, `NodeLink::acceptSequence` and the evidence cache of
`cachedFrontScannerRange()`.  Time is kept as ages in one coarse unit.  A packet
carries what the code tells apart (a valid look, an invalid one, one outside the
sector, an unhealthy scanner) and, as history, the boot that sent it and the time
it has waited in the UART, neither of which MAIN can see.  `trueAge` is the age of
the retained sample on a perfect clock.

**WifiTelemetry** – `begin()`, `enqueueLine()` and the task `run()`, at one step per
access to the queue, the atomics and the socket; `discardQueuedFrames()` is a loop
of single receives.  A peer that is gone may go unnoticed, and a write to it may
report success.

**LiveRuntime** – MAIN's telemetry as the backend sees it: `_run()` with its steps
between suspensions, `_accept_packet()`, the two publishers, and
`RedundantTelemetryReader.poll()` when two sources are configured.  The world store
is the variable `world`.

**Simulator** – `_tick_once`, `apply_control_and_tick` and `set_reference_map` of the
engine, with the emergency controller, the encounter's clocks and the alert list.
Where the truck is and what its sensors see is the environment's choice in every
tick; times are ages in tick periods.

**TelemetryClient** – the effect of `useTelemetry` for a build with a backend, and that
backend: worlds are numbers in the order of publication.  A socket object is a queue
of frames with a state on each side; it breaks noticed or unnoticed, the backend
crashes and starts again, the operator hides the tab or leaves the page.  Timers are
due times that fire in any order with what else is ready.  **LiveView** is the abstract
specification: what any transport of worlds promises to the eye.  TelemetryClient
implements it under the mapping of `View` (the property `ShowsPublishedWorlds`).

**DemoPlayback** – `createDemoPlayback` and its chunk loader.  A call of `advance()` is
a record of the token it was made with and what it awaits; the cache keeps bodies as
downloaded, good or corrupt, least recently used first.  **UseTelemetry** composes the
two: `STATIC_DEMO`, fixed by the build, decides which effect runs.

**JsonKinds**, **WorldTypes**, **WorldModels**, **SnapshotGuard** – the boundary of the
dashboard as four tables: which kinds of JSON value the interfaces of `types.ts` allow
in each field, the models of the backend can write, and each guard accepts.  A
behaviour sends objects that differ from an ordinary one in a few fields, in every
interface, and the cross-field rules of the models (a fix that is old) with them.

**Console** – `App`, the navigation hook, the role session and the theme, one action
per event with its render and effects; the browser's moves change the location first
and tell the page later (`pending`).

**SensorSettings** – the hook's drafts, the requests in flight and the store, whose write
may fail between temporary file and rename.  A save snapshots its draft when it is sent.
`ChangesOnlyItsDraft` names the sensor that was answered: what an answer changes is the draft of
the sensor in its request, to the setting in its request.

**TripHistory** – `TripLogger` with its two limits, and the hook that polls it: an effect
per selection, with its abort signal, its in-flight flag and its answers, late or lost.
What the code's filters and sorts leave of a list is stated by positions in **Selection**,
which RangeField uses as well, so that it can be reasoned about without induction.

**MarkerLayers** – what the three Leaflet maps do with markers: the component's own `Map` of
those it has made (`refs`) beside those the map shows (`layers`), and the loops between them as
the code has them: make (`Added`), repaint (`Repainted`), remove (`Pruned`), and the
clean-up that empties both (`CleanedUp`).  A marker that is on the map and held by nobody, or
held and not on the map, is a state of this module; that it is never reached is the property.

**DriverView** (extends MarkerLayers) – a world arrives, and one render with its effects follows
(`Render`): the remembered hazard of `forwardHazard.ts`, banner, stop request and corridor, the
camera, and the markers of both maps.  The small map paints a marker when it makes it, the
route map repaints it.  `EffectsReplayed` is StrictMode (`main.tsx` 7-9), which cleans up after
the effects of a mounted component and runs them again with the references there are.

**FleetView** (extends MarkerLayers) – `supervisorViewModel`'s rows and exceptions, the
selection, the road map's markers and the advisory panel with the timers of its notices.  The
selection is corrected by an effect of its own (`CorrectSelection`), after a render in which
the maps have seen the old one; `Switched` is the road map made and removed under a
component that stays.

**RangeField** – the ranges of a LIVE world from the backend's accumulator
(`PublishRanges`, `ControllerReset`, `UnavailablePublished`) to the three displays that
judge them separately, with the de-duplication and the budget of
`availableSpatialPoints` and the preview request that views share.  `old` is history:
a point that has outlived an outage or a restart.

**SceneLife** – the four canvases as one module with `kind`: each has its own update,
render and observers, and the same obligation.  The mine's `settled` is the code's `moving`: a
truck's position and heading.  Its pitch and wheels are `eased`, move in the same frames and
ask for none (disagreement 6).

**Dashboard** composes the parts behind the connection.  They share no state, so a
behaviour follows one `part` with the others `Off`; their product would show
nothing more.

**MC…** modules instantiate these for TLC.  The **…Proofs** modules hold the proofs, one
for each of MainSafetyLoop, FrontLink, WifiTelemetry, LiveRuntime, Simulator and
UseTelemetry, and two for the Dashboard: **DashboardProofs** (the driver's view, settings,
trips, ranges, and the markers of every map) and **DashboardViewProofs**, which extends it
(console, canvases, fleet view, snapshots).
The faulty variants that stand before some definitions are what a plausible slip in
that code would do; each property is known to notice at least one of them.

## Runs, bounds and what they show

| Run | Checks | Size |
|---|---|---|
| `main_safety` | refinement of EmergencyStop (`ImplementsEmergencyStop`): no cut without a due hazard or a test, no release without a clear way or a reboot, and the relay never behind; the report is true (`ReportedStopIsReal`); a hazard seen for its persistence is cut (`PersistentHazardCuts`), and will be (`StandingHazardCuts`); no cut without one (`CutIsJustified`); no release without verification (`LatchReleasedOnlyWhenVerified`) | 0.42 M states |
| `front_link` | coverage rests on recent looks (`CoverageIsRecent`); a silent link loses its evidence (`SilenceEndsEvidence`); reboots are never invented (`RebootsAreReal`), and a visible one clears the evidence (`VisibleRebootClearsEvidence`) | 3.1 M states |
| `wifi_telemetry` | no frame crosses sessions (`OnlyFramesOfThisSession`), every frame is counted once (`FramesAreAccounted`), the sender recovers (`BackendReturns`) | 0.12 M states |
| `live_runtime` | with USB alone and with both sources: what is shown as live is recent (`LiveIsRecent`), a cut is withdrawn only by telemetry (`CutIsKept`), the second source's copies are rejected (`CopiesAreRejected`) | 4.8 M states |
| `simulator` | persistence cuts, only persistence cuts, the truck stands while cut, the last alert is the level | 1291 states (1.2 M transitions) |
| `use_telemetry` | refinement of LiveView (`ShowsPublishedWorlds`); a streamed world is not called CONNECTED for longer than the limits (`StreamedIsRecent`); the newest world is shown in the end (`LiveShowsTheLatest`); one driver of the demo (`OneDriver`), every frame in its order (`FramesInOrder`), for ever (`DemoKeepsPlaying`) | 0.22 M states |
| `dashboard` | one property or two for each part: `ConsoleIsItsLocation`; `GuardIsExact`; `SettledIsStored`, `OnlyItsDraft`; `TripsAreTheSelection`, `HistoryRecovers`; `HazardIsTrue`, `ClearIsVerified`, `MapsShowThePeers`; `FleetIsWhole`, `RoadMapMarksTheFleet`, `NoticesAreTrue`; `RangesAreEvidence`; `SceneIsAwake` | 0.40 M states |
| `nearest_negative`, `invalid_sample`, `live_old_frames`, `simulator_release`, `late_snapshot` | one sentence of a document each; violated | – |

**Bounds, and why they are enough.**

* `main_safety`: the clock has modulus 6, so every behaviour wraps again and again
  while hazards are timed; persistences are 2 and 3 ticks and a tick may be one
  period late (`MaxGap`), so both timers can fire on time, late, and at the same
  tick.  Speeds are standing and moving; the ranges fall in the emergency zone,
  between the zones, and beyond the warning distance.  The relay is enabled, which
  the committed build switches off: with it off ESTOP_TEST is refused and the relay
  never moves, a subset of these behaviours (the proofs cover both settings).
  The speed is nonzero although the committed build has no Hall sensors, for the
  same reason.
* `front_link`: a unit is about 500 ms: a link is stale after 1, evidence after 3,
  a node is told to have rebooted after 1, within 4 of its boot.  One reboot and
  three packets per boot suffice to put an old, a lost and a new packet on either
  side of it; packets may wait one unit, the buffer holds two.
* `wifi_telemetry`: two sessions, four lines and a queue of two (the code's is three)
  let a line straddle a reconnection while the queue is full.
* `live_runtime`: a unit is about 750 ms.  The code accepts a counter reset up to
  sequence 5; here it is 0, so that three frames per boot reach beyond it.  Cuts are
  told apart with one source and not with both, which keeps two buffers tractable.
  A source carries Wi-Fi frames only past the reset sequence, because the task's
  first connection comes at least 3 s after boot (`lastBackendAttemptMs` starts at 0).
* `simulator`: persistence of 3 periods, timestamps that advance by one or two,
  all single-field controls and one that sets a scenario and an obstacle together.
* `use_telemetry`: the stale limit is two units and the opening limit three (5 and
  8 s), the first retry one (1.2 s).  One socket object is used again, two worlds and two
  faults put a crash, a silent break or a bad frame before and after the first world.
  Three chunks of two frames and a cache for two evict a chunk in every round; five
  generations (four bumps) let old calls answer into newer ones, and one body in the
  cache may be corrupt.
* `dashboard`: every part is small enough that each of its events may meet every other:
  two history entries, two sensors with one edit and two saves, one crash; two trucks
  and three trips under limits of two and one; a held hazard of two time units in three;
  two peers that come and go together or in turn, so that one marker is made while another is
  removed or kept; three vehicles of which one is known by several sources at once; two sensors for a
  budget of two points, a deque of three, ages up to the limit and beyond; two versions
  of a picture and two observations in one report.  The worlds of `MCDashboard` are
  slices: each varies together what one property tells apart, because the product of
  all fields would only repeat verdicts that do not depend on each other.

## Disagreements with the documents

The first five are each found by a run that checks one sentence; the properties quote it.

1. **`nearest_negative`** – `PROTOCOL.md:129` says the nearest range is null when no
   positive range is available.  A *refused* ESTOP_RESET replaces `lastSafetyInput`
   but not `lastSafetyOutput` (`main.cpp:727`), and a packet built before the next
   tick carries -1, which the backend's `ge=0.0` rejects with the whole packet.
2. **`invalid_sample`** – `PROTOCOL.md:57-58` says an in-sector invalid sample clears
   the evidence.  A tick looks at the newest packet only (`main.cpp:216`); if the loop
   stalls for a node cycle, a second packet hides the invalid one.
3. **`live_old_frames`** – `ARCHITECTURE.md:66-67` says old frames are rejected.  After a
   restart of MAIN a USB frame of the new boot resets the counters, and a buffered
   Wi-Fi frame of the previous boot then counts as an advance (`live_runtime.py:443`).
4. **`simulator_release`** – `ARCHITECTURE.md:123` says the simulated latch holds until
   an explicit scenario change or reset.  Switching the obstacle off, and the HAUL
   encounter's own clock, release it (`engine.py:366-372, 518-536`).
5. **`late_snapshot`** – `IMPLEMENTATION_STATUS.md:365-366` says stale or disconnected data
   cannot appear current.  An answer of `GET /api/world` that comes after the stale timer
   has fired sets CONNECTED and arms no timer (`useTelemetry.ts:80-99`); on a socket that
   stays open and quiet the label then stays for ever.  For a world that the *stream*
   brought the same property holds (`StreamedIsRecent`).
6. **A pitch that stops on its way** (read in the code while modelling it; no run of its own) –
   `docs/haul-simulation.md:180` says the mine's view sleeps "once poses and camera
   controls settle".  `mineRenderer.ts` asks for another frame while a position or a heading moved (442,
   455, 557) and not for the pitch it eases with every frame (478).  A truck that is set down
   more than 6 m away has its position and heading at once and its pitch by little more than
   half; without new telemetry no frame comes for the rest.  `SceneIsAwake` is stated without the
   pitch, and `SceneLife.RenderMine` leaves `eased` behind as the code does.

## Fairness

* `MainSafetyLoop`: weak fairness of setup, of each step of a pass and of the clock:
  the Arduino runtime calls `loop()` for ever and `millis()` is a hardware timer.  The
  handlers and the restart are not fair.  `SafetyTick` and `SafetyNotDue` end the
  `commands` phase whatever handlers run, because the parser reads a bounded number
  of bytes per pass.
* `WifiTelemetry`: weak fairness of the task (FreeRTOS schedules it; it blocks only on
  timeouts), of the clock, and of the stack's discovery of a dead peer.  The network
  is not fair: `BackendReturns` asks for a reconnection only while it stays up.
* `TelemetryClient`: weak fairness of each socket's next event, of the two timers and
  of the clock (the browser's event loop runs what is due), and of the backend's restart
  (its supervisor).  Faults, visibility and the operator are not fair:
  `LiveShowsTheLatest` asks only for what holds once the operator stays.
* `DemoPlayback`: weak fairness of the event loop; strong fairness of an answer that can
  come, because a static host that is asked again and again answers some time.  It does
  not decode a corrupt body: `DemoKeepsPlaying` excludes one that stays in the cache.
* `TripHistory`: weak fairness of the poll, of the backend's reply and of its arrival.
  A refusal is not fair, and refusals and changes of selection are finitely many.  The code has
  no timeout of its own: that every fetch ends, answered or refused, is the browser's and the
  backend's, and `HistoryRecovers` assumes it.
* The other modules state safety only, and assume no fairness.

## Proofs

`MainSafetyLoopProofs` proves, for every clock modulus, every threshold parameter
that the named assumptions allow, every set of speeds and ranges, any travel
direction, with and without relay and latch:

| Theorem | States |
|---|---|
| `TypeCorrect` | `TypeOK` |
| `InductiveInvariant` | `IInv` |
| `LoopImplementsEmergencyStop` | `ImplementsEmergencyStop`: MainSafetyLoop implements EmergencyStop |
| `ReportIsReal` | `ReportedStopIsReal` |
| `PersistentHazardIsCut` | `PersistentHazardCuts` |
| `CutsAreJustified` | `CutIsJustified` |
| `LatchIsReleasedVerified` | `LatchReleasedOnlyWhenVerified` |
| `ZonesAreNested` | emergency ≤ critical ≤ warning distance at every speed |

**The argument.**  `PersistentHazardCuts` is not inductive: that `obstacleHeld` is below
its persistence says nothing about the controller's candidate, which is an absolute
time on a clock that wraps.  `IInv` adds `TimersAgree`: while the motor is free, a
candidate is active exactly when its hazard has been seen at the last tick, the
history equals the unsigned age of the candidate *at the last tick*, and that age
is below the persistence.  For a tick to preserve it two ages must add up, which
unsigned subtraction guarantees only below the modulus (`AgesAdd`); `PassIsTimely`
bounds the gap and relates the pass's older clock value to the present one, and
`ClockAssumption` keeps persistence plus gap below the modulus.  `TimerStep` is the
tick that does not fire, `TimerFires` the one that does.  `LatchConsistent` and
`SetupIsFresh` close the commands and the restart: a granted reset evaluates a
harmless input (`SlowIsHarmless`, which needs `ParametersOrdered`: a speed that may be
reset does not count as moving).

The refinement of EmergencyStop maps a hazard that is *due* to a history at its persistence,
*clear* to an input that `canReset()` would accept, and the stop to the controller's cut and
latch.  `TickSettles` is the tick: it cuts a free motor if and only if a hazard is due, the
one direction by `TimersAgree` after the step and the other by `TickCuts`; it never opens a
latch; and only a build that latches closes one.  The beginning of a pass is `Listen`, a tick is
`Look`, a pass without one `Pass`; ESTOP_TEST and a granted ESTOP_RESET are `Test` and `Release`,
steps while listening; a refused one is `Refuse`, which shows that it changes nothing but the
input.  `Setup` and the loss of power are `PowerUp` and `PowerCycle`; the clock and the end of a
pass stutter.

`WifiTelemetryProofs` proves, for every queue depth, reconnection period and number of
lines and sessions:

| Theorem | States |
|---|---|
| `TypeCorrect` | `TypeOK` |
| `InductiveInvariant` | `IInv` |
| `FramesStayInTheirSession` | `OnlyFramesOfThisSession` |
| `CountersAreTrue` | `FramesAreAccounted` |

The generation counts sessions, except for one that `run()` has opened and not yet
announced (`GenerationFollows`).  A frame carries a generation no younger than the
session its line was offered in (`Honest`), because `enqueueLine()` reads the
generation *before* the connected flag and never again.  A frame that passes
the comparison therefore belongs to the present session: both inequalities collapse.
The proof does not use the discards before a connection, so it is the comparison
in `run()`, not the emptying of the queue, that keeps sessions apart.

`UseTelemetryProofs` proves, for any sockets, delays, worlds, faults and messages on
their way, and for any recording, cache and number of pauses:

| Theorem | States |
|---|---|
| `WiresAreInOrder` | `WireInv` |
| `ImplementsLiveView` | `ShowsPublishedWorlds`: TelemetryClient implements LiveView |
| `StreamIsRecent` | `StreamedIsRecent` |
| `DemoInvariant` | `DriverIsOne`, `FrameIsPlace`, `CallsLackFrames` |
| `DemoHasOneDriver` | `OneDriver` |
| `DemoIsInOrder` | `FramesInOrder` |

A step that shows a world takes it from a wire, and nothing on the page says that it is
no older than the last one.  `WireInv` does: the worlds on a wire were published and
are in order, and on the wire of the socket in use none is older than the newest that
the stream has shown.  `connect()` makes another socket the one in use, which keeps the
invariant because a closed socket has an empty wire and a new one is sent only what is
published from then on.  With `WireInv` every step is a step of LiveView or a stutter
(`StepViews`); the snapshot of the mounting is the only other source, and LiveView lets it
come once.  Recency rests on `TimerInv`: while a streamed world is labelled CONNECTED, a
timer runs for the socket in use, and the time gone plus the time left is at most the
stale limit with no socket, one opening limit more while one connects, and two once
it is open.

The demo's two properties rest on each other.  A call of the present generation is the
only driver (`DriverIsOne`), because `setActive` starts a generation that no call
has yet and the calls of older ones are stopped by their token; a paused demo has none.
The frame on the screen determines what is held, what is shown next and which chunk
follows (`FrameIsPlace`).  That is not enough for the order: a chunk that came while
held frames were left would skip them.  `CallsLackFrames` excludes it: a call that drives
was made when nothing held was left to show, and nobody shows anything while it waits.

`FrontLinkProofs` proves, for every limit, number of boots, transit time and capacity of
the UART that `FrontLinkAssumption` allows:

| Theorem | States |
|---|---|
| `TypeCorrect` | `TypeOK` |
| `InductiveInvariant` | `IInv` |
| `SilenceEnds` | `SilenceEndsEvidence` |
| `RebootsAreCountedTruly` | `RebootsAreReal` |
| `CoverageRestsOnARecentLook` | `CoverageIsRecent` |
| `VisibleRebootClears` | `VisibleRebootClearsEvidence` |

MAIN sees numbers and clocks that start over with every boot of the node.  `IInv` relates
them to the boots it cannot see: what is on the wire was sent, in order, after the packet
accepted last (`WireInOrder`), so that every reboot counted lies between two boots
(`RebootsAreCounted`); evidence that has seen every counted reboot is of the boot of the
last packet or of a smaller sequence, and its age on MAIN's clocks lags its true age by at
most the way through the UART (`GoodEvidence`).  The packet that comes after a silence
looks outside the sector as easily as inside: it is the tick's own comparison, once in
every gap, that ends the evidence (`EvidenceIsRecent`).

`LiveRuntimeProofs` proves, for one source or two, any buffers, counters and delays:

| Theorem | States |
|---|---|
| `TypeCorrect` | `TypeOK` |
| `InductiveInvariant` | `IInv` |
| `LiveTelemetryIsRecent` | `LiveIsRecent` |
| `CutsAreKept` | `CutIsKept` |
| `CopiesAreNotShown` | `CopiesAreRejected` |

`LiveIsRecent` depends on where `_run()` stands.  `LiveSampleIsYoung` says that until a pass
has accepted a frame the sample shown as live is no older than the last pass let it become
plus the time of this one, and once it has, no older than this one.  The bound is
`NoticedAt + MaxPassGap`: `NoticedAt` is the timeout, unless the configuration makes a
pass longer than it (`config.py` 25-26 bounds them separately), in which case the end of a
pass is when an outage is noticed.

`SimulatorProofs` proves, for any persistence, jumps of the timestamp and control calls:

| Theorem | States |
|---|---|
| `TypeCorrect` | `TypeOK` |
| `InductiveInvariant` | `IInv` |
| `PersistentObstacleIsCut` | `PersistentObstacleCuts` |
| `CutsAreJustified` | `CutIsJustified` |
| `TruckIsHeld` | `TruckStandsWhileCut` |
| `AlertsAreTrue` | `LastAlertIsTheLevel` |

Every control call and every piece of a tick is a function from simulator to simulator;
each is shown to *keep* the controller (`Keeps`: candidate and latch as before, or
released), so that a control that sets several fields composes them without a case of its
own.  The history agrees with a controller that has not been released since the last tick
(`HistoryAgrees`).

`DashboardProofs` and `DashboardViewProofs` prove, under `DashboardSpec` (its weak fairness
is not used), one invariant for each part:

| Theorem | States |
|---|---|
| `DriverInvariant` | `DriverInv` |
| `HazardsAreTrue`, `ReassuranceIsVerified`, `MapsAreOfNow` | `HazardIsTrue`, `ClearIsVerified`, `MapsShowThePeers` |
| `SettingsInvariant` | `SettingsInv` |
| `SettledIsKept`, `OneDraftChanges` | `SettledIsStored`, `OnlyItsDraft` |
| `ConsoleInvariant` | `ConsoleInv` |
| `ConsoleKeepsItsLocation` | `ConsoleIsItsLocation` |
| `SceneInvariant` | `SceneInv` |
| `NoWakeUpIsLost` | `SceneIsAwake` |
| `FleetInvariant` | `FleetInv` |
| `FleetIsListed`, `RoadMapIsOfNow`, `NoticesAreOfOwnPosts` | `FleetIsWhole`, `RoadMapMarksTheFleet`, `NoticesAreTrue` |
| `TripsInvariant` | `TripsInv` |
| `TripsShownAreSelected` | `TripsAreTheSelection` |
| `RangesInvariant` | `RangesAreTrusted` |
| `DisplaysAlertAlike` | `AlertsAgree`, the first part of `RangesAreEvidence` |
| `EvidenceInvariant` | `EvidenceInv` |
| `RangesShowEvidence` | `RangesAreEvidence` |
| `WhatIsPublishedPasses` | every object the models can hold is accepted and of its declared type |
| `SnapshotInvariant` | `SnapshotInv` |
| `SnapshotsPassAsDeclared` | `GuardIsExact` |

* *Driver's view.*  What `forward` remembers is what one selection of the present world would
  keep (`Remembered`); the verdicts follow from a world that has its type.
* *Markers.*  Of each vehicle at most one marker is on a map, held for it, and every one that is
  on the map is held (`OneEach`): the making keeps it (`AddedGivesOneEach`), and the removing
  then leaves exactly the vehicles shown (`PrunedKeepsOneEach`, `ReconciledGivesOneEach`).  What is
  repainted is of the present world whatever it was before (`PaintedIsOfNow`).  A clean-up leaves
  nothing on the map and nothing held, which is where the loops may start again.
* *Settings.*  `SettledStays` needs to know that no save of a settled sensor is under way,
  which rests on a save that was alone when it was sent having stayed so (`AloneIsAlone`)
  and on what the store keeps when it ends (`SavedIsStored`): in memory while the backend
  runs, in the file for ever.
* *Console.*  A reload reads the location and the storage, which change at different times:
  `LoginIsForgotten` and `ThemeIsKept` say which of the two it will find.
* *Canvases.*  `NoneIsLost`: a picture that changed, is not settled or previews a scan, and
  may be drawn, has asked for a frame.  The mine's canvas is told by an observer that
  reports late, so its invariant speaks of the last report still to come (`MineIsTold`).
* *Fleet.*  That rows are counted right needs the fleet to be finite and each vehicle to have
  one row (`OneRowEach`).  The road map's markers use the lemmas on markers of DashboardProofs.  Of the POSTs under way at most one is of the
  panel on the screen (`PanelIsTrue`), because one that is gone disowns its own.
* *Trips.*  The log is in the order of its numbers (`LogIsInOrder`) although evictions take
  trips out of its middle, and every answer under way or held is newest first with no
  trip twice (`PanelIsTyped`).  The panel's own selection then keeps each trip once,
  and what it drops of the answer is older than all it keeps.
* *Ranges.*  A range other than none is of a healthy component, in every world published.
  No point that the accumulator or the world holds has outlived an interruption
  (`PointsAreFresh`).  That no sensor is left without a point is a count: taking turns is
  a strict order of the cells (`TakenInAnOrder`), the first turns of all sensors come
  before any second one, and there are at most `MaxRendered` sensors.  A view waits only
  while it listens to a request under way or shows that it failed (`WaitIsKept`).
* *Finite sets in order.*  Both rest on two lemmas that take the place of an induction over
  sequences: in a finite set with a strict order the numbers of predecessors are exactly
  0 .. n - 1 (`RanksAreInOrder`), hence `InOrder` returns each selected element once and
  in the order of its key (`PositionsInOrder`, `SelectedInOrder`).
* *Snapshots.*  The run changes two fields of an ordinary object; `WhatIsPublishedPasses`
  says it of any number of them at once.  What relates several fields is the validators'
  doing (a fix has its position and its age) and is proved of them
  (`ValidatedIsPublished`); what concerns one field is a row of the tables
  (`SnapshotsAssumption`).  A refusal closes the socket and shows nothing, so what is on
  the page was always judged (`SnapshotIsJudged`).

**Assumptions.**  `ClockModulusAssumption`, `SafetyParametersAssumption`,
`ParametersOrdered` (as in `SafetyConfig.h`), `LoopAssumption`, and `ClockAssumption`:
two ticks are never a whole wrap of the clock (49 days) less a persistence apart.
TLC evaluates all of them in `main_safety`.  The Wi-Fi proofs assume
`WifiTelemetryAssumption`: the bounds are natural numbers and the queue holds a frame.
Those about the page assume `TelemetryClientAssumption`: the delays are positive and in
the code's order, and no socket is the `null` that stands for none.  Those about the demo assume
`DemoPlaybackAssumption`: the recording has chunks and frames.  `FrontLinkAssumption` and
`LiveRuntimeAssumption` keep the bounded counters below half of their modulus, so that a
comparison of counters is one of numbers.  `SimulatorAssumption`: the persistence is
positive.  Of the Dashboard's: `DriverAssumption` (the worlds have their type, the hold is
positive), `SceneAssumption`, `RangesAssumption` (distances lie in the sensor's range, and
the points drawn are at least as many as the sensors), `TripsAssumption` (trucks are
finitely many, the trips loaded at startup are numbered in order) and
`FleetAssumption`: vehicles are finitely many, and a backend that lists the primary as a
peer has published its pose (`PublishedFleets`; `engine.py` 747-756, `live_runtime.py`
548-556 and 707-715) – without it the supervisor's list would show it as a peer only.
`SnapshotsAssumption` has no constants: it says, field by field, that the literal tables of
models, guards, defaults and declared types agree (`TablesAgree`).  The tables are built
with TLC's `@@`, which the provers do not know, so TLC evaluates what they need of them;
how objects, validators, guard and connection work together is proved from it.
TLC evaluates each of these assumptions in the run of its module.

**Only model-checked.**  The liveness properties (`StandingHazardCuts`, `BackendReturns`,
`LiveShowsTheLatest`, `DemoKeepsPlaying`, `HistoryRecovers`), which are beyond
the prover.  Every invariant and every action property of a passing run is stated by a
theorem, and so are the refinements of LiveView and of EmergencyStop.

The `TypeOK`s are proved and not run: what they say of a small instance the other
invariants of their runs presuppose.

## What is not modelled

* Floats: thresholds are integers in small units; rounding of the code's `float`
  arithmetic is not examined.
* Conversion and layout: parsing, JSON, units, LoRa encoding.
* Numeric estimation: the occupancy grid, localisation fusion, ray casting, camera
  enhancement, kinematics.  They are the environment's choice where they matter.
* `stop()` and cancellation in the LIVE runtime, and an exception that ends its task.
* MIDDLE's ranges (they feed no safety decision), servo motion, address assignment.
* The dashboard's geometry: meshes, terrain, roads, projections and SVG plans
  (`twin/mine*`, `planLayout`, `truckMesh`, most of `mappingFrame` and `lidarFrame`) are
  functions of the world in floats, without state of their own.
* What no page renders: `HaulageAnalyticsTab`, `SimulationControls`,
  `VehicleDetailDrawer`, `NavigationMap`, `HaulScene`, `Vehicle3DTruck` are imported by
  each other and by tests only.
* The zeroing of the IMU: no code of the backend makes it available, so its button
  stays disabled.  The guidance card of the driver: a poll whose last answer stays.
* The uploader of camera images.

Some hazards are known and watched by no property, or by one that covers them in part; the notes
in `PROJECT.json` say why.  A hazard that keeps changing between an obstacle and a fault
restarts both timers and is never cut (`SafetyController.cpp` 138-146): `StandingHazardCuts`
speaks of one that stays.  The timer of one advisory's notice may take the next one away early
(`V2XPanel.tsx:102`).  A FRONT node that reboots twice is covered by the theorems alone, the run
having one reboot.  Beside them: a half line after a short write (`WifiTelemetry.cpp:138`), the
STATUS packet with a younger clock than its pass (`main.cpp:698`), a rebooted node that
is heard late (`NodeLink.cpp:100`), the reader that a cancelled `start()` leaves open
(`live_runtime.py:265`), the replaced client's handler (`wifi_listener.py:112`), the rear
scanner's dropped measurement (`RearScanner.cpp:253`) and the enhancement thread that
ends (`camera/stream.py:349`).

## Plan

Done: the safety core, FrontLink, WifiTelemetry, LiveRuntime, Simulator and the dashboard
with its connection, each with its proofs.  Next, in order of what matters most:

1. `WifiListener`: handler threads, replacement of clients, the bounded deque and
   `close()`, composed with the redundant reader; abstract specification: one ordered
   stream of whole frames per session.
2. `RearScanner`: phases against SCAN, CENTER and the retry timer; with it the ring
   buffer of `SerialTxQueue`.
3. `WorldStore` with its clients: one encoding per revision; the guidance poll.
4. `V2XManager` and the fleet: cooldown and expiry; queueing at the shovel.
