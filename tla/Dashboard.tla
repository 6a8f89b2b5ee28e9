------------------------------ MODULE Dashboard ------------------------------
(***************************************************************************)
(* The dashboard behind useTelemetry: the console around its views, the    *)
(* guard its snapshots pass, the supervisor's and the driver's views, the  *)
(* displays of the ranges, the sensor settings, the trip history and the   *)
(* pictures drawn with WebGL.                                              *)
(*                                                                         *)
(* These parts share no state: each reads the world of the snapshot and    *)
(* keeps what it adds to itself (useTelemetry, useSensorSettings and       *)
(* useHaulageEfficiencyData are hooks of their own).  Running all of them  *)
(* together would show nothing that running each alone does not, so a      *)
(* behaviour follows one part, and the variables of the others are Off.    *)
(***************************************************************************)
EXTENDS Naturals, FiniteSets, Sequences

CONSTANTS
  MaxEntries,                                            \* Console
  Sensors, MaxEdits, MaxSaves, MaxCrashes,               \* SensorSettings
  Trucks, Limits, MaxHistory, KeptPerTruck,              \* TripHistory
  StartupTrips, MaxTrips, MaxChanges, MaxFailures,
  Peers, Worlds, Hold, MaxAt,                            \* DriverView
  Vehicles, Primary, Fleets, MaxSends,                   \* FleetView
  RangeSensors, Distances, MaxRange, AlertDistance,      \* RangeField
  VisualRange, MaxPoints, MaxPublished, MaxRendered, PointAge,
  Versions, MaxObserved                                  \* SceneLife

VARIABLES
  part,
  demo, storage, prefersDark, entries, entry, pending, role, view, stored, theme,
  storedTheme, failed,                                   \* Console
  sent, received, shown, connected,                      \* SnapshotGuard
  demoBuild, drafts, link, load, saves, memory, file, serving, edits, crashes,
  settled,                                               \* SensorSettings
  recordedDemo, log, completed, trucks, mode, chosen, limit, data, effect, late,
  changes, failures,                                     \* TripHistory
  connection, world, at, forward, extended, awareness, stream, minimap, modal,
                                                         \* DriverView
  feed, fleet, section, selected, chart, panel, sends, timers,
                                                         \* FleetView
  health, ranges, deque, points, linked, request, spatialView,
                                                         \* RangeField
  kind, page, scene                                      \* SceneLife

Console   == INSTANCE Console WITH at <- entry
Snapshots == INSTANCE SnapshotGuard
Settings  == INSTANCE SensorSettings
Trips     == INSTANCE TripHistory WITH fleet <- trucks
Driver    == INSTANCE DriverView
Fleet     == INSTANCE FleetView
Ranges    == INSTANCE RangeField
Scene     == INSTANCE SceneLife WITH MaxEntries <- MaxObserved

ASSUME ConsoleAssumption  == MaxEntries \in Nat \ {0}
ASSUME SnapshotsAssumption == Snapshots!TablesAgree
ASSUME SettingsAssumption == {MaxEdits, MaxSaves, MaxCrashes} \subseteq Nat
ASSUME TripsAssumption    ==
  /\ {MaxHistory, KeptPerTruck, MaxTrips, MaxChanges, MaxFailures} \cup Limits \subseteq Nat
  /\ Limits # {} /\ IsFiniteSet(Trucks)
  /\ StartupTrips \in Seq(Trips!TripType)
  /\ \A i \in DOMAIN StartupTrips : StartupTrips[i].id = i
ASSUME DriverAssumption   ==
  Worlds \subseteq Driver!WorldType /\ Hold \in Nat \ {0} /\ MaxAt \in Nat
ASSUME FleetAssumption    ==
  Primary \in Vehicles /\ Vehicles \subseteq Nat \ {0} /\ IsFiniteSet(Vehicles)
    /\ Fleets \subseteq Fleet!PublishedFleets /\ MaxSends \in Nat
ASSUME RangesAssumption   == Ranges!RangesAssumption
ASSUME SceneAssumption    == {Versions, MaxObserved} \subseteq Nat \ {0}

consoleVars  == <<demo, storage, prefersDark, entries, entry, pending, role, view, stored,
                  theme, storedTheme, failed>>
snapshotVars == <<sent, received, shown, connected>>
settingsVars == <<demoBuild, drafts, link, load, saves, memory, file, serving, edits,
                  crashes, settled>>
tripVars     == <<recordedDemo, log, completed, trucks, mode, chosen, limit, data, effect,
                  late, changes, failures>>
driverVars   == <<connection, world, at, forward, extended, awareness, stream, minimap,
                  modal>>
fleetVars    == <<feed, fleet, section, selected, chart, panel, sends, timers>>
rangeVars    == <<health, ranges, deque, points, linked, request, spatialView>>
sceneVars    == <<kind, page, scene>>

dashboardVars == <<part, consoleVars, snapshotVars, settingsVars, tripVars, driverVars,
                   fleetVars, rangeVars, sceneVars>>

-----------------------------------------------------------------------------
Off == "off"

ConsoleOff ==
  /\ demo = Off /\ storage = Off /\ prefersDark = Off /\ entries = Off /\ entry = Off
  /\ pending = Off /\ role = Off /\ view = Off /\ stored = Off /\ theme = Off
  /\ storedTheme = Off /\ failed = Off
SnapshotsOff == sent = Off /\ received = Off /\ shown = Off /\ connected = Off
SettingsOff ==
  /\ demoBuild = Off /\ drafts = Off /\ link = Off /\ load = Off /\ saves = Off
  /\ memory = Off /\ file = Off /\ serving = Off /\ edits = Off /\ crashes = Off
  /\ settled = Off
TripsOff ==
  /\ recordedDemo = Off /\ log = Off /\ completed = Off /\ trucks = Off /\ mode = Off
  /\ chosen = Off /\ limit = Off /\ data = Off /\ effect = Off /\ late = Off
  /\ changes = Off /\ failures = Off
DriverOff ==
  /\ connection = Off /\ world = Off /\ at = Off /\ forward = Off /\ extended = Off
  /\ awareness = Off /\ stream = Off /\ minimap = Off /\ modal = Off
FleetOff ==
  /\ feed = Off /\ fleet = Off /\ section = Off /\ selected = Off /\ chart = Off
  /\ panel = Off /\ sends = Off /\ timers = Off
RangesOff ==
  /\ health = Off /\ ranges = Off /\ deque = Off /\ points = Off /\ linked = Off
  /\ request = Off /\ spatialView = Off
SceneOff == kind = Off /\ page = Off /\ scene = Off

DashboardInit ==
  /\ part \in {"console", "snapshots", "settings", "trips", "driver", "fleet", "ranges", "scene"}
  /\ IF part = "console"   THEN Console!ConsoleInit    ELSE ConsoleOff
  /\ IF part = "snapshots" THEN Snapshots!Init         ELSE SnapshotsOff
  /\ IF part = "settings"  THEN Settings!SettingsInit  ELSE SettingsOff
  /\ IF part = "trips"     THEN Trips!TripsInit        ELSE TripsOff
  /\ IF part = "driver"    THEN Driver!DriverInit      ELSE DriverOff
  /\ IF part = "fleet"     THEN Fleet!FleetInit        ELSE FleetOff
  /\ IF part = "ranges"    THEN Ranges!RangesInit      ELSE RangesOff
  /\ IF part = "scene"     THEN Scene!SceneInit        ELSE SceneOff

OthersUnchanged ==
  /\ UNCHANGED part
  /\ part # "console"   => UNCHANGED consoleVars
  /\ part # "snapshots" => UNCHANGED snapshotVars
  /\ part # "settings"  => UNCHANGED settingsVars
  /\ part # "trips"     => UNCHANGED tripVars
  /\ part # "driver"    => UNCHANGED driverVars
  /\ part # "fleet"     => UNCHANGED fleetVars
  /\ part # "ranges"    => UNCHANGED rangeVars
  /\ part # "scene"     => UNCHANGED sceneVars

DashboardNext ==
  /\ \/ part = "console"   /\ Console!ConsoleNext
     \/ part = "snapshots" /\ Snapshots!Next
     \/ part = "settings"  /\ Settings!SettingsNext
     \/ part = "trips"     /\ Trips!TripsNext
     \/ part = "driver"    /\ Driver!DriverNext
     \/ part = "fleet"     /\ Fleet!FleetNext
     \/ part = "ranges"    /\ Ranges!RangesNext
     \/ part = "scene"     /\ Scene!SceneNext
  /\ OthersUnchanged

DashboardSpec ==
  /\ DashboardInit
  /\ [][DashboardNext]_dashboardVars
  /\ WF_tripVars(part = "trips" /\ Trips!Fetch)     \* TripsFairness
  /\ WF_tripVars(part = "trips" /\ Trips!Reply)
  /\ WF_tripVars(part = "trips" /\ Trips!Arrives)

-----------------------------------------------------------------------------
(* The properties of the parts, each stated where its module states it.    *)

\* A reload brings back the same console, and a role sees only its views (App.tsx).
ConsoleIsItsLocation ==
  part = "console" => Console!ReloadKeepsTheConsole /\ Console!RoleSeesItsViews

\* No snapshot the backend publishes is refused, and what is shown has the
\* types the page was compiled against (worldStateSnapshot.ts, types.ts).
GuardIsExact ==
  part = "snapshots" => Snapshots!PublishedIsShown /\ Snapshots!ShownIsDeclared

\* What the page calls saved is what the backend runs with (useSensorSettings.ts).
SettledIsStored == part = "settings" => Settings!SettledIsStored

\* The answer to a save is taken for the sensor it is about, and for no other (saveSensor).
OnlyItsDraft == [][part = "settings" => Settings!ChangesOnlyItsDraft]_settingsVars

\* The trips shown are those of the truck and the window chosen (HaulEfficiencyPanel.tsx).
TripsAreTheSelection == part = "trips" => Trips!TripsAreTheSelection

\* A panel whose request fails or is superseded comes to show its history
\* again (useHaulageEfficiencyData.ts).
HistoryRecovers == <>[](part = "trips" => Trips!HistoryIsShown)

\* A hazard ahead is one the world has or had a moment ago (forwardHazard.ts).
HazardIsTrue == part = "driver" => Driver!HazardIsTrue

\* The driver reads CLEAR only of a corridor that was verified (DriverDashboard.tsx).
ClearIsVerified == part = "driver" => Driver!ClearIsVerified

\* The maps of the driver's view show the peers of now (CampusMinimap.tsx).
MapsShowThePeers == part = "driver" => Driver!MapsShowThePeers

\* Every vehicle is listed once, and what is wrong is an exception (supervisorViewModel.ts).
FleetIsWhole == part = "fleet" => Fleet!FleetIsWhole

\* The road map marks the vehicles of now, and the one inspected (TwinMap.tsx).
RoadMapMarksTheFleet == part = "fleet" => Fleet!RoadMapMarksTheFleet

\* The advisory panel claims what happened (V2XPanel.tsx).
NoticesAreTrue == part = "fleet" => Fleet!NoticesAreTrue

\* The displays of the ranges agree, and show what was measured
\* (ProximityWidget.tsx, spatialPoints.ts, PointCloudMapping.tsx).
RangesAreEvidence == part = "ranges" => Ranges!RangesAreEvidence

\* A picture with something to draw has a frame asked for (lidarRenderer.ts and others).
SceneIsAwake == part = "scene" => Scene!SceneIsAwake
==============================================================================
