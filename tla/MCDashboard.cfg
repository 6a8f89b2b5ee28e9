SPECIFICATION DashboardSpec
CONSTANTS
  MaxEntries = 2
  Sensors <- SensorIds
  MaxEdits = 1
  MaxSaves = 2
  MaxCrashes = 1
  Trucks <- TruckIds
  Limits = {1, 2}
  StartupTrips <- Startup
  MaxHistory = 2
  KeptPerTruck = 1
  MaxTrips = 3
  MaxChanges = 2
  MaxFailures = 1
  Peers = {1, 2}
  Worlds <- MCWorlds
  Hold = 2
  MaxAt = 2
  Vehicles = {1, 2, 3}
  Primary = 1
  Fleets <- MCFleets
  MaxSends = 2
  RangeSensors <- MCRangeSensors
  Distances <- MCDistances
  MaxRange = 3
  AlertDistance = 1
  VisualRange = 2
  MaxPoints = 3
  MaxPublished = 3
  MaxRendered = 2
  PointAge = 1
  Versions = 2
  MaxObserved = 2
INVARIANTS
  ConsoleIsItsLocation
  GuardIsExact
  SettledIsStored
  TripsAreTheSelection
  HazardIsTrue
  ClearIsVerified
  MapsShowThePeers
  FleetIsWhole
  RoadMapMarksTheFleet
  NoticesAreTrue
  RangesAreEvidence
  SceneIsAwake
PROPERTIES
  OnlyItsDraft
  HistoryRecovers
CHECK_DEADLOCK FALSE
