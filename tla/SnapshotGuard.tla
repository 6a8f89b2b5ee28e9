---------------------------- MODULE SnapshotGuard ----------------------------
(***************************************************************************)
(* frontend/src/state/worldStateSnapshot.ts between what a publisher sends *)
(* and what the page shows.  A snapshot is judged one object at a time: a  *)
(* behaviour sends objects that differ from an ordinary one in a few       *)
(* fields, the guard accepts or refuses each, and a refusal closes the     *)
(* socket, which useTelemetry opens again.                                 *)
(***************************************************************************)
EXTENDS WorldTypes

Models == INSTANCE WorldModels

\* A slip: typeof alone lets an overflowing literal through.
FiniteNumberTypeof == Finite \cup {"infinite"}

FiniteNumber == Finite
AnyList      == List

DATA_MODES == {"LIVE", "SIMULATED", "REPLAY"}
VISIBILITY_STATES == {"GOOD", "MODERATE", "LOW", "VERY_LOW"}
MAP_FEATURE_TYPES ==
  {"TERRAIN", "ROAD", "CENTERLINE", "BERM", "HAZARD_ZONE", "ROUTE", "INTERSECTION",
   "STATIC_OBSTACLE", "SPEED_ZONE", "START", "DESTINATION"}
SIMULATION_SCENARIOS ==
  {"HAUL", "NORMAL", "FOG", "OBSTACLE", "EMERGENCY", "SCENARIO_1_DENSE_FOG",
   "SCENARIO_2_VEHICLE_AHEAD", "SCENARIO_3_OPPOSING_VEHICLE", "SCENARIO_4_STATIC_OBSTACLE",
   "SCENARIO_5_ROAD_CLOSURE_REROUTE", "SCENARIO_6_PAYLOAD_ROUTING",
   "SCENARIO_7_FLEET_MONITORING", "SCENARIO_8_HAULAGE_ANALYTICS"}

(***************************************************************************)
(* The guard's own table: the fields it looks at, and what it lets pass.   *)
(* A plain string passes with any content, an array when each element does.*)
(***************************************************************************)
MapGuards == [
  Point2D |-> Each(FiniteNumber, {"x_m", "y_m"}),
  MapFeature |->
    Each(Text, {"feature_id", "label"}) @@ Each(MAP_FEATURE_TYPES, {"feature_type"})
      @@ Each({"POINT", "POLYLINE", "POLYGON"}, {"geometry_type"})
      @@ Each({"list"}, {"points"}) @@ Each(Object, {"properties"}),
  VehiclePose |->
    Each(Text, {"vehicle_id"}) @@ Each(DATA_MODES, {"mode"})
      @@ Each(FiniteNumber, {"timestamp_ms", "x_m", "y_m", "heading_deg", "speed_mps",
                             "position_confidence"})]

DeviceGuards == [
  GpsTelemetry |->
    Each(Bool, {"fix"}) @@ Each({"finite"}, {"sats", "bytes"})
      @@ Each(Nullable({"finite"}), {"lat", "lon"})
      @@ Each(Nullable(FiniteNumber), {"alt_m", "speed_mps", "hdop", "age"}),
  LoadTelemetry |->
    Each(Bool, {"ready", "tared", "taring", "calibrated"})
      @@ Each(FiniteNumber, {"zero_offset"})
      @@ Each(Nullable(FiniteNumber), {"raw", "net_raw", "kg", "age"}),
  VehicleTelemetry |->
    Each({"DUMPER_01", "DUMPER_02"}, {"vehicle_id"}) @@ Each(FiniteNumber, {"received_at_ms"})
      @@ Each(Bool, {"online"}) @@ Each(Object, {"gps"}) @@ Each(Nullable(Object), {"load"}),
  RangeReading |->
    Each(Text, {"sensor_id"}) @@ Each(Bool, {"is_valid"}) @@ Each(DATA_MODES, {"mode"})
      @@ Each(FiniteNumber, {"timestamp_ms", "angle_deg", "range_m", "quality",
                             "max_range_m"}),
  SensorHealth |->
    Each(Text, {"sensor_id"}) @@ Each(Nullable(Text), {"detail"})
      @@ Each({"HEALTHY", "DEGRADED", "STALE", "OFFLINE"}, {"status"})
      @@ Each(FiniteNumber, {"last_update_ms", "confidence"})]

SensorGuards == [
  CameraState |->
    Each(Object, {"metrics"}) @@ Each(DATA_MODES, {"mode"})
      @@ Each(Bool, {"raw_available", "enhancement_available", "ir_available"})
      @@ Each(Text, {"stream_status", "enhancement_status", "ir_status"})
      @@ Each(Nullable(Text), {"raw_frame_id", "enhanced_frame_id", "stream_detail",
                               "enhancement_detail", "enhancement_model",
                               "enhancement_device", "enhancement_precision", "ir_frame_id",
                               "ir_detail", "ir_model", "ir_device", "ir_precision"})
      @@ Each(Nullable(FiniteNumber), {"visibility_score", "width_px", "height_px",
                                       "enhancement_latency_ms", "ir_latency_ms"})
      @@ Each(Nullable(VISIBILITY_STATES), {"visibility_state"})
      @@ Each(FiniteNumber, {"timestamp_ms", "measured_fps", "enhancement_fps",
                             "enhancement_peak_vram_mb", "ir_fps", "ir_peak_vram_mb"}),
  VisibilityMetrics |->
    Each(FiniteNumber, {"contrast", "edge_density", "brightness", "entropy", "haze_proxy"}),
  MotionState |->
    Each(Object, {"provider_confidence"}) @@ Each(DATA_MODES, {"mode"})
      @@ Each(Bool, {"aruco_visible"})
      @@ Each(FiniteNumber, {"timestamp_ms", "left_hall_ticks", "right_hall_ticks",
                             "left_distance_m", "right_distance_m", "imu_heading_deg",
                             "imu_yaw_rate_dps", "localization_confidence"}),
  EnvironmentState |->
    Each(DATA_MODES, {"mode"}) @@ Each(VISIBILITY_STATES, {"visibility_state"})
      @@ Each(FiniteNumber, {"timestamp_ms", "temperature_c", "pressure_hpa",
                             "relative_altitude_m", "visibility_score"})]

StateGuards == [
  EmergencyState |->
    Each({"SAFE", "WARNING", "CRITICAL", "EMERGENCY_STOP"}, {"state"})
      @@ Each(Bool, {"motor_cut"}) @@ Each(Nullable(Text), {"reason"})
      @@ Each(Nullable(FiniteNumber), {"nearest_obstacle_m", "critical_distance_m",
                                       "latched_at_ms"})
      @@ Each(FiniteNumber, {"confidence"}),
  SafeCorridor |->
    Each({"GREEN", "YELLOW", "RED", "GREY"}, {"state"})
      @@ Each(AnyList, {"polygon", "exclusions"}) @@ Each(FiniteNumber, {"confidence"})
      @@ Each(Text, {"reason"}),
  OccupancyState |->
    Each(Object, {"origin"}) @@ Each(AnyList, {"occupied_cells"})
      @@ Each(FiniteNumber, {"resolution_m", "width", "height", "updated_at_ms"}),
  GridCell |-> Each(FiniteNumber, {"column", "row", "hit_count", "height_hint_m"}),
  SimulationState |->
    Each(Bool, {"running", "obstacle_enabled"})
      @@ Each(SIMULATION_SCENARIOS, {"scenario"})
      @@ Each(FiniteNumber, {"speed_scale", "visibility_score", "front_scanner_angle_deg",
                             "rear_scanner_angle_deg"}),
  RecordingState |->
    Each(Bool, {"recording", "replaying"})
      @@ Each(Nullable(Text), {"recording_filename", "replay_filename"}),
  ReferenceMap |->
    Each(Text, {"map_id", "name", "coordinate_frame", "source"})
      @@ Each(FiniteNumber, {"version", "created_at_ms"}) @@ Each(AnyList, {"features"}),
  LiveObject |->
    Each(Text, {"object_id", "object_type", "source"}) @@ Each(DATA_MODES, {"mode"})
      @@ Each(FiniteNumber, {"timestamp_ms", "x_m", "y_m", "confidence"}),
  RadarObject |->
    Each(Text, {"detection_id"}) @@ Each(DATA_MODES, {"mode"})
      @@ Each(FiniteNumber, {"timestamp_ms", "range_m", "bearing_deg",
                             "relative_velocity_mps", "confidence"}),
  SpatialPoint |->
    Each(Text, {"source_sensor_id"})
      @@ Each(FiniteNumber, {"x_m", "y_m", "height_hint_m", "quality", "timestamp_ms"}),
  AlertEvent |->
    Each(Text, {"event_id", "severity", "title", "detail", "vehicle_id"})
      @@ Each(FiniteNumber, {"timestamp_ms"})]

V2xGuards == [
  V2XPeerNode |->
    Each(Text, {"vehicle_id", "emergency_state", "link_status"})
      @@ Each(Optional(FiniteNumber), {"bearing_deg"})
      @@ Each(FiniteNumber, {"last_seen_ms", "x_m", "y_m", "distance_m", "speed_mps",
                             "heading_deg", "rssi_dbm"}),
  V2XInfrastructureNode |->
    Each(Text, {"rsu_id", "name", "status"})
      @@ Each(FiniteNumber, {"x_m", "y_m", "coverage_radius_m", "active_advisories_count"}),
  V2IAdvisoryMessage |->
    Each(Text, {"message_id", "rsu_id", "rsu_name", "advisory_type", "title", "detail"})
      @@ Each(FiniteNumber, {"timestamp_ms"})
      @@ Each(Nullable(FiniteNumber), {"speed_limit_kmh", "expires_at_ms", "zone_x_m",
                                       "zone_y_m", "zone_radius_m"}),
  V2XMessage |->
    Each(Text, {"message_id", "msg_type", "source_id", "target_id", "summary"})
      @@ Each(FiniteNumber, {"timestamp_ms"})
      @@ Each(Optional(Nullable({"object", "other"})), {"bsm_payload", "advisory_payload"}),
  V2XState |->
    Each(Bool, {"enabled"}) @@ Each(Text, {"node_id", "protocol_version"})
      @@ Each(FiniteNumber, {"timestamp_ms", "tx_packet_count", "rx_packet_count",
                             "channel_frequency_mhz"})
      @@ Each(AnyList, {"active_peers", "infrastructure_nodes", "active_advisories",
                        "recent_messages"})]

WorldGuards == [
  WorldState |->
    Each({"1.0"}, {"schema_version"}) @@ Each(DATA_MODES, {"mode"})
      @@ Each(Text, {"primary_vehicle_id"}) @@ Each(FiniteNumber, {"generated_at_ms", "sequence"})
      @@ Each(AnyList, {"vehicles", "ranges", "live_objects", "radar_objects",
                        "sensor_health", "spatial_points", "alerts"})
      @@ Each(Optional(AnyList), {"vehicle_telemetry"})
      @@ Each(Nullable(Object), {"reference_map"}) @@ Each(Optional(Object), {"v2x"})
      @@ Each(Object, {"motion", "camera", "environment", "emergency", "safe_corridor",
                       "occupancy", "recording", "simulation"})
      @@ Each(Optional(Nullable(Object)), {"haul_route"}),
  HaulRouteState |->
    Each(Text, {"origin", "destination", "next_instruction"})
      @@ Each({"HAULING", "OBSTACLE", "WAITING", "ARRIVED"}, {"phase"})
      @@ Each(FiniteNumber, {"distance_m", "total_distance_m", "remaining_m", "elapsed_s",
                             "obstacle_radius_m"})
      @@ Each(Optional(AnyList), {"planned_path"})
      @@ Each(Optional(Nullable(FiniteNumber)), {"obstacle_distance_m"})
      @@ Each(Optional(Bool), {"traffic_slowing", "lead_waiting", "obstacle_detected"})
      @@ Each(Nullable(Object), {"obstacle"})]

Guards == MapGuards @@ DeviceGuards @@ SensorGuards @@ StateGuards @@ V2xGuards @@ WorldGuards

\* isGpsTelemetry's last line: a fix without a position or an age is no fix.
WholeFix(gps) == gps.fix = "true" => "null" \notin {gps.lat, gps.lon, gps.age}

\* Objects of interfaces the guard never visits (operations, payloads) pass as they are.
Accepts(interface, object) ==
  interface \in DOMAIN Guards =>
    /\ \A f \in DOMAIN Guards[interface] : Conforms(object[f], Guards[interface][f])
    /\ interface = "GpsTelemetry" => WholeFix(object)

(***************************************************************************)
(* state/defaultState.ts: what the page shows before the first snapshot.   *)
(***************************************************************************)
DefaultStatus == [
  WorldState |->
    ("schema_version" :> "1.0") @@ ("mode" :> "SIMULATED") @@ ("primary_vehicle_id" :> "string")
      @@ ("vehicles" :> "list") @@ Each("finite", {"generated_at_ms", "sequence"})
      @@ ("reference_map" :> "null")
      @@ Each("empty", {"ranges", "live_objects", "radar_objects", "sensor_health",
                        "spatial_points", "alerts"})
      @@ Each("object", {"motion", "camera", "environment", "emergency", "safe_corridor",
                         "occupancy", "recording", "simulation", "v2x", "operations"})
      @@ Each("absent", {"vehicle_telemetry", "haul_route"}),
  VehiclePose |->
    ("haul" :> "absent") @@ ("vehicle_id" :> "string") @@ ("mode" :> "SIMULATED")
      @@ Each("finite", {"timestamp_ms", "x_m", "y_m", "heading_deg", "speed_mps",
                         "position_confidence"}),
  MotionState |->
    ("aruco_visible" :> "false") @@ ("provider_confidence" :> "object")
      @@ ("mode" :> "SIMULATED")
      @@ Each("finite", {"timestamp_ms", "left_hall_ticks", "right_hall_ticks",
                         "left_distance_m", "right_distance_m", "imu_heading_deg",
                         "imu_yaw_rate_dps", "localization_confidence"}),
  CameraState |->
    Each("null", {"raw_frame_id", "enhanced_frame_id", "visibility_score",
                  "visibility_state", "stream_detail", "width_px", "height_px",
                  "enhancement_detail", "enhancement_model", "enhancement_device",
                  "enhancement_precision", "enhancement_latency_ms", "ir_frame_id",
                  "ir_detail", "ir_model", "ir_device", "ir_precision", "ir_latency_ms"})
      @@ Each("false", {"raw_available", "enhancement_available", "ir_available"})
      @@ Each("disabled", {"stream_status", "enhancement_status", "ir_status"})
      @@ ("metrics" :> "object") @@ ("mode" :> "SIMULATED")
      @@ Each("finite", {"timestamp_ms", "measured_fps", "enhancement_fps",
                         "enhancement_peak_vram_mb", "ir_fps", "ir_peak_vram_mb"}),
  EnvironmentState |->
    ("visibility_state" :> "VERY_LOW") @@ ("mode" :> "SIMULATED")
      @@ Each("finite", {"timestamp_ms", "temperature_c", "pressure_hpa",
                         "relative_altitude_m", "visibility_score"}),
  EmergencyState |->
    ("state" :> "SAFE") @@ ("motor_cut" :> "false") @@ ("confidence" :> "finite")
      @@ Each("null", {"reason", "nearest_obstacle_m", "critical_distance_m",
                       "latched_at_ms"})]

DefaultMine == [
  SafeCorridor |->
    ("state" :> "GREY") @@ Each("empty", {"polygon", "exclusions"})
      @@ ("confidence" :> "finite") @@ ("reason" :> "string"),
  OccupancyState |->
    Each("finite", {"resolution_m", "width", "height", "updated_at_ms"})
      @@ ("origin" :> "object") @@ ("occupied_cells" :> "empty"),
  RecordingState |->
    Each("false", {"recording", "replaying"})
      @@ Each("null", {"recording_filename", "replay_filename"}),
  SimulationState |->
    ("running" :> "true") @@ ("scenario" :> "NORMAL") @@ ("obstacle_enabled" :> "false")
      @@ Each("finite", {"speed_scale", "visibility_score", "front_scanner_angle_deg",
                         "rear_scanner_angle_deg"}),
  V2XState |->
    ("enabled" :> "true") @@ Each("string", {"node_id", "protocol_version"})
      @@ Each("finite", {"timestamp_ms", "tx_packet_count", "rx_packet_count",
                         "channel_frequency_mhz"})
      @@ Each("empty", {"active_peers", "infrastructure_nodes", "active_advisories",
                        "recent_messages"}),
  HaulageMetricsSummary |->
    Each("finite", {"total_completed_cycles", "total_ore_moved_tonnes",
                    "avg_cycle_time_minutes", "fleet_utilization_pct", "total_distance_km",
                    "active_fleet_count", "hourly_production_rate_tph"})
      @@ ("route_compliance_pct" :> "null") @@ ("recent_delay_events" :> "empty"),
  MineOperationsState |->
    ("network" :> "null") @@ Each("object", {"fleet", "routes", "guidance",
                                             "analytics_summary"})
      @@ ("reroute_advisories" :> "empty") @@ ("provenance" :> "string")
      @@ ("network_version" :> "finite")]

defaultWorldState == DefaultStatus @@ DefaultMine

-----------------------------------------------------------------------------
VARIABLES
  sent,        \* the object sent last: its interface, its fields, and whether the
               \* backend of this repository wrote it; None while the next is awaited
  received,    \* whether the page has judged it
  shown,       \* what the page shows of that interface, None until it is judged
  connected    \* whether the socket that carried it is open

vars == <<sent, received, shown, connected>>

Message(interface, object, genuine) ==
  [interface |-> interface, object |-> object, genuine |-> genuine]

None == Message("none", << >>, TRUE)

Init ==
  /\ \E i \in DOMAIN defaultWorldState :
       shown = Message(i, defaultWorldState[i], TRUE)
  /\ sent = shown
  /\ received = TRUE
  /\ connected = TRUE

Unusual == {"null", "absent", "empty", "beyond", "false"}

(***************************************************************************)
(* The backend publishes an object that differs from the ordinary one, in  *)
(* which nothing optional is missing, in up to two fields.                 *)
(***************************************************************************)
Ordinary(interface) ==
  [f \in DOMAIN Models!Published[interface] |->
     CHOOSE k \in Models!Published[interface][f] :
       k \notin Unusual]

Validated(interface, object) ==
  CASE interface = "GpsTelemetry"  -> Models!ValidFix(object)
    [] interface = "LoadTelemetry" -> Models!ValidLoad(object)
    [] OTHER                       -> object

Publish ==
  /\ sent = None /\ connected
  /\ \E i \in DOMAIN Models!Published :
       \E f, g \in DOMAIN Models!Published[i] :
         \E k \in Models!Published[i][f], l \in Models!Published[i][g] :
           sent' = Message(i, Validated(i, [Ordinary(i) EXCEPT ![f] = k, ![g] = l]), TRUE)
  /\ received' = FALSE
  /\ UNCHANGED <<shown, connected>>

(***************************************************************************)
(* Anything else that speaks to the page, a backend of another version or  *)
(* a recording edited by hand, gets one field of one object wrong.         *)
(***************************************************************************)
PublishForeign ==
  /\ sent = None /\ connected
  /\ \E i \in DOMAIN Guards :
       \E f \in DOMAIN Models!Published[i] :
         \E k \in BaseKinds :
           sent' = Message(i, [Ordinary(i) EXCEPT ![f] = k], FALSE)
  /\ received' = FALSE
  /\ UNCHANGED <<shown, connected>>

\* onmessage: show what passes, close the socket on what does not.
Receive ==
  /\ ~received
  /\ received' = TRUE
  /\ IF Accepts(sent.interface, sent.object)
     THEN shown' = sent /\ UNCHANGED connected
     ELSE connected' = FALSE /\ UNCHANGED shown
  /\ UNCHANGED sent

\* The stream waits for the next revision, on a new socket when the last was closed.
\* What the page goes on showing was judged when it came: it is followed no further.
Await ==
  /\ received /\ sent # None
  /\ sent' = None /\ shown' = None
  /\ connected' = TRUE
  /\ UNCHANGED received

Next == Publish \/ PublishForeign \/ Receive \/ Await

SnapshotSpec == Init /\ [][Next]_vars

-----------------------------------------------------------------------------
\* The fields whose content the guard leaves to the publisher.
Trusted(interface) ==
  CASE interface = "CameraState" -> {"stream_status", "enhancement_status", "ir_status"}
    [] interface = "ReferenceMap" ->
         {"coordinate_frame", "coordinate_frame_id", "source_detail", "geographic_anchor"}
    [] interface = "VehiclePose" -> {"haul"}
    [] interface = "AlertEvent" -> {"severity"}
    [] interface = "V2XPeerNode" -> {"link_status"}
    [] interface = "V2XInfrastructureNode" -> {"status"}
    [] interface = "V2IAdvisoryMessage" -> {"advisory_type"}
    [] interface = "V2XMessage" -> {"msg_type", "bsm_payload", "advisory_payload"}
    [] interface = "WorldState" -> {"operations"}
    [] interface = "HaulRouteState" -> {"cycle"}
    [] OTHER -> {}

(***************************************************************************)
(* The tables field by field, which is all the proofs know of them (their  *)
(* @@ is TLC's own).  How the fields of one object depend on each other is *)
(* not said here: that is the validators' and the guard's, and what the    *)
(* messages do with it.                                                    *)
(***************************************************************************)
Fits(kind, kinds) == Conforms(kind, kinds) /\ kind # "infinite"

\* Every field can hold something usual, and only what it is declared to hold.
ModelsFitTypes ==
  \A i \in DOMAIN Models!Published :
    /\ i # "none" /\ i \in DOMAIN Declared
    /\ \A f \in DOMAIN Models!Published[i] : Models!Published[i][f] \ Unusual # {}
    /\ \A f \in DOMAIN Declared[i] :
         IF f \in DOMAIN Models!Published[i]
         THEN \A k \in Models!Published[i][f] : Fits(k, Declared[i][f])
         ELSE "absent" \in Declared[i][f]

\* A field the guard looks at is published, with kinds that it lets pass; what it lets
\* pass is declared, and it looks at every field that is not left to the publisher.
GuardsFitModels ==
  \A i \in DOMAIN Guards :
    /\ i \in DOMAIN Models!Published /\ DOMAIN Guards[i] \subseteq DOMAIN Models!Published[i]
    /\ \A f \in DOMAIN Guards[i] : \A k \in Models!Published[i][f] : Conforms(k, Guards[i][f])
    /\ \A f \in (DOMAIN Declared[i] \cap DOMAIN Models!Published[i]) \ Trusted(i) :
         /\ f \in DOMAIN Guards[i]
         /\ \A k \in BaseKinds : Conforms(k, Guards[i][f]) => Fits(k, Declared[i][f])

DefaultsFitTypes ==
  \A i \in DOMAIN defaultWorldState :
    /\ i # "none" /\ i # "GpsTelemetry" /\ i \in DOMAIN Declared
    /\ \A f \in DOMAIN Declared[i] :
         IF f \in DOMAIN defaultWorldState[i]
         THEN Fits(defaultWorldState[i][f], Declared[i][f])
         ELSE "absent" \in Declared[i][f]

\* The models of the two validators can hold what these write.
ValidatedFits ==
  LET gps  == Models!Published["GpsTelemetry"]
      load == Models!Published["LoadTelemetry"]
  IN  /\ {"GpsTelemetry", "LoadTelemetry"} \subseteq DOMAIN Models!Published
      /\ {"fix", "lat", "lon", "alt_m", "speed_mps", "hdop", "age"} \subseteq DOMAIN gps
      /\ {"ready", "raw", "net_raw", "kg", "taring"} \subseteq DOMAIN load
      /\ "false" \in gps.fix /\ "null" \in gps.lat /\ "null" \in gps.lon
      /\ "null" \in gps.alt_m /\ "null" \in gps.speed_mps /\ "null" \in gps.hdop
      /\ "false" \in load.ready /\ "false" \in load.taring
      /\ "null" \in load.raw /\ "null" \in load.net_raw /\ "null" \in load.kg

TablesAgree == ModelsFitTypes /\ GuardsFitModels /\ DefaultsFitTypes /\ ValidatedFits

-----------------------------------------------------------------------------
(***************************************************************************)
(* Nothing the backend can publish is refused: a snapshot refused for a    *)
(* field that drifted would close the socket, and the next one would again.*)
(***************************************************************************)
PublishedIsShown ==
  received /\ sent # None /\ sent.genuine => connected /\ shown = sent

(***************************************************************************)
(* What the page shows has the types its components were compiled against, *)
(* and finite numbers: always for the backend's own snapshots, the parts   *)
(* the guard never visits included, and in every field but the trusted     *)
(* ones for any other publisher's, whose fix has a position and an age.    *)
(***************************************************************************)
AsDeclared(field) ==
  /\ Conforms(shown.object[field], Declared[shown.interface][field])
  /\ shown.object[field] # "infinite"

ShownFields == DOMAIN Declared[shown.interface] \cap DOMAIN shown.object

ShownIsDeclared ==
  shown # None =>
    LET doubtful == IF shown.genuine THEN {} ELSE Trusted(shown.interface) IN
    /\ \A f \in ShownFields \ doubtful : AsDeclared(f)
    /\ shown.genuine =>
         \A f \in DOMAIN Declared[shown.interface] \ ShownFields :
           "absent" \in Declared[shown.interface][f]
    /\ shown.interface = "GpsTelemetry" => WholeFix(shown.object)
==============================================================================
