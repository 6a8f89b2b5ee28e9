----------------------------- MODULE WorldModels -----------------------------
(***************************************************************************)
(* The pydantic models of the backend: for every model, the kinds          *)
(* model_dump_json can write into each field.  Every field is written,     *)
(* with null for None; the validators keep a constrained number in its     *)
(* range; a number is taken to be finite (a NaN would be written null).    *)
(***************************************************************************)
EXTENDS JsonKinds

InRange == {"finite"}
Modes       == {"LIVE", "SIMULATED", "REPLAY"}
Visibilities == {"GOOD", "MODERATE", "LOW", "VERY_LOW"}
HaulCycles ==
  {"IDLE", "TRAVELLING_TO_PICKUP", "WAITING_FOR_LOADING", "LOADED", "TRAVELLING_TO_DUMP",
   "WAITING_FOR_DUMP", "DUMPING", "RETURNING_EMPTY", "PAUSED", "EMERGENCY"}
SimulationScenario ==
  {"HAUL", "NORMAL", "FOG", "OBSTACLE", "EMERGENCY", "SCENARIO_1_DENSE_FOG",
   "SCENARIO_2_VEHICLE_AHEAD", "SCENARIO_3_OPPOSING_VEHICLE", "SCENARIO_4_STATIC_OBSTACLE",
   "SCENARIO_5_ROAD_CLOSURE_REROUTE", "SCENARIO_6_PAYLOAD_ROUTING",
   "SCENARIO_7_FLEET_MONITORING", "SCENARIO_8_HAULAGE_ANALYTICS"}
MapFeatureType ==
  {"TERRAIN", "ROAD", "CENTERLINE", "BERM", "HAZARD_ZONE", "ROUTE", "INTERSECTION",
   "STATIC_OBSTACLE", "SPEED_ZONE", "START", "DESTINATION"}

\* models/operations.py, fleet/models.py, analytics/models.py, api/routes.py
OperationsModels == [
  MineNode |->
    Each(Text, {"node_id", "name", "description"})
      @@ Each(InRange, {"x_m", "y_m", "elevation_m"})
      @@ Each({"BENCH", "DUMP", "JUNCTION", "WAYPOINT"}, {"node_type"}),
  MineEdge |->
    Each(Text, {"edge_id", "from_node", "to_node", "surface", "segment_name"})
      @@ Each(InRange, {"distance_m", "gradient_pct", "max_weight_tonnes",
                        "speed_limit_kmh", "risk_penalty", "lanes"})
      @@ Each({"OPEN", "RESTRICTED", "CLOSED"}, {"road_status"})
      @@ Each(Bool, {"is_bidirectional"}),
  MineNetwork |->
    Each(Text, {"network_id", "name", "mine_site"}) @@ Each(Object, {"nodes", "edges"}),
  NavigationRoute |->
    Each(Text, {"route_id", "vehicle_id", "start_node_id", "end_node_id"})
      @@ Each(InRange, {"payload_tonnes", "total_distance_m", "estimated_time_s",
                        "max_gradient_pct", "average_speed_kmh", "total_cost"})
      @@ Each(Object, {"cost_breakdown"})
      @@ Each(List, {"path_nodes", "edge_ids", "waypoints", "instructions"}),
  RerouteAdvisory |->
    Each(Text, {"advisory_id", "vehicle_id", "trigger_edge_id", "trigger_reason",
                "original_route_id"})
      @@ Each(InRange, {"timestamp_ms"}) @@ Each(Object, {"new_route"})
      @@ Each(Bool, {"alternate_found"}),
  VehicleOperationalMetadata |->
    Each(Text, {"vehicle_id", "callsign", "assigned_pickup", "assigned_dump",
                "current_destination", "next_instruction", "emergency_state", "color"})
      @@ Each(Bool, {"is_primary", "is_simulated"}) @@ Each(HaulCycles, {"cycle_state"})
      @@ Each(InRange, {"payload_tonnes", "tare_weight_tonnes", "total_weight_tonnes",
                        "elevation_m", "distance_to_destination_m",
                        "total_trips_completed", "total_tonnes_moved",
                        "target_payload_tonnes"})
      @@ Each(Nullable(Text), {"current_edge_id"}),
  TacticalGuidance |->
    Each(Text, {"vehicle_id", "callsign", "current_destination", "next_instruction",
                "target_vehicle_id", "target_callsign", "hazard_direction", "threat_level",
                "advisory_text", "visibility_state"})
      @@ Each(InRange, {"distance_remaining_m", "speed_kmh", "hazard_distance_m",
                        "closing_velocity_mps", "visibility_score",
                        "estimated_sight_distance_m"}),
  HaulageMetricsSummary |->
    Each(InRange, {"total_completed_cycles", "total_ore_moved_tonnes",
                   "avg_cycle_time_minutes", "fleet_utilization_pct", "total_distance_km",
                   "active_fleet_count", "hourly_production_rate_tph"})
      @@ Each(Nullable(InRange), {"route_compliance_pct"})
      @@ Each(List, {"recent_delay_events"}),
  MineOperationsState |->
    Each(Nullable(Object), {"network"})
      @@ Each(Object, {"fleet", "routes", "guidance", "analytics_summary"})
      @@ Each(List, {"reroute_advisories"}) @@ Each(Text, {"provenance"})
      @@ Each(InRange, {"network_version"})]

\* A slip: no distance when there is no hazard.
GuidanceModelsNoHazard == [GuidanceResponse |->
  Each(Nullable(InRange), {"hazard_distance_m"}) @@ OperationsModels.TacticalGuidance]

GuidanceModels == [GuidanceResponse |-> OperationsModels.TacticalGuidance]

FleetModels == [
  TripRecord |->
    Each(Text, {"trip_id", "vehicle_id", "callsign", "pickup_node", "dump_node"})
      @@ Each(Nullable(Modes), {"source"})
      @@ Each(InRange, {"payload_tonnes", "start_time_ms", "end_time_ms",
                        "cycle_duration_s", "loading_wait_s", "loaded_travel_s",
                        "dumping_wait_s", "empty_return_s", "idle_s", "distance_km",
                        "avg_speed_kmh", "route_deviations_count", "route_compliance_pct",
                        "fuel_litres_est"}),
  FleetVehicleSummary |->
    Each(Text, {"vehicle_id", "callsign", "emergency_state", "assigned_pickup",
                "assigned_dump", "current_destination", "next_instruction"})
      @@ Each(Bool, {"is_primary", "is_simulated"}) @@ Each(HaulCycles, {"cycle_state"})
      @@ Each(InRange, {"payload_tonnes", "tare_weight_tonnes", "total_weight_tonnes",
                        "x_m", "y_m", "elevation_m", "heading_deg", "speed_mps",
                        "speed_kmh", "total_trips_completed", "total_tonnes_moved",
                        "distance_to_destination_m"})
      @@ Each(Nullable(Text), {"current_edge_id"})]

AnalyticsModels == [
  CycleTimeBreakdown |->
    Each(InRange, {"loading_wait_minutes", "loaded_travel_minutes", "dumping_wait_minutes",
                   "empty_return_minutes", "idle_minutes", "total_cycle_minutes",
                   "loading_pct", "loaded_travel_pct", "dumping_pct", "empty_return_pct",
                   "idle_pct"}),
  HaulageMetrics |->
    Each(InRange, {"total_completed_cycles", "total_ore_moved_tonnes",
                   "avg_cycle_time_minutes", "fleet_utilization_pct", "total_distance_km",
                   "route_compliance_pct", "active_fleet_count",
                   "hourly_production_rate_tph"})
      @@ Each(Object, {"cycle_time_breakdown", "ore_moved_by_vehicle", "cycles_by_vehicle"})
      @@ Each(List, {"recent_delay_events"}),
  TripHistoryResponse |->
    Each(List, {"trips"}) @@ Each(InRange, {"total_trips", "total_tonnes"})]

\* models/common.py and models/telemetry.py
MapModels == [
  MapFeature |->
    Each(Text, {"feature_id", "label"}) @@ Each(MapFeatureType, {"feature_type"})
      @@ Each({"POINT", "POLYLINE", "POLYGON"}, {"geometry_type"})
      @@ Each({"list"}, {"points"}) @@ Each(Object, {"properties"}),
  ReferenceMap |->
    Each(Text, {"map_id", "name", "source", "coordinate_frame_id"})
      @@ Each(InRange, {"version", "created_at_ms"})
      @@ Each({"LOCAL_CARTESIAN_METRES"}, {"coordinate_frame"})
      @@ Each(Nullable(Text), {"source_detail"})
      @@ Each(Nullable(Object), {"geographic_anchor"}) @@ Each(List, {"features"}),
  SafeCorridor |->
    Each({"GREEN", "YELLOW", "RED", "GREY"}, {"state"})
      @@ Each(List, {"polygon", "exclusions"}) @@ Each(InRange, {"confidence"})
      @@ Each(Text, {"reason"}),
  SpatialPoint |->
    Each(Text, {"source_sensor_id"})
      @@ Each(InRange, {"x_m", "y_m", "height_hint_m", "quality", "timestamp_ms"}),
  GridCell |-> Each(InRange, {"column", "row", "hit_count", "height_hint_m"}),
  OccupancyState |->
    Each(InRange, {"resolution_m", "width", "height", "updated_at_ms"})
      @@ Each(Object, {"origin"}) @@ Each(List, {"occupied_cells"}),
  HaulVehicleState |->
    Each(Text, {"phase"})
      @@ Each(InRange, {"payload_fraction", "payload_tonnes", "payload_target_tonnes",
                        "payload_capacity_tonnes", "bed_angle_deg", "phase_progress",
                        "cycle", "road_elevation_m", "road_pitch_deg"}),
  VehiclePose |->
    Each(Nullable(Object), {"haul"}) @@ Each(Text, {"vehicle_id"}) @@ Each(Modes, {"mode"})
      @@ Each(InRange, {"timestamp_ms", "x_m", "y_m", "heading_deg", "speed_mps",
                        "position_confidence"}),
  RangeReading |->
    Each(Text, {"sensor_id"}) @@ Each(Bool, {"is_valid"}) @@ Each(Modes, {"mode"})
      @@ Each(InRange, {"timestamp_ms", "angle_deg", "range_m", "quality", "max_range_m"}),
  MotionState |->
    Each(InRange, {"timestamp_ms", "left_hall_ticks", "right_hall_ticks",
                   "left_distance_m", "right_distance_m", "imu_heading_deg",
                   "imu_yaw_rate_dps", "localization_confidence"})
      @@ Each(Bool, {"aruco_visible"}) @@ Each(Object, {"provider_confidence"})
      @@ Each(Modes, {"mode"})]

StateModels == [
  VisibilityMetrics |->
    Each(InRange, {"contrast", "edge_density", "brightness", "entropy", "haze_proxy"}),
  CameraState |->
    Each(Nullable(Text), {"raw_frame_id", "enhanced_frame_id", "stream_detail",
                          "enhancement_detail", "enhancement_model", "enhancement_device",
                          "enhancement_precision", "ir_frame_id", "ir_detail", "ir_model",
                          "ir_device", "ir_precision"})
      @@ Each(Bool, {"raw_available", "enhancement_available", "ir_available"})
      @@ Each(Object, {"metrics"}) @@ Each(Nullable(Visibilities), {"visibility_state"})
      @@ Each(Nullable(InRange), {"visibility_score", "width_px", "height_px",
                                  "enhancement_latency_ms", "ir_latency_ms"})
      @@ Each(InRange, {"timestamp_ms", "measured_fps", "enhancement_fps",
                        "enhancement_peak_vram_mb", "ir_fps", "ir_peak_vram_mb"})
      @@ Each({"disabled", "connecting", "live", "stale", "error", "simulated"},
              {"stream_status"})
      @@ Each({"disabled", "loading", "live", "stale", "error"},
              {"enhancement_status", "ir_status"})
      @@ Each(Modes, {"mode"}),
  RadarObject |->
    Each(Text, {"detection_id"}) @@ Each(Modes, {"mode"})
      @@ Each(InRange, {"timestamp_ms", "range_m", "bearing_deg", "relative_velocity_mps",
                        "confidence"}),
  EnvironmentState |->
    Each(InRange, {"timestamp_ms", "temperature_c", "pressure_hpa", "relative_altitude_m",
                   "visibility_score"})
      @@ Each(Visibilities, {"visibility_state"}) @@ Each(Modes, {"mode"}),
  LiveObject |->
    Each(Text, {"object_id"}) @@ Each(Modes, {"mode"})
      @@ Each({"UNKNOWN_OBSTACLE", "MAP_MISMATCH", "PROXIMITY"}, {"object_type"})
      @@ Each({"TOF", "RADAR", "CAMERA", "FUSED"}, {"source"})
      @@ Each(InRange, {"timestamp_ms", "x_m", "y_m", "confidence"}),
  EmergencyState |->
    Each({"SAFE", "WARNING", "CRITICAL", "EMERGENCY_STOP"}, {"state"})
      @@ Each(Nullable(Text), {"reason"}) @@ Each(Bool, {"motor_cut"})
      @@ Each(InRange, {"confidence"})
      @@ Each(Nullable(InRange), {"nearest_obstacle_m", "critical_distance_m",
                                  "latched_at_ms"}),
  SensorHealth |->
    Each(Text, {"sensor_id"}) @@ Each(Nullable(Text), {"detail"})
      @@ Each({"HEALTHY", "DEGRADED", "STALE", "OFFLINE"}, {"status"})
      @@ Each(InRange, {"last_update_ms", "confidence"}),
  AlertEvent |->
    Each(Text, {"event_id", "title", "detail", "vehicle_id"})
      @@ Each({"INFO", "WARNING", "CRITICAL"}, {"severity"})
      @@ Each(InRange, {"timestamp_ms"}),
  RecordingState |->
    Each(Bool, {"recording", "replaying"})
      @@ Each(Nullable(Text), {"recording_filename", "replay_filename"}),
  SimulationState |->
    Each(Bool, {"running", "obstacle_enabled"})
      @@ Each(SimulationScenario, {"scenario"})
      @@ Each(InRange, {"speed_scale", "visibility_score", "front_scanner_angle_deg",
                        "rear_scanner_angle_deg"}),
  HaulRouteState |->
    Each(Bool, {"traffic_slowing", "lead_waiting", "obstacle_detected"})
      @@ Each(Nullable(InRange), {"obstacle_distance_m"}) @@ Each(List, {"planned_path"})
      @@ Each(Nullable(Object), {"obstacle"})
      @@ Each(Text, {"origin", "destination", "next_instruction"})
      @@ Each({"HAULING", "OBSTACLE", "WAITING", "ARRIVED"}, {"phase"})
      @@ Each(InRange, {"cycle", "distance_m", "total_distance_m", "remaining_m",
                        "elapsed_s", "obstacle_radius_m"}),
  WorldState |->
    Each({"1.0"}, {"schema_version"}) @@ Each(Modes, {"mode"})
      @@ Each(Text, {"primary_vehicle_id"}) @@ Each(InRange, {"generated_at_ms", "sequence"})
      @@ Each(List, {"vehicle_telemetry", "vehicles", "ranges", "live_objects",
                     "radar_objects", "sensor_health", "spatial_points", "alerts"})
      @@ Each(Nullable(Object), {"reference_map", "haul_route"})
      @@ Each(Object, {"motion", "camera", "environment", "emergency", "safe_corridor",
                       "occupancy", "recording", "simulation", "v2x", "operations"})]

CommonModels == [Point2D |-> Each(InRange, {"x_m", "y_m"})]

\* models/device.py, before its validators
DeviceModels == [
  GpsTelemetry |->
    Each(Bool, {"fix"}) @@ Each(InRange, {"sats", "bytes"})
      @@ Each(Nullable(InRange), {"lat", "lon", "alt_m", "speed_mps", "hdop"})
      @@ Each(Nullable(Finite), {"age"}),
  LoadTelemetry |->
    Each(Bool, {"ready", "tared", "taring", "calibrated"}) @@ Each(InRange, {"zero_offset"})
      @@ Each(Nullable(InRange), {"raw", "net_raw", "kg"}) @@ Each(Nullable(Finite), {"age"}),
  VehicleTelemetry |->
    Each(Text, {"schema_version"}) @@ Each({"DUMPER_01", "DUMPER_02"}, {"vehicle_id"})
      @@ Each({"LIVE"}, {"mode"}) @@ Each(InRange, {"seq", "ms", "received_at_ms"})
      @@ Each(Object, {"gps"}) @@ Each(Nullable(Object), {"load"}) @@ Each(Bool, {"online"})]

\* models/v2x.py
V2xModels == [
  V2VBasicSafetyMessage |->
    Each(Text, {"message_id", "vehicle_id", "emergency_state", "corridor_state"})
      @@ Each(InRange, {"timestamp_ms", "x_m", "y_m", "heading_deg", "speed_mps"})
      @@ Each(Nullable(InRange), {"nearest_obstacle_m"}) @@ Each(Bool, {"brake_applied"}),
  V2IAdvisoryMessage |->
    Each(Text, {"message_id", "rsu_id", "rsu_name", "title", "detail"})
      @@ Each({"FOG_WARNING", "SPEED_RESTRICTION", "HAZARD_ZONE", "PASSAGE_PRIORITY",
               "DISPATCH", "ROAD_MAINTENANCE"}, {"advisory_type"})
      @@ Each(InRange, {"timestamp_ms"})
      @@ Each(Nullable(InRange), {"speed_limit_kmh", "expires_at_ms", "zone_x_m",
                                  "zone_y_m", "zone_radius_m"}),
  V2XMessage |->
    Each(Text, {"message_id", "source_id", "target_id", "summary"})
      @@ Each({"V2V_BSM", "V2V_PROXIMITY_ALERT", "V2I_ADVISORY",
               "V2I_INTERSECTION_PRIORITY", "V2I_EMERGENCY_BROADCAST"}, {"msg_type"})
      @@ Each(InRange, {"timestamp_ms"})
      @@ Each(Nullable(Object), {"bsm_payload", "advisory_payload"}),
  V2XPeerNode |->
    Each(Text, {"vehicle_id", "emergency_state"})
      @@ Each({"EXCELLENT", "GOOD", "DEGRADED", "LOST"}, {"link_status"})
      @@ Each(InRange, {"last_seen_ms", "x_m", "y_m", "distance_m", "bearing_deg",
                        "speed_mps", "heading_deg", "rssi_dbm"}),
  V2XInfrastructureNode |->
    Each(Text, {"rsu_id", "name"}) @@ Each({"ACTIVE", "STANDBY", "OFFLINE"}, {"status"})
      @@ Each(InRange, {"x_m", "y_m", "coverage_radius_m", "active_advisories_count"}),
  V2XState |->
    Each(Text, {"node_id", "protocol_version"}) @@ Each(Bool, {"enabled"})
      @@ Each(InRange, {"timestamp_ms", "tx_packet_count", "rx_packet_count",
                        "channel_frequency_mhz"})
      @@ Each(List, {"active_peers", "infrastructure_nodes", "active_advisories",
                     "recent_messages"})]

Published == OperationsModels @@ GuidanceModels @@ FleetModels @@ AnalyticsModels
               @@ MapModels @@ StateModels @@ CommonModels @@ DeviceModels @@ V2xModels

(***************************************************************************)
(* The validators.  An age beyond is one they take for too old: without a  *)
(* whole, fresh fix nothing of the position remains (valid_fix); without a *)
(* fresh raw value no reading does, and no kilograms before calibration    *)
(* (valid_load).                                                           *)
(***************************************************************************)
\* A slip: a fix is kept without looking at its age.
ValidFixAgeless(gps) ==
  IF gps.fix = "true" /\ "null" \notin {gps.lat, gps.lon} THEN gps
  ELSE [gps EXCEPT !.fix = "false", !.lat = "null", !.lon = "null", !.alt_m = "null",
                   !.speed_mps = "null", !.hdop = "null"]

ValidFix(gps) ==
  IF gps.fix = "true" /\ "null" \notin {gps.lat, gps.lon} /\ gps.age = "finite" THEN gps
  ELSE [gps EXCEPT !.fix = "false", !.lat = "null", !.lon = "null", !.alt_m = "null",
                   !.speed_mps = "null", !.hdop = "null"]

ValidLoad(load) ==
  LET ready == load.ready = "true" /\ load.age = "finite" /\ load.raw # "null"
      kept  == IF ready THEN load
               ELSE [load EXCEPT !.ready = "false", !.raw = "null", !.net_raw = "null",
                                 !.taring = "false"]
  IN IF ready /\ load.calibrated = "true" THEN kept ELSE [kept EXCEPT !.kg = "null"]
==============================================================================
