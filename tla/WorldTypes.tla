----------------------------- MODULE WorldTypes ------------------------------
(***************************************************************************)
(* The declarations of frontend/src/types.ts: for every interface, the     *)
(* kinds each field may hold once the page has a value of that type.       *)
(***************************************************************************)
EXTENDS JsonKinds

Number == Finite \cup {"infinite"}

DataModes   == {"LIVE", "SIMULATED", "REPLAY"}
Levels      == {"SAFE", "WARNING", "CRITICAL", "EMERGENCY_STOP"}
Visibility  == {"GOOD", "MODERATE", "LOW", "VERY_LOW"}
Statuses    == {"HEALTHY", "DEGRADED", "STALE", "OFFLINE"}
Corridors   == {"GREEN", "YELLOW", "RED", "GREY"}
Geometries  == {"POINT", "POLYLINE", "POLYGON"}
FeatureTypes ==
  {"TERRAIN", "ROAD", "CENTERLINE", "BERM", "HAZARD_ZONE", "ROUTE", "INTERSECTION",
   "STATIC_OBSTACLE", "SPEED_ZONE", "START", "DESTINATION"}
Scenarios ==
  {"HAUL", "NORMAL", "FOG", "OBSTACLE", "EMERGENCY", "SCENARIO_1_DENSE_FOG",
   "SCENARIO_2_VEHICLE_AHEAD", "SCENARIO_3_OPPOSING_VEHICLE", "SCENARIO_4_STATIC_OBSTACLE",
   "SCENARIO_5_ROAD_CLOSURE_REROUTE", "SCENARIO_6_PAYLOAD_ROUTING",
   "SCENARIO_7_FLEET_MONITORING", "SCENARIO_8_HAULAGE_ANALYTICS"}
NodeTypes    == {"BENCH", "DUMP", "JUNCTION", "WAYPOINT"}
RoadStatuses == {"OPEN", "RESTRICTED", "CLOSED"}
CycleStates ==
  {"IDLE", "TRAVELLING_TO_PICKUP", "WAITING_FOR_LOADING", "LOADED", "TRAVELLING_TO_DUMP",
   "WAITING_FOR_DUMP", "DUMPING", "RETURNING_EMPTY", "PAUSED", "EMERGENCY"}

(***************************************************************************)
(* The mine's network and what the fleet and the analytics answer.         *)
(***************************************************************************)
MineTypes == [
  MineNode |->
    Each(Text, {"node_id", "name"}) @@ Each(Number, {"x_m", "y_m", "elevation_m"})
      @@ Each(NodeTypes, {"node_type"}) @@ Each(Optional(Text), {"description"}),
  MineEdge |->
    Each(Text, {"edge_id", "from_node", "to_node"})
      @@ Each(Number, {"distance_m", "gradient_pct", "max_weight_tonnes", "speed_limit_kmh",
                       "risk_penalty", "lanes"})
      @@ Each(RoadStatuses, {"road_status"}) @@ Each(Bool, {"is_bidirectional"})
      @@ Each(Optional(Text), {"surface", "segment_name"}),
  MineNetwork |->
    Each(Text, {"network_id", "name", "mine_site"}) @@ Each(Object, {"nodes", "edges"}),
  FleetVehicleSummary |->
    Each(Text, {"vehicle_id", "callsign", "emergency_state", "assigned_pickup",
                "assigned_dump", "current_destination", "next_instruction"})
      @@ Each(Bool, {"is_primary", "is_simulated"}) @@ Each(CycleStates, {"cycle_state"})
      @@ Each(Number, {"payload_tonnes", "tare_weight_tonnes", "total_weight_tonnes", "x_m",
                       "y_m", "elevation_m", "heading_deg", "speed_mps", "speed_kmh",
                       "total_trips_completed", "total_tonnes_moved",
                       "distance_to_destination_m"})
      @@ Each(Optional(Nullable(Text)), {"current_edge_id"}),
  GuidanceResponse |->
    Each(Text, {"vehicle_id", "callsign", "current_destination", "next_instruction",
                "target_vehicle_id", "target_callsign", "hazard_direction", "threat_level",
                "advisory_text", "visibility_state"})
      @@ Each(Number, {"distance_remaining_m", "speed_kmh", "hazard_distance_m",
                       "closing_velocity_mps", "visibility_score",
                       "estimated_sight_distance_m"})]

TripTypes == [
  TripRecord |->
    Each(Optional(Nullable(DataModes)), {"source"})
      @@ Each(Text, {"trip_id", "vehicle_id", "callsign", "pickup_node", "dump_node"})
      @@ Each(Number, {"payload_tonnes", "start_time_ms", "end_time_ms", "cycle_duration_s",
                       "loading_wait_s", "loaded_travel_s", "dumping_wait_s",
                       "empty_return_s", "idle_s", "distance_km", "avg_speed_kmh",
                       "route_deviations_count", "route_compliance_pct",
                       "fuel_litres_est"}),
  CycleTimeBreakdown |->
    Each(Number, {"loading_wait_minutes", "loaded_travel_minutes", "dumping_wait_minutes",
                  "empty_return_minutes", "idle_minutes", "total_cycle_minutes",
                  "loading_pct", "loaded_travel_pct", "dumping_pct", "empty_return_pct",
                  "idle_pct"}),
  HaulageMetrics |->
    Each(Number, {"total_completed_cycles", "total_ore_moved_tonnes",
                  "avg_cycle_time_minutes", "fleet_utilization_pct", "total_distance_km",
                  "route_compliance_pct", "active_fleet_count",
                  "hourly_production_rate_tph"})
      @@ Each(Object, {"cycle_time_breakdown", "ore_moved_by_vehicle", "cycles_by_vehicle"})
      @@ Each(List, {"recent_delay_events"}),
  TripHistoryResponse |->
    Each(List, {"trips"}) @@ Each(Number, {"total_trips", "total_tonnes"})]

(***************************************************************************)
(* The map, the vehicles and their sensors.                                *)
(***************************************************************************)
PoseTypes == [
  Point2D |-> Each(Number, {"x_m", "y_m"}),
  MapFeature |->
    Each(Text, {"feature_id", "label"}) @@ Each(FeatureTypes, {"feature_type"})
      @@ Each(Geometries, {"geometry_type"}) @@ Each(List, {"points"})
      @@ Each(Object, {"properties"}),
  ReferenceMap |->
    Each(Text, {"map_id", "name", "source"}) @@ Each(Number, {"version", "created_at_ms"})
      @@ Each({"LOCAL_CARTESIAN_METRES"}, {"coordinate_frame"})
      @@ Each(Optional(Text), {"coordinate_frame_id"})
      @@ Each(Optional(Nullable(Text)), {"source_detail"})
      @@ Each(Optional(Nullable(Object)), {"geographic_anchor"}) @@ Each(List, {"features"}),
  HaulVehicleState |->
    Each(Text, {"phase"})
      @@ Each(Number, {"payload_fraction", "bed_angle_deg", "phase_progress", "cycle",
                       "road_elevation_m", "road_pitch_deg"}),
  VehiclePose |->
    Each(Optional(Nullable(Object)), {"haul"}) @@ Each(Text, {"vehicle_id"})
      @@ Each(Number, {"timestamp_ms", "x_m", "y_m", "heading_deg", "speed_mps",
                       "position_confidence"})
      @@ Each(DataModes, {"mode"}),
  RangeReading |->
    Each(Text, {"sensor_id"}) @@ Each(Bool, {"is_valid"}) @@ Each(DataModes, {"mode"})
      @@ Each(Number, {"timestamp_ms", "angle_deg", "range_m", "quality", "max_range_m"}),
  SpatialPoint |->
    Each(Text, {"source_sensor_id"})
      @@ Each(Number, {"x_m", "y_m", "height_hint_m", "quality", "timestamp_ms"}),
  MotionState |->
    Each(Number, {"timestamp_ms", "left_hall_ticks", "right_hall_ticks", "left_distance_m",
                  "right_distance_m", "imu_heading_deg", "imu_yaw_rate_dps",
                  "localization_confidence"})
      @@ Each(Bool, {"aruco_visible"}) @@ Each(Object, {"provider_confidence"})
      @@ Each(DataModes, {"mode"}),
  VisibilityMetrics |->
    Each(Number, {"contrast", "edge_density", "brightness", "entropy", "haze_proxy"})]

StreamStatuses      == {"disabled", "connecting", "live", "stale", "error", "simulated"}
EnhancementStatuses == {"disabled", "loading", "live", "stale", "error"}

StatusTypes == [
  CameraState |->
    Each(Nullable(Text), {"raw_frame_id", "enhanced_frame_id", "stream_detail",
                          "enhancement_detail", "enhancement_model", "enhancement_device",
                          "enhancement_precision", "ir_frame_id", "ir_detail", "ir_model",
                          "ir_device", "ir_precision"})
      @@ Each(Bool, {"raw_available", "enhancement_available", "ir_available"})
      @@ Each(Object, {"metrics"}) @@ Each(Nullable(Visibility), {"visibility_state"})
      @@ Each(Nullable(Number), {"visibility_score", "width_px", "height_px",
                                 "enhancement_latency_ms", "ir_latency_ms"})
      @@ Each(Number, {"timestamp_ms", "measured_fps", "enhancement_fps",
                       "enhancement_peak_vram_mb", "ir_fps", "ir_peak_vram_mb"})
      @@ Each(StreamStatuses, {"stream_status"})
      @@ Each(EnhancementStatuses, {"enhancement_status", "ir_status"})
      @@ Each(DataModes, {"mode"}),
  EnvironmentState |->
    Each(Number, {"timestamp_ms", "temperature_c", "pressure_hpa", "relative_altitude_m",
                  "visibility_score"})
      @@ Each(Visibility, {"visibility_state"}) @@ Each(DataModes, {"mode"}),
  EmergencyState |->
    Each(Levels, {"state"}) @@ Each(Nullable(Text), {"reason"}) @@ Each(Bool, {"motor_cut"})
      @@ Each(Number, {"confidence"})
      @@ Each(Nullable(Number), {"nearest_obstacle_m", "critical_distance_m",
                                 "latched_at_ms"}),
  SensorHealth |->
    Each(Text, {"sensor_id"}) @@ Each(Statuses, {"status"})
      @@ Each(Number, {"last_update_ms", "confidence"}) @@ Each(Nullable(Text), {"detail"}),
  RadarObject |->
    Each(Text, {"detection_id"}) @@ Each(DataModes, {"mode"})
      @@ Each(Number, {"timestamp_ms", "range_m", "bearing_deg", "relative_velocity_mps",
                       "confidence"}),
  AlertEvent |->
    Each(Text, {"event_id", "title", "detail", "vehicle_id"}) @@ Each(Number, {"timestamp_ms"})
      @@ Each({"INFO", "WARNING", "CRITICAL"}, {"severity"}),
  RecordingState |->
    Each(Bool, {"recording", "replaying"})
      @@ Each(Nullable(Text), {"recording_filename", "replay_filename"}),
  SimulationState |->
    Each(Bool, {"running", "obstacle_enabled"}) @@ Each(Scenarios, {"scenario"})
      @@ Each(Number, {"speed_scale", "visibility_score", "front_scanner_angle_deg",
                       "rear_scanner_angle_deg"})]

MessageTypes ==
  {"V2V_BSM", "V2V_PROXIMITY_ALERT", "V2I_ADVISORY", "V2I_INTERSECTION_PRIORITY",
   "V2I_EMERGENCY_BROADCAST"}
AdvisoryTypes ==
  {"FOG_WARNING", "SPEED_RESTRICTION", "HAZARD_ZONE", "PASSAGE_PRIORITY", "DISPATCH",
   "ROAD_MAINTENANCE"}

V2xTypes == [
  V2VBasicSafetyMessage |->
    Each(Text, {"message_id", "vehicle_id", "emergency_state", "corridor_state"})
      @@ Each(Number, {"timestamp_ms", "x_m", "y_m", "heading_deg", "speed_mps"})
      @@ Each(Nullable(Number), {"nearest_obstacle_m"}) @@ Each(Bool, {"brake_applied"}),
  V2IAdvisoryMessage |->
    Each(Text, {"message_id", "rsu_id", "rsu_name", "title", "detail"})
      @@ Each(Number, {"timestamp_ms"}) @@ Each(AdvisoryTypes, {"advisory_type"})
      @@ Each(Nullable(Number), {"speed_limit_kmh", "expires_at_ms", "zone_x_m", "zone_y_m",
                                 "zone_radius_m"}),
  V2XMessage |->
    Each(Text, {"message_id", "source_id", "target_id", "summary"})
      @@ Each(Number, {"timestamp_ms"}) @@ Each(MessageTypes, {"msg_type"})
      @@ Each(Optional(Nullable(Object)), {"bsm_payload", "advisory_payload"}),
  V2XPeerNode |->
    Each(Text, {"vehicle_id", "emergency_state"}) @@ Each(Optional(Number), {"bearing_deg"})
      @@ Each(Number, {"last_seen_ms", "x_m", "y_m", "distance_m", "speed_mps", "heading_deg",
                       "rssi_dbm"})
      @@ Each({"EXCELLENT", "GOOD", "DEGRADED", "LOST"}, {"link_status"}),
  V2XInfrastructureNode |->
    Each(Text, {"rsu_id", "name"}) @@ Each({"ACTIVE", "STANDBY", "OFFLINE"}, {"status"})
      @@ Each(Number, {"x_m", "y_m", "coverage_radius_m", "active_advisories_count"}),
  V2XState |->
    Each(Text, {"node_id", "protocol_version"}) @@ Each(Bool, {"enabled"})
      @@ Each(Number, {"timestamp_ms", "tx_packet_count", "rx_packet_count",
                       "channel_frequency_mhz"})
      @@ Each(List, {"active_peers", "infrastructure_nodes", "active_advisories",
                     "recent_messages"}),
  HaulRouteState |->
    Each(Optional(Number), {"cycle"})
      @@ Each(Optional(Bool), {"traffic_slowing", "lead_waiting", "obstacle_detected"})
      @@ Each(Optional(Nullable(Number)), {"obstacle_distance_m"})
      @@ Each(Optional(List), {"planned_path"}) @@ Each(Nullable(Object), {"obstacle"})
      @@ Each(Text, {"origin", "destination", "next_instruction"})
      @@ Each({"HAULING", "OBSTACLE", "WAITING", "ARRIVED"}, {"phase"})
      @@ Each(Number, {"distance_m", "total_distance_m", "remaining_m", "elapsed_s",
                       "obstacle_radius_m"})]

WorldStateTypes == [
  VehicleTelemetry |->
    Each({"DUMPER_01", "DUMPER_02"}, {"vehicle_id"}) @@ Each(Number, {"received_at_ms"})
      @@ Each(Bool, {"online"}) @@ Each(Object, {"gps"}) @@ Each(Nullable(Object), {"load"}),
  GpsTelemetry |->
    Each(Bool, {"fix"}) @@ Each(Number, {"sats", "bytes"})
      @@ Each(Nullable(Number), {"lat", "lon", "alt_m", "speed_mps", "hdop", "age"}),
  LoadTelemetry |->
    Each(Bool, {"ready", "tared", "taring", "calibrated"}) @@ Each(Number, {"zero_offset"})
      @@ Each(Nullable(Number), {"raw", "net_raw", "kg"}),
  LiveObject |->
    Each(Text, {"object_id", "object_type", "source"}) @@ Each(DataModes, {"mode"})
      @@ Each(Number, {"timestamp_ms", "x_m", "y_m", "confidence"}),
  SafeCorridor |->
    Each(Corridors, {"state"}) @@ Each(List, {"polygon", "exclusions"})
      @@ Each(Number, {"confidence"}) @@ Each(Text, {"reason"}),
  OccupancyState |->
    Each(Number, {"resolution_m", "width", "height", "updated_at_ms"})
      @@ Each(Object, {"origin"}) @@ Each(List, {"occupied_cells"}),
  GridCell |-> Each(Number, {"column", "row", "hit_count", "height_hint_m"}),
  WorldState |->
    Each({"1.0"}, {"schema_version"}) @@ Each(DataModes, {"mode"})
      @@ Each(Text, {"primary_vehicle_id"}) @@ Each(Number, {"generated_at_ms", "sequence"})
      @@ Each(List, {"vehicles", "ranges", "live_objects", "radar_objects", "sensor_health",
                     "spatial_points", "alerts"})
      @@ Each(Nullable(Object), {"reference_map"})
      @@ Each(Object, {"motion", "camera", "environment", "emergency", "safe_corridor",
                       "occupancy", "recording", "simulation"})
      @@ Each(Optional(List), {"vehicle_telemetry"})
      @@ Each(Optional(Nullable(Object)), {"haul_route"})
      @@ Each(Optional(Object), {"v2x", "operations"})]

OperationsTypes == [
  VehicleOperationalMetadata |->
    Each(Text, {"vehicle_id", "callsign", "assigned_pickup", "assigned_dump",
                "current_destination", "next_instruction", "emergency_state", "color"})
      @@ Each(Bool, {"is_primary", "is_simulated"}) @@ Each(CycleStates, {"cycle_state"})
      @@ Each(Number, {"payload_tonnes", "tare_weight_tonnes", "total_weight_tonnes",
                       "elevation_m", "distance_to_destination_m", "total_trips_completed",
                       "total_tonnes_moved", "target_payload_tonnes"})
      @@ Each(Nullable(Text), {"current_edge_id"}),
  TacticalGuidance |-> MineTypes.GuidanceResponse,
  HaulageMetricsSummary |->
    Each(Number, {"total_completed_cycles", "total_ore_moved_tonnes",
                  "avg_cycle_time_minutes", "fleet_utilization_pct", "total_distance_km",
                  "active_fleet_count", "hourly_production_rate_tph"})
      @@ Each(Nullable(Number), {"route_compliance_pct"})
      @@ Each(List, {"recent_delay_events"}),
  NavigationRoute |->
    Each(Text, {"route_id", "vehicle_id", "start_node_id", "end_node_id"})
      @@ Each(Number, {"payload_tonnes", "total_distance_m", "estimated_time_s",
                       "max_gradient_pct", "average_speed_kmh", "total_cost"})
      @@ Each(List, {"path_nodes", "edge_ids", "waypoints", "instructions"}),
  RerouteAdvisory |->
    Each(Text, {"advisory_id", "vehicle_id", "trigger_edge_id", "trigger_reason",
                "original_route_id"})
      @@ Each(Number, {"timestamp_ms"}) @@ Each(Object, {"new_route"})
      @@ Each(Bool, {"alternate_found"}),
  MineOperationsState |->
    Each(Nullable(Object), {"network"}) @@ Each(Object, {"fleet", "routes", "guidance",
                                                         "analytics_summary"})
      @@ Each(List, {"reroute_advisories"}) @@ Each(Text, {"provenance"})
      @@ Each(Number, {"network_version"})]

Declared == MineTypes @@ TripTypes @@ PoseTypes @@ StatusTypes @@ V2xTypes
              @@ WorldStateTypes @@ OperationsTypes
==============================================================================
