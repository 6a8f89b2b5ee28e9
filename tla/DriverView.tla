----------------------------- MODULE DriverView -----------------------------
(***************************************************************************)
(* The driver's view (driver/DriverDashboard.tsx and what it renders): the *)
(* forward hazard it remembers between worlds, the verdicts it shows, the  *)
(* camera, the small map and the route map.                                *)
(*                                                                         *)
(* React runs a render and the effects it causes before the next event, so *)
(* each action is an event and the whole render that follows: Render.  A   *)
(* world is reduced to what the verdicts tell apart (Worlds): an object    *)
(* ahead has a place, 0 when it is not ahead at all, 1 when it is nearer   *)
(* than 1.5 m, up to EnterZone where an alert begins and WideZone where    *)
(* the alert of the same object still stands.                              *)
(***************************************************************************)
EXTENDS MarkerLayers, FiniteSets

CONSTANTS
  Peers,       \* the vehicles heard over V2X
  Worlds,      \* the worlds the runs explore, without their times
  Hold,        \* ENCOUNTER_HOLD_MS in units of the model's time
  MaxAt        \* the last generated_at_ms the runs explore

Objects   == {"rock", "truck"}
EnterZone == 2
WideZone  == 3
ToFCount  == 5
Levels    == {"SAFE", "WARNING", "CRITICAL", "EMERGENCY_STOP"}

CameraWorld == [mode : {"LIVE", "SIMULATED", "REPLAY", "NONE"}, raw : BOOLEAN,
                ir : BOOLEAN, status : {"CONNECTING", "STREAMING"}]

WorldType == [mode : {"LIVE", "SIMULATED", "REPLAY"}, reported : BOOLEAN, confident : BOOLEAN,
              places : [Objects -> 0 .. WideZone + 1], emergency : Levels, cut : BOOLEAN,
              corridor : {"GREEN", "YELLOW", "RED", "GREY"}, trusted : 0 .. ToFCount,
              alert : BOOLEAN, camera : CameraWorld,
              peers : [Peers -> {"absent"} \cup Levels], route : BOOLEAN]

VARIABLES
  connection,   \* useTelemetry's connection
  world, at,    \* the world shown and its generated_at_ms
  forward,      \* forwardRef: the hazard ahead
  extended,     \* isMapExtended
  awareness,    \* awarenessMode
  stream,       \* CameraAwareness: [failed, retry]
  minimap,      \* the small map, or Unmounted
  modal         \* the route map, or Unmounted

driverVars == <<connection, world, at, forward, extended, awareness, stream, minimap, modal>>

NoHazard  == [id |-> "none", place |-> 0, lastSeen |-> 0]
Unmounted == [mounted |-> FALSE]

-----------------------------------------------------------------------------
(***************************************************************************)
(* spatial/forwardHazard.ts                                                *)
(***************************************************************************)
\* eligible: an object is in the zone, the wider one if it is the one alerted of.
Ahead(w, previous) ==
  {o \in Objects : w.places[o] \in 1 .. (IF previous.id = o THEN WideZone ELSE EnterZone)}

\* The nearest candidate; the rock is the first of two as near.
NearestOf(w, candidates) ==
  CHOOSE o \in candidates :
    /\ \A p \in candidates : w.places[o] <= w.places[p]
    /\ "rock" \in candidates /\ w.places["rock"] = w.places[o] => o = "rock"

\* A slip: a hazard is held whatever the new world's time.
SelectForwardTimeless(w, t, previous) ==
  IF w.mode # "SIMULATED" \/ ~w.confident THEN NoHazard
  ELSE IF Ahead(w, previous) # {}
  THEN LET o == NearestOf(w, Ahead(w, previous)) IN
       [id |-> o, place |-> w.places[o], lastSeen |-> t]
  ELSE IF previous # NoHazard /\ t < previous.lastSeen + Hold THEN previous ELSE NoHazard

(***************************************************************************)
(* selectSimulatedForwardHazard: the nearest object ahead, or the last one *)
(* for as long as an encounter is held.  Time goes back when the recorded  *)
(* demo starts over.                                                       *)
(***************************************************************************)
SelectForward(w, t, previous) ==
  IF w.mode # "SIMULATED" \/ ~w.confident THEN NoHazard
  ELSE IF Ahead(w, previous) # {}
  THEN LET o == NearestOf(w, Ahead(w, previous)) IN
       [id |-> o, place |-> w.places[o], lastSeen |-> t]
  ELSE IF previous # NoHazard /\ t >= previous.lastSeen /\ t - previous.lastSeen < Hold
       THEN previous ELSE NoHazard

-----------------------------------------------------------------------------
(***************************************************************************)
(* DriverDashboard: what the view says.                                    *)
(***************************************************************************)
\* A slip: a world without the vehicle counts as its telemetry.
AvailableConnected(w, c) == c = "CONNECTED"

\* vehicleTelemetryAvailable
Available(w, c) == c = "CONNECTED" /\ w.reported

\* displayEmergencyState: a simulated world's level is that of the hazard ahead.
DisplayEmergency(w, hazard) ==
  IF w.mode = "SIMULATED" /\ w.emergency # "EMERGENCY_STOP"
  THEN IF hazard = NoHazard THEN "SAFE" ELSE IF hazard.place = 1 THEN "CRITICAL" ELSE "WARNING"
  ELSE w.emergency

\* emergencyControlState
EmergencyControl(w, c, hazard) ==
  LET level == DisplayEmergency(w, hazard) IN
  IF ~Available(w, c) THEN "UNVERIFIED"
  ELSE IF w.cut THEN "MOTOR CUT"
  ELSE IF level = "EMERGENCY_STOP" THEN "STOP REQUEST"
  ELSE IF level = "SAFE" THEN "NO STOP REQUEST"
  ELSE level

\* The banner over the view; "none" is the only one that reassures.
Banner(w, c, hazard) ==
  IF ~Available(w, c)
  THEN IF c = "CONNECTING" THEN "CONNECTING"
       ELSE IF c = "CONNECTED" THEN "VEHICLE DATA MISSING" ELSE "TELEMETRY LOST"
  ELSE IF DisplayEmergency(w, hazard) # "SAFE" THEN DisplayEmergency(w, hazard)
  ELSE IF w.mode = "LIVE" /\ w.alert THEN "PROXIMITY ALERT"
  ELSE "none"

\* corridorState of the card: GREY unless every ToF sensor is trusted.
CardCorridor(w, c) ==
  IF Available(w, c) /\ w.trusted = ToFCount THEN w.corridor ELSE "GREY"

-----------------------------------------------------------------------------
(***************************************************************************)
(* driver/CampusMinimap.tsx and driver/CampusExtendedMapModal.tsx: each    *)
(* world's peers are reconciled with the markers there are.                *)
(***************************************************************************)
Present(w) == {p \in Peers : w.peers[p] # "absent"}
Colour(w, p) == IF w.peers[p] = "SAFE" THEN "amber" ELSE "red"
Colours(w) == [p \in Present(w) |-> Colour(w, p)]

\* The map made by the effect of the first render.
NewMinimap  == [mounted |-> TRUE, follow |-> TRUE, peers |-> NoMarkers]
NewModal(w) == [mounted |-> TRUE, follow |-> TRUE, peers |-> NoMarkers,
                drawn |-> w.route, shown |-> TRUE]

\* The small map paints a marker when it creates it.
WithPeers(map, w) == [map EXCEPT !.peers = Reconciled(@, Colours(w))]

\* The route map repaints the markers it has.
WithPaintedPeers(map, w) == [map EXCEPT !.peers = ReconciledAndPainted(@, Colours(w))]

NextMinimap(w, c) ==
  IF ~Available(w, c) THEN Unmounted
  ELSE WithPeers(IF minimap.mounted THEN minimap ELSE NewMinimap, w)

\* The route map draws the route when it is opened.
NextModal(w, c, open) ==
  IF ~open \/ ~Available(w, c) THEN Unmounted
  ELSE WithPaintedPeers(IF modal.mounted THEN modal ELSE NewModal(w), w)

-----------------------------------------------------------------------------
(***************************************************************************)
(* driver/CameraAwareness.tsx                                              *)
(***************************************************************************)
LiveCamera(w, c) ==
  Available(w, c) /\ w.mode = "LIVE" /\ w.camera.mode = "LIVE" /\ w.camera.raw

SimulatedCamera(w) == w.mode = "SIMULATED" /\ w.camera.mode = "SIMULATED"

\* cameraSource: the stream and its retry, or the still picture.
CameraSource(w, c, retry) ==
  IF LiveCamera(w, c) THEN <<IF w.camera.ir THEN "ir" ELSE "raw", retry>> ELSE <<"still">>

\* What the effect that clears a stream's failure depends on.
StreamKey(w, c, retry, mode) == <<CameraSource(w, c, retry), mode, w.camera.status>>

\* The camera's picture is on the page.
CameraShown ==
  awareness = "CAMERA" /\ ~stream.failed /\ (LiveCamera(world, connection) \/ SimulatedCamera(world))

-----------------------------------------------------------------------------
\* A render with world w of time t, and the effects it causes.
Render(w, t, c, open, mode, retry) ==
  /\ world' = w /\ at' = t /\ connection' = c /\ awareness' = mode
  /\ forward' = IF Available(w, c) THEN SelectForward(w, t, forward) ELSE NoHazard
  /\ extended' = (open /\ Available(w, c))
  /\ minimap' = NextMinimap(w, c)
  /\ modal' = NextModal(w, c, open)
  /\ stream' = [failed |-> stream.failed
                  /\ StreamKey(w, c, retry, mode)
                       = StreamKey(world, connection, stream.retry, awareness),
                retry |-> retry]

DriverInit ==
  /\ connection = "CONNECTING"
  /\ world \in Worlds /\ at = 0
  /\ forward = NoHazard
  /\ extended = FALSE
  /\ awareness = "CAMERA"
  /\ stream = [failed |-> FALSE, retry |-> 0]
  /\ minimap = Unmounted /\ modal = Unmounted

\* The hook passes a world on: the demo may have started over.
WorldShown ==
  \E w \in Worlds, t \in {0, at, at + 1} :
    t <= MaxAt /\ Render(w, t, "CONNECTED", extended, awareness, stream.retry)

\* The hook reports the connection lost or opening; the world stays.
ConnectionReported ==
  \E c \in {"CONNECTING", "STALE", "DISCONNECTED"} \ {connection} :
    Render(world, at, c, extended, awareness, stream.retry)

\* The driver chooses the camera or the LiDAR.
ChooseAwareness ==
  \E mode \in {"CAMERA", "LIDAR"} \ {awareness} :
    Render(world, at, connection, extended, mode, stream.retry)

ExpandMap == minimap.mounted /\ Render(world, at, connection, TRUE, awareness, stream.retry)

\* The button, the backdrop or Escape.
CloseMap == modal.mounted /\ Render(world, at, connection, FALSE, awareness, stream.retry)

\* The stream's picture ends in an error (IRCameraCanvas onError).
StreamFails ==
  /\ CameraShown
  /\ stream' = [stream EXCEPT !.failed = TRUE]
  /\ UNCHANGED <<connection, world, at, forward, extended, awareness, minimap, modal>>

\* Retry live camera; a retry only matters by being another one.
RetryStream ==
  /\ awareness = "CAMERA" /\ ~CameraShown /\ world.mode = "LIVE"
  /\ stream' = [failed |-> FALSE, retry |-> 1 - stream.retry]
  /\ UNCHANGED <<connection, world, at, forward, extended, awareness, minimap, modal>>

\* Dragging a map stops it following, its button makes it follow again.
MoveMinimap ==
  /\ minimap.mounted
  /\ minimap' = [minimap EXCEPT !.follow = ~@]
  /\ UNCHANGED <<connection, world, at, forward, extended, awareness, stream, modal>>

\* The same for the route map, where choosing a vehicle also stops it.
MoveModal ==
  /\ modal.mounted
  /\ \E follow \in BOOLEAN : modal' = [modal EXCEPT !.follow = follow]
  /\ UNCHANGED <<connection, world, at, forward, extended, awareness, stream, minimap>>

ToggleRoute ==
  /\ modal.mounted
  /\ modal' = [modal EXCEPT !.shown = ~@]
  /\ UNCHANGED <<connection, world, at, forward, extended, awareness, stream, minimap>>

\* The driver goes to another view and comes back: a new component.
Remounted ==
  /\ forward' = IF Available(world, connection)
                THEN SelectForward(world, at, NoHazard) ELSE NoHazard
  /\ extended' = FALSE
  /\ modal' = Unmounted
  /\ minimap' = IF Available(world, connection) THEN WithPeers(NewMinimap, world) ELSE Unmounted
  /\ stream' = [failed |-> FALSE, retry |-> 0]
  /\ UNCHANGED <<connection, world, at, awareness>>

\* StrictMode (main.tsx 7-9): a development build cleans up after the effects of a
\* component it has mounted and runs them again, with the refs there are; so does the
\* development server when the component's file changes.
EffectsReplayed ==
  /\ minimap.mounted
  /\ minimap' = WithPeers([minimap EXCEPT !.peers = CleanedUp(@)], world)
  /\ modal' = IF modal.mounted
              THEN WithPaintedPeers([modal EXCEPT !.peers = CleanedUp(@), !.drawn = world.route], world)
              ELSE modal
  /\ UNCHANGED <<connection, world, at, forward, extended, awareness, stream>>

DriverNext ==
  \/ WorldShown \/ ConnectionReported
  \/ ChooseAwareness \/ StreamFails \/ RetryStream
  \/ ExpandMap \/ CloseMap
  \/ MoveMinimap \/ MoveModal \/ ToggleRoute
  \/ Remounted \/ EffectsReplayed

-----------------------------------------------------------------------------
(***************************************************************************)
(* The hazard of a simulated world: an object in the alert's zone is never *)
(* passed over, for a nearer one or for a memory; and a memory is of an    *)
(* encounter of this recording, younger than the hold, and forgotten with  *)
(* the vehicle (forwardHazard.ts, DriverDashboard.tsx 62-64).              *)
(***************************************************************************)
HazardIsTrue ==
  /\ Available(world, connection) /\ world.mode = "SIMULATED" /\ world.confident =>
       \A o \in Objects : world.places[o] \in 1 .. EnterZone =>
         forward.lastSeen = at /\ forward.place \in 1 .. world.places[o]
  /\ forward # NoHazard =>
       /\ Available(world, connection) /\ world.mode = "SIMULATED"
       /\ forward.lastSeen <= at /\ at < forward.lastSeen + Hold

(***************************************************************************)
(* Nothing reassures without evidence (docs/IMPLEMENTATION_STATUS.md       *)
(* 365-366): the card is green only with the vehicle and every ToF sensor  *)
(* behind it; no banner and no stop request mean that the backend          *)
(* announced no stop and that nothing is near; maps show only a vehicle.   *)
(***************************************************************************)
ClearIsVerified ==
  LET near == world.mode = "SIMULATED" /\ world.confident
              /\ \E o \in Objects : world.places[o] \in 1 .. EnterZone
      verified == connection = "CONNECTED" /\ world.reported IN
  /\ CardCorridor(world, connection) = "GREEN" =>
       verified /\ world.corridor = "GREEN" /\ world.trusted = ToFCount
  /\ \/ EmergencyControl(world, connection, forward) = "NO STOP REQUEST" /\ ~world.cut
     \/ Banner(world, connection, forward) = "none"
     => /\ verified /\ ~near
        /\ world.emergency # "EMERGENCY_STOP"
        /\ world.mode # "SIMULATED" => world.emergency = "SAFE"
  /\ minimap.mounted \/ modal.mounted => verified
  /\ stream.failed => awareness = "CAMERA"

(***************************************************************************)
(* Both maps carry one marker for each peer of the world shown and none    *)
(* for another, and hold exactly those, through peers that come and go in  *)
(* any order, a connection that drops and effects that are replayed; on    *)
(* the route map it is red when, and only when, its peer is not safe       *)
(* (CampusMinimap.tsx 180-219, CampusExtendedMapModal.tsx 203-243).        *)
(***************************************************************************)
MapsShowThePeers ==
  /\ minimap.mounted => OneMarkerEach(minimap.peers, Present(world))
  /\ modal.mounted =>
       /\ extended
       /\ OneMarkerEach(modal.peers, Present(world))
       /\ \A l \in DOMAIN modal.peers.layers : modal.peers.layers[l] = Colour(world, l.of)
==============================================================================
