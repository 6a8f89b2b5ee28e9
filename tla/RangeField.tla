----------------------------- MODULE RangeField -----------------------------
(***************************************************************************)
(* The ranges of a LIVE world on their way to the eye: the points the      *)
(* backend keeps of them (mapping/occupancy.py, live_runtime.py), and the  *)
(* three displays that judge them, each in code of its own: the driver's   *)
(* banner (driver/DriverDashboard.tsx), the range field beside it          *)
(* (driver/ProximityWidget.tsx) and the spatial view                       *)
(* (spatial/SpatialDashboard.tsx, spatial/PointCloudMapping.tsx), which    *)
(* shows a recorded preview when nothing is measured.                      *)
(*                                                                         *)
(* The truck stands, and a fixed direction is all a sensor sees: a point's *)
(* cell is its distance.  The unit of age is a third of the age limit of   *)
(* points; readings are younger than it (serial_stale_ms).                 *)
(***************************************************************************)
EXTENDS Naturals, Sequences, SequencesExt, FiniteSetsExt, Selection

CONSTANTS
  RangeSensors,   \* RANGE_SENSOR_IDS, in their order
  Distances,      \* what each of them may measure
  MaxRange,       \* a reading of this is of nothing
  AlertDistance,  \* alert_distance_m
  VisualRange,    \* visual_range_m
  MaxPoints,      \* OccupancyAccumulator's deque
  MaxPublished,   \* points in a snapshot
  MaxRendered,    \* MAX_RENDERED_POINTS
  PointAge        \* MAX_POINT_AGE_MS, and recent_points' age_ms

VARIABLES
  health,      \* sensor_health of the world
  ranges,      \* ranges of the world: a distance, or Nothing
  deque,       \* the accumulator's points
  points,      \* spatial_points of the world
  linked,      \* the page's connection is CONNECTED
  request,     \* previewRequest: "none", "pending" or "loaded"
  spatialView  \* PointCloudMapping: [preview, error, listening]

rangeVars == <<health, ranges, deque, points, linked, request, spatialView>>

Nothing    == 0
SensorSet  == Range(RangeSensors)
Unmeasured == [s \in SensorSet |-> Nothing]
Together(s, status) == [t \in s |-> status]

RangesAssumption ==
  /\ {MaxRange, AlertDistance, VisualRange, MaxPoints, MaxPublished, MaxRendered, PointAge}
       \subseteq Nat
  /\ \A s \in SensorSet : Distances[s] \subseteq 1 .. MaxRange
  /\ RangeSensors \in Seq(SensorSet)
  /\ MaxRendered >= Len(RangeSensors)

-----------------------------------------------------------------------------
(***************************************************************************)
(* The page: which readings and which points each display takes.           *)
(***************************************************************************)
OnScreen(status) == status \in {"HEALTHY", "DEGRADED"}

\* availableRangeReadings, from which the driver's view and the spatial view start.
Available == {s \in SensorSet : linked /\ OnScreen(health[s]) /\ ranges[s] # Nothing}

\* getSensorThreatLevel
Threat(s) ==
  IF ranges[s] = Nothing THEN "UNKNOWN"
  ELSE IF ranges[s] <= AlertDistance THEN "ALERT"
  ELSE IF 2 * ranges[s] <= 3 * AlertDistance THEN "CAUTION" ELSE "CLEAR"

Alerts(trusted) == {s \in trusted : Threat(s) = "ALERT"}

\* DriverDashboard: the sensor of the proximity banner, the nearest that alerts.
BannerSensors ==
  {s \in Alerts(Available) : \A t \in Alerts(Available) : ranges[s] <= ranges[t]}

\* DriverDashboard: Nearest obstacle.
NearestShown ==
  IF Available = {} THEN Nothing ELSE Min({ranges[s] : s \in Available})

\* ProximityWidget judges what it is given once more, with the health it is given.
WidgetTrusted == {s \in Available : linked /\ OnScreen(health[s])}
WidgetCards   == [s \in SensorSet |-> IF s \in WidgetTrusted THEN Threat(s) ELSE "UNKNOWN"]

\* SpatialDashboard: the first of the settings whose sensor alerts.
SpatialHazards == {s \in SensorSet : s \in Available /\ Threat(s) = "ALERT"}

-----------------------------------------------------------------------------
(***************************************************************************)
(* availableSpatialPoints: the newest usable point of each cell, then one  *)
(* of each sensor in turn until the budget is spent.                       *)
(***************************************************************************)
Usable(p, h) == OnScreen(h[p.sensor]) /\ p.age <= PointAge /\ p.cell <= VisualRange

SameCell(p, q) == p.sensor = q.sensor /\ p.cell = q.cell

\* The positions in ps of the points that stand for their cells.
Cells(ps, h) ==
  {i \in DOMAIN ps : /\ Usable(ps[i], h)
                     /\ \A j \in DOMAIN ps :
                          Usable(ps[j], h) /\ SameCell(ps[i], ps[j]) =>
                            ps[j].age > ps[i].age \/ (ps[j].age = ps[i].age /\ j <= i)}

\* Newest first; points of one time in the order their cells came.
FirstOf(ps, h, i) ==
  Min({j \in DOMAIN ps : Usable(ps[j], h) /\ SameCell(ps[i], ps[j])})
Newer(ps, h, i, j) ==
  \/ ps[i].age < ps[j].age
  \/ ps[i].age = ps[j].age /\ FirstOf(ps, h, i) < FirstOf(ps, h, j)

\* Where a point stands in the bucket of its sensor.
Turn(ps, h, i) ==
  Cardinality({j \in Cells(ps, h) : ps[j].sensor = ps[i].sensor /\ Newer(ps, h, j, i)})

\* The bucket of a sensor was made when its newest point was met.
Bucket(ps, h, i) ==
  CHOOSE j \in Cells(ps, h) : ps[j].sensor = ps[i].sensor /\ Turn(ps, h, j) = 0

\* A slip: the newest points are taken, whichever sensor they are of.
BeforeNewest(ps, h, i, j) == Newer(ps, h, i, j)

Before(ps, h, i, j) ==
  \/ Turn(ps, h, i) < Turn(ps, h, j)
  \/ /\ Turn(ps, h, i) = Turn(ps, h, j)
     /\ Newer(ps, h, Bucket(ps, h, i), Bucket(ps, h, j))

AvailableSpatialPoints(ps, h, connected) ==
  IF ~connected THEN {}
  ELSE {ps[i] : i \in {k \in Cells(ps, h) :
                         Cardinality({j \in Cells(ps, h) : Before(ps, h, j, k)}) < MaxRendered}}

\* buildLidarFrame of the spatial view, and the points the widget keeps of the driver's.
Measured     == AvailableSpatialPoints(points, health, linked)
WidgetPoints == {p \in Measured : p.sensor \in WidgetTrusted}

\* Its source, for a LIVE world.
Source ==
  IF Measured # {} THEN "MEASURED"
  ELSE IF spatialView.preview THEN "SIMULATED_PREVIEW" ELSE "WAITING"

-----------------------------------------------------------------------------
(***************************************************************************)
(* PointCloudMapping: previewRequest is shared by every one that is ever   *)
(* mounted; its effect runs when needsPreview changes.                     *)
(***************************************************************************)
\* Nothing is drawn when no point is usable: each stands for its cell, or another does.
Waits(ps, h, connected, preview) ==
  ~(connected /\ \E i \in DOMAIN ps : Usable(ps[i], h)) /\ ~preview
NeedsPreview == Waits(points, health, linked, spatialView.preview)

\* loadPreview
LoadPreview == request' = IF request = "none" THEN "pending" ELSE request

\* A render of the mounted view with what it is given.
Rendered(ps, h, connected) ==
  LET needs == Waits(ps, h, connected, spatialView.preview) IN
  /\ spatialView' = [spatialView EXCEPT
       !.listening = needs /\ (NeedsPreview => @)]
  /\ IF needs /\ ~NeedsPreview THEN LoadPreview ELSE UNCHANGED request

\* The preview is there; the views that still listen take it.
PreviewArrives ==
  /\ request = "pending" \/ (request = "loaded" /\ spatialView.listening)
  /\ request' = "loaded"
  /\ IF spatialView.listening
     THEN spatialView' = [preview |-> TRUE, error |-> FALSE, listening |-> FALSE]
     ELSE UNCHANGED spatialView
  /\ UNCHANGED <<health, ranges, deque, points, linked>>

\* It could not be had, or was no preview; the next request starts over.
PreviewFails ==
  /\ request = "pending"
  /\ request' = "none"
  /\ spatialView' = IF spatialView.listening
                    THEN [spatialView EXCEPT !.error = TRUE, !.listening = FALSE]
                    ELSE spatialView
  /\ UNCHANGED <<health, ranges, deque, points, linked>>

\* The operator leaves the spatial view and comes back.
SpatialRemounted ==
  LET needs == Waits(points, health, linked, FALSE) IN
  /\ spatialView' = [preview |-> FALSE, error |-> FALSE, listening |-> needs]
  /\ IF needs THEN LoadPreview ELSE UNCHANGED request
  /\ UNCHANGED <<health, ranges, deque, points, linked>>

-----------------------------------------------------------------------------
(***************************************************************************)
(* The backend, and the page that is sent its world.                       *)
(***************************************************************************)
World(h, r, d, ps) ==
  /\ health' = h /\ ranges' = r /\ deque' = d /\ points' = ps /\ linked' = TRUE
  /\ Rendered(ps, h, TRUE)

RangesInit ==
  /\ health = Together(SensorSet, "OFFLINE")
  /\ ranges = Unmeasured
  /\ deque = << >> /\ points = << >>
  /\ linked = FALSE
  /\ request = "pending"
  /\ spatialView = [preview |-> FALSE, error |-> FALSE, listening |-> TRUE]

\* _range and _health: only a healthy component measures.
Samples(s) ==
  {<<"STALE", Nothing>>, <<"DEGRADED", Nothing>>}
    \cup {<<"HEALTHY", d>> : d \in Distances[s] \cup {Nothing}}

\* OccupancyAccumulator.add: a point of every sensor that sees something.
PointsOf(r) ==
  LET seen == Picked(RangeSensors, {i \in DOMAIN RangeSensors :
                                      r[RangeSensors[i]] \in 1 .. MaxRange - 1})
  IN  [i \in DOMAIN seen |-> [sensor |-> seen[i], cell |-> r[seen[i]], age |-> 0, old |-> FALSE]]

LastOf(n, seq) == SubSeq(seq, IF Len(seq) > n THEN Len(seq) - n + 1 ELSE 1, Len(seq))

Aged(seq) ==
  [i \in DOMAIN seq |-> [seq[i] EXCEPT !.age = IF @ > PointAge THEN @ ELSE @ + 1]]

\* recent_points, and the newest of them in the snapshot.
Published(d) == LastOf(MaxPublished, Picked(d, {i \in DOMAIN d : d[i].age <= PointAge}))

\* What is still in the deque has outlived an interruption.
Outlived(d) == [i \in DOMAIN d |-> [d[i] EXCEPT !.old = TRUE]]

Cleared(d) == << >>

PublishRanges(kept) ==
  \E sample \in [SensorSet -> UNION {Samples(s) : s \in SensorSet}] :
    /\ \A s \in SensorSet : sample[s] \in Samples(s)
    /\ LET r == [s \in SensorSet |-> sample[s][2]]
           d == LastOf(MaxPoints, Aged(kept) \o PointsOf(r))
       IN  World([s \in SensorSet |-> sample[s][1]], r, d, Published(d))

\* _publish_sample
SamplePublished == PublishRanges(deque)

\* _accept_packet has seen MAIN restart: what was measured before is forgotten.
ControllerReset == PublishRanges(Cleared(Outlived(deque)))

\* A slip: an outage empties the snapshot and not the accumulator.
UnavailablePublishedKept ==
  \E status \in {"STALE", "OFFLINE"} :
    World(Together(SensorSet, status), Unmeasured, Outlived(deque), << >>)

\* _publish_unavailable
UnavailablePublished ==
  \E status \in {"STALE", "OFFLINE"} :
    World(Together(SensorSet, status), Unmeasured, Cleared(Outlived(deque)), << >>)

\* The page's connection is reported lost, and the world stays.
LinkLost ==
  /\ linked
  /\ linked' = FALSE
  /\ Rendered(points, health, FALSE)
  /\ UNCHANGED <<health, ranges, deque, points>>

RangesNext ==
  \/ SamplePublished \/ ControllerReset \/ UnavailablePublished \/ LinkLost
  \/ PreviewArrives \/ PreviewFails \/ SpatialRemounted

RangesSpec == RangesInit /\ [][RangesNext]_rangeVars

-----------------------------------------------------------------------------
(***************************************************************************)
(* The displays agree on what is near: the driver is alerted of a sensor   *)
(* exactly when the spatial view is and the sensor's card is red, never by *)
(* one that is not trusted, and the nearest obstacle is the banner's when  *)
(* there is a banner (DriverDashboard.tsx 46-60, ProximityWidget.tsx       *)
(* 338-360, SpatialDashboard.tsx 24-31).                                   *)
(***************************************************************************)
AlertsAgree ==
  /\ BannerSensors \subseteq SpatialHazards
  /\ SpatialHazards = {s \in SensorSet : WidgetCards[s] = "ALERT"}
  /\ SpatialHazards # {} => \E s \in BannerSensors : ranges[s] = NearestShown
  /\ \A s \in SensorSet : linked /\ ranges[s] \in 1 .. AlertDistance => s \in SpatialHazards
  /\ SpatialHazards # {} => linked /\ \A s \in SpatialHazards : health[s] = "HEALTHY"

(***************************************************************************)
(* "Repeated fixed-sensor samples must not evict an entire scanner sweep"  *)
(* (spatialPoints.ts:69): no sensor that has a point to show is without    *)
(* one, no cell is shown twice, and a point shown is its sensor's newest   *)
(* there, is recent, and was measured since the last outage or restart.    *)
(***************************************************************************)
PointsAreEvidence ==
  /\ (Source = "WAITING") <=> NeedsPreview
  /\ Cardinality(Measured) <= MaxRendered
  /\ \A p, q \in Measured : SameCell(p, q) => p = q
  /\ \A p \in Measured :
       /\ linked /\ OnScreen(health[p.sensor])
       /\ p.age <= PointAge /\ p.cell <= VisualRange /\ ~p.old
       /\ \A i \in DOMAIN points : SameCell(points[i], p) => p.age <= points[i].age
  /\ linked =>
       \A i \in DOMAIN points :
         Usable(points[i], health) => \E p \in Measured : p.sensor = points[i].sensor
  /\ \A p \in WidgetPoints : ranges[p.sensor] # Nothing

(***************************************************************************)
(* A spatial view that waits for surroundings hears of them, or says that  *)
(* it cannot, whoever asked for them first (PointCloudMapping.tsx 30-57).  *)
(***************************************************************************)
WaitIsHeard ==
  Source = "WAITING" => spatialView.error \/ (spatialView.listening /\ request # "none")

RangesAreEvidence == AlertsAgree /\ PointsAreEvidence /\ WaitIsHeard
==============================================================================
