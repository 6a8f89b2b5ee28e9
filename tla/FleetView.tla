------------------------------ MODULE FleetView ------------------------------
(***************************************************************************)
(* The supervisor's view (supervisor/SupervisorDashboard.tsx and what it   *)
(* renders): the fleet and its exceptions, computed anew from each world,  *)
(* the section and the vehicle selected, the maps, and the panel that      *)
(* sends advisories to the vehicles.                                       *)
(*                                                                         *)
(* Vehicles are numbered in the order of their names.  A world says of a   *)
(* vehicle only what its tone, its place in the list and its exceptions    *)
(* are decided from.                                                       *)
(***************************************************************************)
EXTENDS MarkerLayers, FiniteSets, Sequences

CONSTANTS
  Vehicles,    \* every vehicle there may be
  Primary,     \* world.primary_vehicle_id
  Fleets,      \* the worlds the runs explore
  MaxSends     \* how many advisories the runs send

ToFCount == 5
Levels   == {"SAFE", "WARNING", "CRITICAL", "EMERGENCY_STOP"}
Links    == {"GOOD", "DEGRADED", "LOST"}
Tones    == {"nominal", "attention", "critical", "lost", "unknown"}
Sections == {"overview", "fleet", "efficiency", "alerts", "network"}

PartialOn(S, T) == UNION {[D -> T] : D \in SUBSET S}

FleetType ==
  [mode : {"LIVE", "SIMULATED"},
   placed     : PartialOn(Vehicles, BOOLEAN),   \* vehicles: has it a position
   emergency  : Levels,                         \* the primary's own
   peers      : PartialOn(Vehicles, [emergency : Levels, link : Links]),
   direct     : PartialOn(Vehicles, BOOLEAN),   \* vehicle_telemetry: is it online
   healthy    : 0 .. ToFCount,
   visibility : {"GOOD", "MODERATE", "LOW", "VERY_LOW"},
   haul       : {"none", "quiet", "encounter"},
   v2x        : {"absent", "paused", "on"}]

\* The backend publishes a pose of the vehicle itself, also when a message in its own
\* name makes it a peer (engine.py 747-756, live_runtime.py 548-556 and 707-715).
PublishedFleets == {w \in FleetType : Primary \in DOMAIN w.peers => Primary \in DOMAIN w.placed}

VARIABLES
  feed,       \* useTelemetry's connection
  fleet,      \* the world shown
  section,    \* activeSection
  selected,   \* selectedTruckId, 0 for null
  chart,      \* the map of the section shown, or NoChart
  panel,      \* V2XPanel: [tab, busy, notice], or NoPanel
  sends,      \* each POST of an advisory: where it is, and whether this panel sent it
  timers      \* the panel's timers that will take a notice away

fleetVars == <<feed, fleet, section, selected, chart, panel, sends, timers>>

NoChart == [kind |-> "none"]
NoPanel == [tab |-> "none", busy |-> FALSE, notice |-> "none"]

-----------------------------------------------------------------------------
(***************************************************************************)
(* supervisorViewModel.ts                                                  *)
(***************************************************************************)
Degraded(w) == w.healthy < ToFCount
Dim(w)      == w.visibility \in {"LOW", "VERY_LOW"}

\* vehicleTone: what is lost is neither safe nor unsafe any more.
VehicleTone(w, emergency, link, primary) ==
  IF link = "LOST" THEN "lost"
  ELSE IF emergency \in {"CRITICAL", "EMERGENCY_STOP"} THEN "critical"
  ELSE IF emergency = "WARNING" \/ link = "DEGRADED" \/ (primary /\ (Degraded(w) \/ Dim(w)))
  THEN "attention"
  ELSE IF emergency = "none" /\ ~primary THEN "unknown"
  ELSE "nominal"

Row(v, source, placed, emergency, link, tone) ==
  [id |-> v, source |-> source, placed |-> placed,
   emergency |-> emergency, link |-> link, tone |-> tone]

\* A vehicle with a pose, and what its peer says of it; the primary speaks for itself.
PoseRow(w, v) ==
  LET heard     == v \in DOMAIN w.peers
      emergency == IF v = Primary THEN w.emergency
                   ELSE IF heard THEN w.peers[v].emergency ELSE "none"
      link      == IF heard THEN w.peers[v].link ELSE "none"
  IN Row(v, "pose", w.placed[v], emergency, link,
         VehicleTone(w, emergency, link, v = Primary))

PeerRow(w, v) ==
  LET peer == w.peers[v] IN
  Row(v, "peer", TRUE, peer.emergency, peer.link,
      VehicleTone(w, peer.emergency, peer.link, FALSE))

DirectRow(w, v) ==
  Row(v, "direct", FALSE, "none", "none", IF w.direct[v] THEN "unknown" ELSE "lost")

\* A slip: vehicles that report by Wi-Fi are compared with the poses only.
RowsTwice(w) ==
  {PoseRow(w, v) : v \in DOMAIN w.placed}
    \cup {PeerRow(w, v) : v \in DOMAIN w.peers \ DOMAIN w.placed}
    \cup {DirectRow(w, v) : v \in DOMAIN w.direct \ DOMAIN w.placed}

\* vehicles, in no order.
Rows(w) ==
  {PoseRow(w, v) : v \in DOMAIN w.placed}
    \cup {PeerRow(w, v) : v \in DOMAIN w.peers \ DOMAIN w.placed}
    \cup {DirectRow(w, v) : v \in DOMAIN w.direct \ (DOMAIN w.placed \cup DOMAIN w.peers)}

Ids(w)    == {r.id : r \in Rows(w)}
Placed(w) == {r \in Rows(w) : r.placed}

\* TONE_RANK
ToneRank == [critical |-> 5, lost |-> 4, attention |-> 3, unknown |-> 2, nominal |-> 1]

\* r comes before s in the directory.
Before(r, s) ==
  \/ ToneRank[r.tone] > ToneRank[s.tone]
  \/ /\ ToneRank[r.tone] = ToneRank[s.tone]
     /\ \/ r.id = Primary /\ s.id # Primary
        \/ (r.id = Primary) = (s.id = Primary) /\ r.id < s.id

FirstRow(w) == CHOOSE r \in Rows(w) : \A s \in Rows(w) \ {r} : Before(r, s)

\* kind is the first word of the issue's id.
Issue(kind, severity, v) == [kind |-> kind, severity |-> severity, vehicle |-> v]

\* issueForVehicle: its emergency, or else its link.
IssuesOf(r) ==
  IF r.emergency \notin {"none", "SAFE"}
  THEN {Issue("SAFETY", IF r.emergency = "WARNING" THEN "WARNING" ELSE "CRITICAL", r.id)}
  ELSE IF r.link \in {"LOST", "DEGRADED"}
  THEN {Issue("CONNECTIVITY", "WARNING", r.id)}
  ELSE {}

When(condition, issue) == IF condition THEN {issue} ELSE {}

VehicleIssues(w) == UNION {IssuesOf(r) : r \in Rows(w)}

\* issues
Issues(w) ==
  VehicleIssues(w)
    \cup When(Degraded(w),
              Issue("SENSOR", IF w.healthy = 0 THEN "CRITICAL" ELSE "WARNING", Primary))
    \cup When(Dim(w),
              Issue("VISIBILITY",
                    IF w.visibility = "VERY_LOW" THEN "CRITICAL" ELSE "WARNING", Primary))
    \cup When(w.mode = "SIMULATED" /\ w.haul = "encounter", Issue("HAUL", "WARNING", Primary))

\* counts
Count(w, tones) == Cardinality({r \in Rows(w) : r.tone \in tones})

-----------------------------------------------------------------------------
(***************************************************************************)
(* twin/TwinMap.tsx and twin/MineFleetMap.tsx                              *)
(***************************************************************************)
\* What a marker of the road map is painted with.
Paint(r, sel) == [tone |-> r.tone, selected |-> r.id = sel]

Marker(w, v, sel) == Paint(CHOOSE r \in Placed(w) : r.id = v, sel)

PlacedIds(w) == {r.id : r \in Placed(w)}

Paints(w, sel) == [v \in PlacedIds(w) |-> Marker(w, v, sel)]

NewStandard == [kind |-> "standard", road |-> FALSE, trucks |-> NoMarkers,
                panned |-> 0, fitted |-> FALSE]
NewMine     == [kind |-> "mine", tilted |-> TRUE, route |-> TRUE]

\* The effect of StandardTwinMap's render on its road map: the markers are
\* reconciled; a selected vehicle is panned to once, and without one the map is
\* fitted once.
Drawn(map, w, sel) ==
  IF ~map.road THEN map
  ELSE [map EXCEPT
    !.trucks = ReconciledAndPainted(@, Paints(w, sel)),
    !.panned = IF sel \in PlacedIds(w) THEN sel ELSE 0,
    !.fitted = @ \/ (sel \notin PlacedIds(w) /\ PlacedIds(w) # {})]

\* The road map is made anew, and removed with what was on it; the component and
\* its refs stay.
Switched(map, w, sel) ==
  IF map.road
  THEN [map EXCEPT !.road = FALSE, !.trucks = CleanedUp(@), !.panned = 0, !.fitted = FALSE]
  ELSE Drawn([map EXCEPT !.road = TRUE, !.fitted = FALSE], w, sel)

ChartKind(w) == IF w.mode = "SIMULATED" /\ w.haul # "none" THEN "mine" ELSE "standard"

\* A render of the map: the one that was there stays if its place and its kind do.
NextChart(map, w, c, sec, sel, stays) ==
  IF c # "CONNECTED" \/ sec \notin {"overview", "fleet"} THEN NoChart
  ELSE IF ChartKind(w) = "mine" THEN IF stays /\ map.kind = "mine" THEN map ELSE NewMine
  ELSE Drawn(IF stays /\ map.kind = "standard" THEN map ELSE NewStandard, w, sel)

\* V2XPanel is there with its section, and forgets everything with it.
PanelShown(c, sec) == c = "CONNECTED" /\ sec = "network"
NewPanel == [tab |-> "links", busy |-> FALSE, notice |-> "none"]

\* What a POST of an earlier panel still does, nobody sees.
Orphaned == [i \in DOMAIN sends |-> [sends[i] EXCEPT !.mine = FALSE]]

-----------------------------------------------------------------------------
(***************************************************************************)
(* SupervisorDashboard                                                     *)
(***************************************************************************)
\* The effect that corrects the selection.
Reselected(w, sel) ==
  IF Rows(w) = {} THEN 0
  ELSE IF sel \in Ids(w) THEN sel
  ELSE IF Primary \in DOMAIN w.placed THEN Primary ELSE FirstRow(w).id

\* A render with a selection that may be of an earlier world, and the effects it
\* causes: the map's run before SupervisorDashboard's own.
Show(w, c, sec, sel) ==
  LET stays == PanelShown(c, sec) /\ PanelShown(feed, section) IN
  /\ fleet' = w /\ feed' = c /\ section' = sec /\ selected' = sel
  /\ chart' = NextChart(chart, w, c, sec, sel, sec = section)
  /\ panel' = IF stays THEN panel ELSE IF PanelShown(c, sec) THEN NewPanel ELSE NoPanel
  /\ sends' = IF stays THEN sends ELSE Orphaned
  /\ timers' = IF stays THEN timers ELSE 0

FirstSection(w) == IF ChartKind(w) = "mine" THEN "fleet" ELSE "overview"

FleetInit ==
  /\ feed = "CONNECTING"
  /\ fleet \in Fleets
  /\ section = FirstSection(fleet)
  /\ selected = Primary
  /\ chart = NoChart /\ panel = NoPanel
  /\ sends = << >> /\ timers = 0

FleetShown == \E w \in Fleets : Show(w, "CONNECTED", section, selected)

FeedReported ==
  \E c \in {"CONNECTING", "STALE", "DISCONNECTED"} \ {feed} : Show(fleet, c, section, selected)

\* The effect asks for another render; other events may come before it.
CorrectSelection ==
  /\ selected # Reselected(fleet, selected)
  /\ Show(fleet, feed, section, Reselected(fleet, selected))

ChooseSection ==
  feed = "CONNECTED" /\ \E sec \in Sections \ {section} : Show(fleet, feed, sec, selected)

\* A marker of the map, or a row of the directory.
SelectVehicle ==
  /\ chart # NoChart
  /\ \E v \in IF section = "fleet" THEN Ids(fleet) ELSE PlacedIds(fleet) :
       Show(fleet, feed, section, v)

\* openVehicle, from an exception or from the primary's summary.
OpenVehicle ==
  /\ feed = "CONNECTED" /\ section \in {"overview", "alerts"}
  /\ \E v \in {i.vehicle : i \in Issues(fleet)}
              \cup IF section = "overview" THEN DOMAIN fleet.placed \cap {Primary} ELSE {} :
       Show(fleet, feed, "fleet", v)

\* The buttons of the maps.
SwitchMap ==
  /\ \/ /\ chart.kind = "standard"
        /\ chart' = Switched(chart, fleet, selected)
     \/ /\ chart.kind = "mine"
        /\ \/ chart' = [chart EXCEPT !.tilted = ~@]
           \/ ~chart.tilted /\ chart' = [chart EXCEPT !.route = ~@]
  /\ UNCHANGED <<feed, fleet, section, selected, panel, sends, timers>>

\* Another view of the console is opened, and then this one again.
Reopened ==
  /\ section' = FirstSection(fleet)
  /\ selected' = Primary
  /\ chart' = NextChart(NoChart, fleet, feed, FirstSection(fleet), Primary, FALSE)
  /\ panel' = NoPanel /\ sends' = Orphaned /\ timers' = 0
  /\ UNCHANGED <<feed, fleet>>

-----------------------------------------------------------------------------
(***************************************************************************)
(* supervisor/V2XPanel.tsx                                                 *)
(***************************************************************************)
ViewUnchanged == UNCHANGED <<feed, fleet, section, selected, chart>>

ChooseTab ==
  /\ panel # NoPanel /\ fleet.v2x = "on"
  /\ \E tab \in {"links", "advisories", "log"} \ {panel.tab} :
       panel' = [panel EXCEPT !.tab = tab]
  /\ ViewUnchanged /\ UNCHANGED <<sends, timers>>

Broadcast ==
  /\ panel.tab = "advisories" /\ fleet.v2x = "on" /\ ~panel.busy
  /\ Len(sends) < MaxSends
  /\ panel' = [panel EXCEPT !.busy = TRUE, !.notice = "info"]
  /\ sends' = Append(sends, [at |-> "sent", mine |-> TRUE])
  /\ ViewUnchanged /\ UNCHANGED timers

\* V2XManager.broadcast_advisory, and the answer on its way.
AdvisoryTaken ==
  /\ \E i \in DOMAIN sends :
       sends[i].at = "sent" /\ sends' = [sends EXCEPT ![i].at = "taken"]
  /\ ViewUnchanged /\ UNCHANGED <<panel, timers>>

\* A slip: the answer is not looked at.
SettleUnchecked(i, ok) ==
  /\ sends' = [sends EXCEPT ![i].at = IF @ = "taken" THEN "done" ELSE "failed"]
  /\ IF sends[i].mine
     THEN panel' = [panel EXCEPT !.busy = FALSE, !.notice = "success"] /\ timers' = timers + 1
     ELSE UNCHANGED <<panel, timers>>
  /\ ViewUnchanged

\* What handleBroadcast does when its POST has ended.
Settle(i, ok) ==
  /\ sends' = [sends EXCEPT ![i].at = IF @ = "taken" THEN "done" ELSE "failed"]
  /\ IF sends[i].mine
     THEN /\ panel' = [panel EXCEPT !.busy = FALSE, !.notice = IF ok THEN "success" ELSE "error"]
          /\ timers' = timers + 1
     ELSE UNCHANGED <<panel, timers>>
  /\ ViewUnchanged

AdvisoryAnswered == \E i \in DOMAIN sends : sends[i].at = "taken" /\ Settle(i, TRUE)

\* The request or its answer is lost, or the backend refuses it.
AdvisoryFails == \E i \in DOMAIN sends : sends[i].at \in {"sent", "taken"} /\ Settle(i, FALSE)

\* A timer takes away whatever notice is there.
NoticeTimerFires ==
  /\ timers > 0
  /\ timers' = timers - 1
  /\ panel' = [panel EXCEPT !.notice = "none"]
  /\ ViewUnchanged /\ UNCHANGED sends

FleetNext ==
  \/ FleetShown \/ FeedReported \/ CorrectSelection
  \/ ChooseSection \/ SelectVehicle \/ OpenVehicle \/ SwitchMap \/ Reopened
  \/ ChooseTab \/ Broadcast \/ AdvisoryTaken \/ AdvisoryAnswered \/ AdvisoryFails
  \/ NoticeTimerFires

-----------------------------------------------------------------------------
(***************************************************************************)
(* What is said of the fleet agrees with every source that speaks of it    *)
(* (supervisorViewModel.ts): each vehicle is listed once; one called       *)
(* nominal is contradicted by nothing, and whatever a vehicle with a pose  *)
(* or a peer reports wrong is in the list of exceptions.  (One known by    *)
(* its Wi-Fi telemetry alone that went offline is called lost, in no       *)
(* exception.)                                                             *)
(***************************************************************************)
Wrong(w, v) ==
  \/ v = Primary /\ (Degraded(w) \/ Dim(w))
  \/ v = Primary /\ v \in DOMAIN w.placed /\ w.emergency # "SAFE"
  \/ v \in DOMAIN w.peers /\ w.peers[v].link \in {"LOST", "DEGRADED"}
  \/ v \in DOMAIN w.peers \ {Primary} /\ w.peers[v].emergency # "SAFE"

FleetIsWhole ==
  LET known == DOMAIN fleet.placed \cup DOMAIN fleet.peers \cup DOMAIN fleet.direct IN
  /\ Ids(fleet) = known /\ Count(fleet, Tones) = Cardinality(known)
  /\ \A r \in Rows(fleet) : r.tone = "nominal" => ~Wrong(fleet, r.id)
  /\ \A v \in known : Wrong(fleet, v) => v \in {i.vehicle : i \in Issues(fleet)}

(***************************************************************************)
(* Through vehicles that come, go and lose their position, a selection     *)
(* that is corrected late, and switches of the map, the road map carries   *)
(* one marker for each vehicle that has a position and holds exactly       *)
(* those, painted with its tone of now and marked if it is the one         *)
(* inspected, which the map has been moved to; away from the road map      *)
(* none is held (TwinMap.tsx 150-244).                                     *)
(***************************************************************************)
RoadMapMarksTheFleet ==
  chart.kind = "standard" =>
    IF chart.road
    THEN /\ OneMarkerEach(chart.trucks, PlacedIds(fleet))
         /\ \A l \in DOMAIN chart.trucks.layers :
              chart.trucks.layers[l] = Marker(fleet, l.of, selected)
         /\ chart.panned = IF selected \in PlacedIds(fleet) THEN selected ELSE 0
    ELSE chart.trucks = NoMarkers

(***************************************************************************)
(* The panel claims an advisory was sent only when the backend has it; it  *)
(* is busy exactly while a POST of its own is under way, and no notice of  *)
(* an outcome stays for ever (V2XPanel.tsx 70-116).                        *)
(***************************************************************************)
NoticesAreTrue ==
  LET own == {i \in DOMAIN sends : sends[i].mine} IN
  /\ panel.notice = "success" => \E i \in own : sends[i].at = "done"
  /\ panel.busy <=> \E i \in own : sends[i].at \in {"sent", "taken"}
  /\ panel.notice \in {"success", "error"} => timers > 0
==============================================================================
