----------------------------- MODULE MCDashboard -----------------------------
(***************************************************************************)
(* The parts of the dashboard on small instances: a history of two         *)
(* entries; two sensors; two trucks whose window is one or two trips; two  *)
(* peers and an encounter held for two units; three vehicles; two versions *)
(* of a picture's data.  The worlds are slices: each varies together what  *)
(* one property tells apart, from an ordinary world.                       *)
(***************************************************************************)
EXTENDS Dashboard, TLC

SensorIds == {"front_scanner", "left_side"}

TruckIds == {"DUMPER_01", "DUMPER_02"}
Startup == <<[id |-> 1, truck |-> "DUMPER_01", usable |-> TRUE],
             [id |-> 2, truck |-> "DUMPER_01", usable |-> TRUE]>>

\* One sensor sees what alerts and what does not, the other what no point is made of.
MCRangeSensors == <<"front_scanner", "left_side">>
MCDistances == ("front_scanner" :> {1, 2}) @@ ("left_side" :> {1, 3})

-----------------------------------------------------------------------------
\* DriverView's worlds.
Still == [mode |-> "SIMULATED", raw |-> FALSE, ir |-> FALSE, status |-> "STREAMING"]

Ordinary ==
  [mode |-> "SIMULATED", reported |-> TRUE, confident |-> TRUE,
   places |-> [o \in {"rock", "truck"} |-> 0], emergency |-> "SAFE", cut |-> FALSE,
   corridor |-> "GREEN", trusted |-> 5, alert |-> FALSE, camera |-> Still,
   peers |-> [p \in Peers |-> "absent"], route |-> FALSE]

\* What is ahead, far or near, and whether the pose it is measured from is good.
Ahead ==
  {[Ordinary EXCEPT !.places["rock"] = r, !.places["truck"] = t] : r \in 0 .. 3, t \in {0, 2}}
    \cup {[Ordinary EXCEPT !.places["rock"] = 1, !.confident = c, !.reported = ~c] : c \in BOOLEAN}

\* What is said of the emergency, and by how many healthy sensors.
Verdicts ==
  {[Ordinary EXCEPT !.mode = m, !.emergency = e, !.cut = (e = "EMERGENCY_STOP"),
                    !.trusted = IF a THEN 5 ELSE 4, !.alert = a, !.camera.mode = "NONE"] :
     m \in {"LIVE", "SIMULATED"}, e \in {"SAFE", "CRITICAL", "EMERGENCY_STOP"}, a \in BOOLEAN}

\* Whom the vehicle meets, two at once or in turn, and whether it has a route.
Met ==
  {[Ordinary EXCEPT !.peers = (1 :> s) @@ (2 :> t), !.route = (s = "absent")] :
     s \in {"absent", "SAFE", "CRITICAL"}, t \in {"absent", "SAFE"}}

\* What is filmed.
Filmed ==
  {[Ordinary EXCEPT !.mode = "LIVE",
                    !.camera = [mode |-> "LIVE", raw |-> x, ir |-> TRUE, status |-> s]] :
     x \in BOOLEAN, s \in {"CONNECTING", "STREAMING"}}

MCWorlds == Ahead \cup Verdicts \cup Met \cup Filmed

-----------------------------------------------------------------------------
\* FleetView's worlds.
Quiet ==
  [mode |-> "SIMULATED", placed |-> (1 :> TRUE) @@ (2 :> TRUE), emergency |-> "SAFE",
   peers |-> (2 :> [emergency |-> "SAFE", link |-> "GOOD"]), direct |-> << >>,
   healthy |-> 5, visibility |-> "GOOD", haul |-> "quiet", v2x |-> "on"]

Peer(e, l) == [emergency |-> e, link |-> l]

\* A simulated haul: a peer that is well, lost, or badly heard, and one without a pose.
Simulated ==
  {[Quiet EXCEPT !.peers = (2 :> p) @@ (3 :> Peer("SAFE", "GOOD")), !.emergency = e,
                 !.haul = IF e = "SAFE" THEN "none" ELSE "encounter"] :
     p \in {Peer("SAFE", "GOOD"), Peer("EMERGENCY_STOP", "LOST"), Peer("SAFE", "DEGRADED")},
     e \in {"SAFE", "WARNING"}}

\* The vehicle itself, without a position when its sensors fail, and its Wi-Fi telemetry.
Live ==
  {[Quiet EXCEPT !.mode = "LIVE", !.haul = "none", !.peers = << >>, !.placed = (1 :> (n = 5)),
                 !.direct = d, !.healthy = n,
                 !.visibility = IF n = 0 THEN "VERY_LOW" ELSE "GOOD"] :
     d \in {<< >>, (1 :> TRUE) @@ (2 :> FALSE), (2 :> TRUE)}, n \in {0, 5}}

\* One vehicle known by several sources at once, and V2X at a standstill.
Mixed ==
  {[Quiet EXCEPT !.peers = [v \in DOMAIN p |-> Peer("SAFE", "GOOD")]
                             @@ (2 :> Peer("CRITICAL", "GOOD")),
                 !.direct = (2 :> FALSE) @@ (3 :> TRUE), !.placed = p] :
     p \in {<< >>, 1 :> TRUE}}
    \cup {[Quiet EXCEPT !.v2x = "paused"]}

MCFleets == Simulated \cup Live \cup Mixed
==============================================================================
