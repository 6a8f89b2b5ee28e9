------------------------------ MODULE SceneLife ------------------------------
(***************************************************************************)
(* The four WebGL pictures of the dashboard draw on demand: the driver's   *)
(* LiDAR (driver/lidarRenderer.ts), the mapping view                       *)
(* (spatial/mappingRenderer.ts), the mine (twin/mineRenderer.ts) and the   *)
(* camera (driver/IRCameraCanvas.tsx).  Each asks the browser for one      *)
(* animation frame when its picture is out of date and may be seen, and    *)
(* must give the frame up when it may not.                                 *)
(*                                                                         *)
(* A frame of data is a number.  What is drawn in it is left out; that it  *)
(* moves to its place over several frames is not.                          *)
(***************************************************************************)
EXTENDS Naturals, Sequences

CONSTANTS
  Versions,     \* how many different frames of data
  MaxEntries    \* how many observations one callback may deliver

Cameras == {"camera", "video"}   \* a still picture, or the live stream
Kinds   == {"lidar", "mapping", "mine"} \cup Cameras

VARIABLES
  kind,     \* which picture, for the whole behaviour
  page,     \* the browser: [hidden, onscreen, entries, still]
  scene     \* the renderer, or Absent

sceneVars == <<kind, page, scene>>

(***************************************************************************)
(* page.entries: observations the IntersectionObserver has not delivered;  *)
(* page.still: the user prefers reduced motion.                            *)
(* scene.visible: what the observer last told; frame: an animation frame   *)
(* is asked for; latest, drawn: the data to draw and drawn; settled: what  *)
(* is drawn is in its place, for the mine's trucks their position and      *)
(* heading; eased: so are their pitch and their wheels, which the mine     *)
(* moves too and does not wait for; recent: too early for another frame;   *)
(* animating: the mapping view's animateUntil is ahead; preview: it shows  *)
(* the moving scan; loaded: the camera's image has a size.                 *)
(***************************************************************************)
Absent == [life |-> "absent"]

New(version, visible) ==
  [life |-> "live", lost |-> FALSE, visible |-> visible, frame |-> FALSE,
   latest |-> version, drawn |-> 0, settled |-> FALSE, eased |-> TRUE, recent |-> FALSE,
   animating |-> kind = "mapping", preview |-> FALSE, loaded |-> FALSE]

\* canRender; the camera asks for its image instead of its context.
MayDraw(s, hidden) ==
  /\ s.visible /\ ~hidden
  /\ IF kind \in Cameras THEN s.loaded ELSE ~s.lost

RequestRender(s, hidden) == IF MayDraw(s, hidden) THEN [s EXCEPT !.frame = TRUE] ELSE s

\* cancelAnimationFrame; the mine also forgets when it last drew (pause).
Pause(s) == [s EXCEPT !.frame = FALSE, !.recent = IF kind = "mine" THEN FALSE ELSE @]

SceneInit ==
  /\ kind \in Kinds
  /\ page = [hidden |-> FALSE, onscreen |-> TRUE, entries |-> << >>, still |-> FALSE]
  /\ scene = Absent

Live == scene.life = "live"

-----------------------------------------------------------------------------
(***************************************************************************)
(* The component mounts: a renderer, its observer, which first reports     *)
(* what it sees, and the first update.  The mine waits for that report.    *)
(***************************************************************************)
Observed == [page EXCEPT !.entries = <<page.onscreen>>]

Mount ==
  /\ scene = Absent
  /\ scene' = RequestRender(New(1, kind # "mine"), page.hidden)
  /\ page' = Observed
  /\ UNCHANGED kind

UpdateLidar(v) == scene' = RequestRender([scene EXCEPT !.latest = v, !.settled = TRUE], page.hidden)

\* The entities get new targets and 120 ms to reach them.
UpdateMapping(v) ==
  \E preview \in BOOLEAN :
    scene' = RequestRender(
      [scene EXCEPT !.latest = v, !.settled = FALSE, !.animating = TRUE, !.preview = preview],
      page.hidden)

\* The trucks get new targets, which may be where they are, and a grade of the road.
UpdateMine(v) ==
  \E settled, eased \in BOOLEAN :
    scene' = RequestRender(
      [scene EXCEPT !.latest = v, !.settled = settled, !.eased = eased], page.hidden)

\* The camera's effect depends on a callback that every render makes anew.
UpdateCamera(v) ==
  scene' = IF scene.lost THEN [scene EXCEPT !.life = "fallback", !.frame = FALSE]
           ELSE [New(v, TRUE) EXCEPT !.drawn = scene.drawn]

\* The view gets another world.
Update ==
  /\ Live
  /\ \E v \in 1 .. Versions :
       \/ kind = "lidar" /\ UpdateLidar(v)
       \/ kind = "mapping" /\ UpdateMapping(v)
       \/ kind = "mine" /\ UpdateMine(v)
       \/ kind \in Cameras /\ UpdateCamera(v)
  /\ page' = IF kind \in Cameras THEN Observed ELSE page
  /\ UNCHANGED kind

\* A resize, or a movement of the mine's camera: the same data is to be drawn again.
Disturbed ==
  /\ Live /\ kind \notin Cameras
  /\ scene' = RequestRender([scene EXCEPT !.drawn = 0], page.hidden)
  /\ UNCHANGED <<kind, page>>

-----------------------------------------------------------------------------
(***************************************************************************)
(* What the picture may be seen through.                                   *)
(***************************************************************************)
\* The page scrolls; the observer notes it and will report.
Scrolled ==
  /\ Live /\ Len(page.entries) < MaxEntries
  /\ page' = [page EXCEPT !.onscreen = ~@, !.entries = Append(@, ~page.onscreen)]
  /\ UNCHANGED <<kind, scene>>

Woken(s, hidden) == IF MayDraw(s, hidden) THEN RequestRender(s, hidden) ELSE Pause(s)

\* All but the mine take the first of the observations, which is the oldest.
Seen(entries) == IF kind = "mine" THEN entries[Len(entries)] ELSE Head(entries)

\* The callback of the IntersectionObserver.
Observe ==
  /\ Live /\ page.entries # << >>
  /\ scene' = Woken([scene EXCEPT !.visible = Seen(page.entries)], page.hidden)
  /\ page' = [page EXCEPT !.entries = << >>]
  /\ UNCHANGED kind

\* The tab is hidden or shown again.
VisibilityChanged ==
  /\ page' = [page EXCEPT !.hidden = ~@]
  /\ scene' = IF Live THEN Woken(scene, ~page.hidden) ELSE scene
  /\ UNCHANGED kind

ContextLost ==
  /\ Live /\ ~scene.lost
  /\ scene' = Pause([scene EXCEPT !.lost = TRUE])
  /\ UNCHANGED <<kind, page>>

\* The camera makes everything anew; the others draw again.
ContextRestored ==
  /\ Live /\ scene.lost
  /\ IF kind \in Cameras
     THEN scene' = New(scene.latest, TRUE) /\ page' = Observed
     ELSE /\ scene' = RequestRender([scene EXCEPT !.lost = FALSE, !.drawn = 0], page.hidden)
          /\ UNCHANGED page
  /\ UNCHANGED kind

\* The camera's image has arrived (onload).
ImageLoaded ==
  /\ Live /\ kind \in Cameras
  /\ scene' = RequestRender([scene EXCEPT !.loaded = TRUE], page.hidden)
  /\ UNCHANGED <<kind, page>>

\* Its plain picture takes the place of the canvas, until its source changes.
ImageFails ==
  /\ Live /\ kind \in Cameras
  /\ scene' = [Pause(scene) EXCEPT !.life = "fallback"]
  /\ UNCHANGED <<kind, page>>

SourceChanges ==
  /\ kind \in Cameras /\ scene.life \in {"live", "fallback"}
  /\ scene' = IF Live /\ scene.lost THEN [scene EXCEPT !.life = "fallback", !.frame = FALSE]
              ELSE New(1, TRUE)
  /\ page' = Observed
  /\ UNCHANGED kind

\* matchMedia: only the mapping view looks at it.
MotionChanges ==
  /\ kind = "mapping"
  /\ page' = [page EXCEPT !.still = ~@]
  /\ scene' = IF Live THEN RequestRender(scene, page.hidden) ELSE scene
  /\ UNCHANGED kind

-----------------------------------------------------------------------------
(***************************************************************************)
(* The animation frame.                                                    *)
(***************************************************************************)
Drawn(s) == [s EXCEPT !.frame = FALSE, !.drawn = s.latest]

RenderLidar == scene' = [Drawn(scene) EXCEPT !.settled = TRUE]

\* At most 30 frames a second, and frames until the animation is over.
RenderMapping ==
  IF scene.recent /\ ~page.still THEN UNCHANGED scene
  ELSE LET arrived == [Drawn(scene) EXCEPT !.settled = page.still \/ ~scene.animating,
                                           !.recent = TRUE] IN
       scene' = IF ~page.still /\ (scene.preview \/ scene.animating)
                THEN RequestRender(arrived, page.hidden) ELSE arrived

\* A slip: the last step of a truck is left to the next telemetry.
RenderMineOnce ==
  IF scene.recent THEN UNCHANGED scene
  ELSE \E settled \in IF scene.settled THEN {TRUE} ELSE BOOLEAN,
          eased \in IF scene.settled /\ scene.eased THEN {TRUE} ELSE BOOLEAN :
         scene' = [Drawn(scene) EXCEPT !.settled = settled, !.eased = eased, !.recent = TRUE]

\* The same rate; a frame in which a truck was not in its place or was turning is
\* followed by another.  Pitch and wheels ease with each frame, and ask for none; nor
\* do the shadows, which are drawn anew at most every 750 ms and are left out.
RenderMine ==
  IF scene.recent THEN UNCHANGED scene
  ELSE \E settled \in IF scene.settled THEN {TRUE} ELSE BOOLEAN,
          eased \in IF scene.settled /\ scene.eased THEN {TRUE} ELSE BOOLEAN :
         LET moved == [Drawn(scene) EXCEPT !.settled = settled, !.eased = eased,
                                           !.recent = TRUE] IN
         scene' = IF scene.settled THEN moved ELSE RequestRender(moved, page.hidden)

\* The video goes on; a still picture is drawn again only when it is woken.
RenderCamera ==
  IF scene.lost THEN scene' = [scene EXCEPT !.frame = FALSE]
  ELSE LET shown == [Drawn(scene) EXCEPT !.settled = kind # "video"] IN
       scene' = IF kind = "video" THEN RequestRender(shown, page.hidden) ELSE shown

Render ==
  /\ Live /\ scene.frame
  /\ \/ kind = "lidar" /\ RenderLidar
     \/ kind = "mapping" /\ RenderMapping
     \/ kind = "mine" /\ RenderMine
     \/ kind \in Cameras /\ RenderCamera
  /\ UNCHANGED <<kind, page>>

\* Time passes: another frame may be drawn, or the animation is over.
TimePasses ==
  /\ Live
  /\ \/ scene.recent /\ scene' = [scene EXCEPT !.recent = FALSE]
     \/ scene.animating /\ scene' = [scene EXCEPT !.animating = FALSE]
  /\ UNCHANGED <<kind, page>>

-----------------------------------------------------------------------------
\* dispose(): the frame is cancelled and the observer disconnected.
Dispose ==
  /\ scene.life \in {"live", "fallback"}
  /\ scene' = Absent
  /\ page' = [page EXCEPT !.entries = << >>]
  /\ UNCHANGED kind

SceneNext ==
  \/ Mount \/ Dispose
  \/ Update \/ Disturbed \/ Render \/ TimePasses
  \/ Scrolled \/ Observe \/ VisibilityChanged \/ ContextLost \/ ContextRestored
  \/ ImageLoaded \/ ImageFails \/ SourceChanges \/ MotionChanges

-----------------------------------------------------------------------------
(***************************************************************************)
(* No wake-up is lost: whatever has happened in whatever order, a picture  *)
(* that is out of date or on its way, and that the renderer takes to be    *)
(* seen, has a frame coming; one that is not seen has none.  For the mine  *)
(* docs/haul-simulation.md 178-181 says so: it "cancels its frame loop     *)
(* while hidden, offscreen or after WebGL context loss" and "new telemetry *)
(* and interactions wake it".  On its way is a truck by its position or    *)
(* heading: where the same lines let the mine sleep "once poses ...        *)
(* settle", mineRenderer.ts 557 asks for no frame for a pitch that is not  *)
(* there yet.  A camera whose image loads while its context is lost is an  *)
(* exception: it asks for a frame that then draws nothing.  And the mine   *)
(* takes for seen what is seen, once its observer has reported.            *)
(***************************************************************************)
Moving == ~scene.settled \/ (scene.preview /\ ~page.still)

SceneIsAwake ==
  Live =>
    /\ /\ scene.drawn # scene.latest \/ Moving
       /\ MayDraw(scene, page.hidden) /\ ~scene.lost
       => scene.frame
    /\ scene.frame => scene.visible /\ ~page.hidden /\ (scene.lost => kind \in Cameras)
    /\ kind = "mine" /\ page.entries = << >> => scene.visible = page.onscreen
==============================================================================
