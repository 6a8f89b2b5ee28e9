--------------------------- MODULE DashboardProofs ---------------------------
(***************************************************************************)
(* Proofs about parts of the Dashboard, for any worlds, peers, sensors,    *)
(* histories and bounds.  A behaviour of the dashboard follows one part,   *)
(* so that each part has an invariant of its own.                          *)
(***************************************************************************)
EXTENDS Dashboard, MarkerLayers, FiniteSetTheorems, FunctionTheorems, SequenceTheorems, TLAPS

-----------------------------------------------------------------------------
(* The markers of a map: MarkerLayers *)

\* Whoever has a marker has it on the map.
LEMMA HeldIsOnTheMap ==
    ASSUME NEW m, NEW S, OneMarkerEach(m, S)
    PROVE  \A v \in S : m.refs[v] \in DOMAIN m.layers /\ m.refs[v].of = v
  <1> SUFFICES ASSUME NEW v \in S
               PROVE  m.refs[v] \in DOMAIN m.layers /\ m.refs[v].of = v
    OBVIOUS
  <1>1. PICK l \in DOMAIN m.layers : l.of = v
    BY DEF OneMarkerEach
  <1>2. m.refs[l.of] = l
    BY DEF OneMarkerEach
  <1> QED
    BY <1>1, <1>2

\* The first loop makes a marker for whoever has none, and for nobody else.
LEMMA AddedGivesOneEach ==
    ASSUME NEW m, NEW S, OneMarkerEach(m, S), NEW looks
    PROVE  OneMarkerEach(Added(m, looks), S \cup DOMAIN looks)
  <1> DEFINE a == Added(m, looks)
             new == DOMAIN looks \ S
             all == S \cup DOMAIN looks
  <1>1. DOMAIN m.refs = S /\ {l.of : l \in DOMAIN m.layers} = S
        /\ \A l \in DOMAIN m.layers : m.refs[l.of] = l
    BY DEF OneMarkerEach
  <1>2. \A v : NewLayer(m, v).of = v
    BY DEF NewLayer
  <1>3. DOMAIN a.refs = all
        /\ \A v \in all : a.refs[v] = IF v \in new THEN NewLayer(m, v) ELSE m.refs[v]
    BY <1>1 DEF Added
  <1>4. DOMAIN a.layers = DOMAIN m.layers \cup {NewLayer(m, v) : v \in new}
    BY <1>1 DEF Added
  <1> HIDE DEF a
  <1>5. \A l \in DOMAIN a.layers : l.of \in all /\ a.refs[l.of] = l
    <2> SUFFICES ASSUME NEW l \in DOMAIN a.layers
                 PROVE  l.of \in all /\ a.refs[l.of] = l
      OBVIOUS
    <2>1. CASE l \in DOMAIN m.layers
      <3>1. l.of \in S /\ m.refs[l.of] = l
        BY <1>1, <2>1
      <3> QED
        BY <1>3, <3>1
    <2>2. CASE l \notin DOMAIN m.layers
      <3>1. PICK v \in new : l = NewLayer(m, v)
        BY <1>4, <2>2
      <3>2. l.of = v
        BY <1>2, <3>1
      <3> QED
        BY <1>3, <3>1, <3>2
    <2> QED
      BY <2>1, <2>2
  <1>6. \A v \in all : \E l \in DOMAIN a.layers : l.of = v
    <2> SUFFICES ASSUME NEW v \in all
                 PROVE  \E l \in DOMAIN a.layers : l.of = v
      OBVIOUS
    <2>1. CASE v \in new
      BY <1>2, <1>4, <2>1
    <2>2. CASE v \in S
      BY <1>4, <2>2, HeldIsOnTheMap
    <2> QED
      BY <2>1, <2>2
  <1> QED
    BY <1>3, <1>5, <1>6 DEF OneMarkerEach, a

\* The second loop takes from the map what it forgets.
LEMMA PrunedKeepsOneEach ==
    ASSUME NEW m, NEW S, OneMarkerEach(m, S), NEW T \in SUBSET S
    PROVE  /\ OneMarkerEach(Pruned(m, T), T)
           /\ \A l \in DOMAIN Pruned(m, T).layers :
                l \in DOMAIN m.layers /\ l.of \in T /\ Pruned(m, T).layers[l] = m.layers[l]
  <1> DEFINE p == Pruned(m, T)
             gone == {m.refs[v] : v \in S \ T}
  <1>1. DOMAIN m.refs = S /\ {l.of : l \in DOMAIN m.layers} = S
        /\ \A l \in DOMAIN m.layers : m.refs[l.of] = l
    BY DEF OneMarkerEach
  <1>2. \A v \in S : m.refs[v] \in DOMAIN m.layers /\ m.refs[v].of = v
    BY HeldIsOnTheMap
  <1>3. DOMAIN p.refs = T /\ \A v \in T : p.refs[v] = m.refs[v]
    BY <1>1 DEF Pruned
  <1>4. DOMAIN p.layers = DOMAIN m.layers \ gone
        /\ \A l \in DOMAIN m.layers \ gone : p.layers[l] = m.layers[l]
    BY <1>1 DEF Pruned
  <1> HIDE DEF p
  <1>5. \A l \in DOMAIN p.layers : l \in DOMAIN m.layers /\ l.of \in T
    BY <1>1, <1>4
  <1>6. \A v \in T : m.refs[v] \in DOMAIN p.layers
    BY <1>2, <1>4
  <1>7. {l.of : l \in DOMAIN p.layers} = T
    BY <1>2, <1>5, <1>6
  <1>8. \A l \in DOMAIN p.layers : p.refs[l.of] = l
    BY <1>1, <1>3, <1>5
  <1> QED
    BY <1>3, <1>4, <1>5, <1>7, <1>8 DEF OneMarkerEach, p

\* After an effect each vehicle of the render has one marker, whoever had one before.
LEMMA ReconciledGivesOneEach ==
    ASSUME NEW m, NEW S, OneMarkerEach(m, S), NEW looks
    PROVE  OneMarkerEach(Reconciled(m, looks), DOMAIN looks)
  <1> DEFINE a == Added(m, looks)
  <1>1. OneMarkerEach(a, S \cup DOMAIN looks)
    BY AddedGivesOneEach
  <1> HIDE DEF a
  <1>2. OneMarkerEach(Pruned(a, DOMAIN looks), DOMAIN looks)
    BY <1>1, PrunedKeepsOneEach
  <1> QED
    BY <1>2 DEF Reconciled, a

\* And where markers are painted again, each has the look of this render.
LEMMA PaintedIsOfNow ==
    ASSUME NEW m, NEW S, OneMarkerEach(m, S), NEW looks
    PROVE  LET n == ReconciledAndPainted(m, looks)
           IN  /\ OneMarkerEach(n, DOMAIN looks)
               /\ \A l \in DOMAIN n.layers : n.layers[l] = looks[l.of]
  <1> DEFINE a == Added(m, looks)
             r == Repainted(a, looks)
             all == S \cup DOMAIN looks
             n == Pruned(r, DOMAIN looks)
  <1>1. OneMarkerEach(a, all)
    BY AddedGivesOneEach
  <1>2. PICK f, g : a = [refs |-> f, layers |-> g]
    BY DEF Added
  <1> HIDE DEF a
  <1>3. r = [refs |-> f,
             layers |-> [l \in DOMAIN g |->
                           IF l.of \in DOMAIN looks /\ f[l.of] = l THEN looks[l.of] ELSE g[l]]]
    BY <1>2 DEF Repainted
  <1>4. r.refs = a.refs /\ DOMAIN r.layers = DOMAIN a.layers
        /\ \A l \in DOMAIN a.layers :
             l.of \in DOMAIN looks /\ a.refs[l.of] = l => r.layers[l] = looks[l.of]
    BY <1>2, <1>3
  <1> HIDE DEF r
  <1>5. OneMarkerEach(r, all)
    BY <1>1, <1>4 DEF OneMarkerEach
  <1>6. /\ OneMarkerEach(n, DOMAIN looks)
        /\ \A l \in DOMAIN n.layers :
             l \in DOMAIN r.layers /\ l.of \in DOMAIN looks /\ n.layers[l] = r.layers[l]
    BY <1>5, PrunedKeepsOneEach
  <1>7. \A l \in DOMAIN n.layers : n.layers[l] = looks[l.of]
    BY <1>1, <1>4, <1>6 DEF OneMarkerEach
  <1>8. n = ReconciledAndPainted(m, looks)
    BY DEF ReconciledAndPainted, r, a
  <1> HIDE DEF n
  <1> QED
    BY <1>6, <1>7, <1>8

LEMMA NoMarkersForNobody == OneMarkerEach(NoMarkers, {})
  BY DEF OneMarkerEach, NoMarkers

-----------------------------------------------------------------------------
(* The driver's view: forwardHazard.ts *)

LEMMA WorldHasItsType ==
    ASSUME NEW w \in Worlds
    PROVE  /\ w \in Driver!WorldType
           /\ w.places \in [Driver!Objects -> 0 .. Driver!WideZone + 1]
           /\ w.emergency \in Driver!Levels
  <1>1. w \in Driver!WorldType
    BY DriverAssumption
  <1> QED
    BY <1>1 DEF Driver!WorldType

\* One of the candidates is as near as any of them.
LEMMA NearestIsNearest ==
    ASSUME NEW w \in Worlds, NEW candidates \in SUBSET Driver!Objects, candidates # {}
    PROVE  LET o == Driver!NearestOf(w, candidates)
           IN  o \in candidates /\ \A p \in candidates : w.places[o] <= w.places[p]
  <1> DEFINE Nearest(o) == /\ \A p \in candidates : w.places[o] <= w.places[p]
                           /\ "rock" \in candidates /\ w.places["rock"] = w.places[o]
                                => o = "rock"
  <1>1. /\ candidates \subseteq {"rock", "truck"}
        /\ w.places["rock"] \in Nat /\ w.places["truck"] \in Nat
    BY WorldHasItsType DEF Driver!Objects, Driver!WideZone
  <1>2. \E o \in candidates : Nearest(o)
    <2>1. CASE "rock" \in candidates
               /\ ("truck" \in candidates => w.places["rock"] <= w.places["truck"])
      <3>1. Nearest("rock")
        BY <1>1, <2>1
      <3> QED
        BY <2>1, <3>1
    <2>2. CASE "truck" \in candidates
               /\ ("rock" \in candidates => w.places["truck"] < w.places["rock"])
      <3>1. Nearest("truck")
        BY <1>1, <2>2
      <3> QED
        BY <2>2, <3>1
    <2>3. "rock" \in candidates \/ "truck" \in candidates
      BY <1>1
    <2>4. w.places["rock"] <= w.places["truck"] \/ w.places["truck"] < w.places["rock"]
      BY <1>1
    <2> QED
      BY <2>1, <2>2, <2>3, <2>4
  <1>3. Driver!NearestOf(w, candidates) = CHOOSE o \in candidates : Nearest(o)
    BY DEF Driver!NearestOf
  <1> QED
    BY <1>2, <1>3

Hazards == [id : Driver!Objects \cup {"none"}, place : 0 .. Driver!WideZone, lastSeen : Nat]

\* What a selection remembers of world w at time t.
Remembered(w, t, hazard) ==
    /\ hazard \in Hazards
    /\ w.mode = "SIMULATED" /\ w.confident =>
         \A o \in Driver!Objects : w.places[o] \in 1 .. Driver!EnterZone =>
           hazard.lastSeen = t /\ hazard.place \in 1 .. w.places[o]
    /\ hazard # Driver!NoHazard =>
         w.mode = "SIMULATED" /\ hazard.lastSeen <= t /\ t < hazard.lastSeen + Hold

\* Whatever was remembered before.
LEMMA SelectionRemembers ==
    ASSUME NEW w \in Worlds, NEW t \in Nat, NEW previous \in Hazards
    PROVE  Remembered(w, t, Driver!SelectForward(w, t, previous))
  <1> DEFINE hazard == Driver!SelectForward(w, t, previous)
             ahead == Driver!Ahead(w, previous)
             nearest == Driver!NearestOf(w, ahead)
  <1>1. /\ Hold \in Nat \ {0} /\ Driver!NoHazard \in Hazards
        /\ w.places \in [Driver!Objects -> 0 .. Driver!WideZone + 1]
    <2>1. Hold \in Nat \ {0}
      BY DriverAssumption
    <2>2. Driver!NoHazard \in Hazards
      BY DEF Hazards, Driver!NoHazard, Driver!WideZone
    <2> QED
      BY <2>1, <2>2, WorldHasItsType
  <1>2. /\ ahead \in SUBSET Driver!Objects
        /\ \A o \in ahead : w.places[o] \in 1 .. Driver!WideZone
        /\ \A o \in Driver!Objects : w.places[o] \in 1 .. Driver!EnterZone => o \in ahead
    BY DEF Driver!Ahead, Driver!WideZone, Driver!EnterZone
  <1>3. CASE w.mode # "SIMULATED" \/ ~w.confident
    <2>1. hazard = Driver!NoHazard
      BY <1>3 DEF Driver!SelectForward
    <2> QED
      BY <1>1, <1>3, <2>1 DEF Remembered
  <1>4. CASE w.mode = "SIMULATED" /\ w.confident /\ ahead # {}
    <2>1. hazard = [id |-> nearest, place |-> w.places[nearest], lastSeen |-> t]
      BY <1>4 DEF Driver!SelectForward
    <2>2. nearest \in ahead /\ \A p \in ahead : w.places[nearest] <= w.places[p]
      BY <1>2, <1>4, NearestIsNearest
    <2> HIDE DEF nearest, ahead, hazard
    <2>3. w.places[nearest] \in 1 .. Driver!WideZone /\ nearest \in Driver!Objects
      BY <1>2, <2>2
    <2>4. hazard \in Hazards
      BY <2>1, <2>3 DEF Hazards, Driver!WideZone
    <2>5. \A o \in Driver!Objects : w.places[o] \in 1 .. Driver!EnterZone =>
            w.places[nearest] \in 1 .. w.places[o]
      BY <1>2, <2>2, <2>3 DEF Driver!EnterZone, Driver!WideZone
    <2>6. hazard.lastSeen = t /\ hazard.place = w.places[nearest]
      BY <2>1
    <2> QED
      BY <1>1, <1>4, <2>4, <2>5, <2>6 DEF Remembered, hazard
  <1>5. CASE w.mode = "SIMULATED" /\ w.confident /\ ahead = {}
    <2>1. hazard = IF previous # Driver!NoHazard /\ t >= previous.lastSeen
                        /\ t - previous.lastSeen < Hold
                   THEN previous ELSE Driver!NoHazard
      BY <1>5 DEF Driver!SelectForward
    <2>2. previous.lastSeen \in Nat
      BY DEF Hazards
    <2>3. \A o \in Driver!Objects : w.places[o] \notin 1 .. Driver!EnterZone
      BY <1>2, <1>5
    <2> HIDE DEF hazard, ahead
    <2>4. hazard \in Hazards
      BY <1>1, <2>1
    <2>5. hazard # Driver!NoHazard => hazard.lastSeen <= t /\ t < hazard.lastSeen + Hold
      BY <1>1, <2>1, <2>2
    <2> QED
      BY <1>5, <2>3, <2>4, <2>5 DEF Remembered, hazard
  <1> QED
    BY <1>3, <1>4, <1>5

-----------------------------------------------------------------------------
(* The driver's view: DriverDashboard.tsx and its maps *)

DriverUp == Driver!Available(world, connection)

MinimapShape(m) == \E f, q : m = [mounted |-> TRUE, follow |-> f, peers |-> q]

ModalShape(m) == \E f, d, h, q : m = [mounted |-> TRUE, follow |-> f, peers |-> q,
                                      drawn |-> d, shown |-> h]

\* A map is not there, or shows the vehicle among the peers of the world.
MinimapIsTrue ==
    \/ minimap = Driver!Unmounted
    \/ /\ DriverUp
       /\ MinimapShape(minimap)
       /\ OneMarkerEach(minimap.peers, Driver!Present(world))

ModalIsTrue ==
    \/ modal = Driver!Unmounted
    \/ /\ DriverUp /\ extended
       /\ ModalShape(modal)
       /\ OneMarkerEach(modal.peers, Driver!Present(world))
       /\ \A l \in DOMAIN modal.peers.layers : modal.peers.layers[l] = Driver!Colour(world, l.of)

StreamIsTrue ==
    /\ stream = [failed |-> stream.failed, retry |-> stream.retry]
    /\ stream.failed => awareness = "CAMERA"

ForwardIsTrue ==
    IF DriverUp THEN Remembered(world, at, forward) ELSE forward = Driver!NoHazard

DriverIsTrue ==
    /\ world \in Worlds /\ at \in Nat /\ extended \in BOOLEAN
    /\ ForwardIsTrue
    /\ MinimapIsTrue
    /\ ModalIsTrue
    /\ StreamIsTrue

DriverInv == part = "driver" => DriverIsTrue

LEMMA ForwardIsAHazard ==
    ASSUME ForwardIsTrue
    PROVE  forward \in Hazards
  BY DEF ForwardIsTrue, Remembered, Hazards, Driver!NoHazard, Driver!WideZone

LEMMA DriverMarkers ==
    /\ Driver!NoMarkers = NoMarkers
    /\ \A m : Driver!CleanedUp(m) = NoMarkers
    /\ \A m, looks : Driver!Reconciled(m, looks) = Reconciled(m, looks)
    /\ \A m, looks : Driver!ReconciledAndPainted(m, looks) = ReconciledAndPainted(m, looks)
    /\ \A m, S : Driver!OneMarkerEach(m, S) <=> OneMarkerEach(m, S)
  <1>1. Driver!NoMarkers = NoMarkers /\ \A m : Driver!CleanedUp(m) = NoMarkers
    BY DEF Driver!CleanedUp, Driver!NoMarkers, NoMarkers
  <1>2. \A m, looks : Driver!Added(m, looks) = Added(m, looks)
    BY DEF Driver!Added, Added, Driver!NewLayer, NewLayer
  <1>3. \A m, looks : Driver!Repainted(m, looks) = Repainted(m, looks)
    BY DEF Driver!Repainted, Repainted
  <1>4. \A m, S : Driver!Pruned(m, S) = Pruned(m, S)
    BY DEF Driver!Pruned, Pruned
  <1>5. \A m, S : Driver!OneMarkerEach(m, S) <=> OneMarkerEach(m, S)
    BY DEF Driver!OneMarkerEach, OneMarkerEach
  <1> QED
    BY <1>1, <1>2, <1>3, <1>4, <1>5
       DEF Driver!Reconciled, Reconciled, Driver!ReconciledAndPainted, ReconciledAndPainted

\* What the effects leave on the small map and on the route map.
LEMMA MinimapHasThePeers ==
    ASSUME NEW m, MinimapShape(m), NEW S, OneMarkerEach(m.peers, S), NEW w
    PROVE  LET n == Driver!WithPeers(m, w)
           IN  /\ MinimapShape(n) /\ n.mounted
               /\ OneMarkerEach(n.peers, Driver!Present(w))
  <1> DEFINE looks == Driver!Colours(w)
             peers == Reconciled(m.peers, looks)
             n == Driver!WithPeers(m, w)
  <1>1. DOMAIN looks = Driver!Present(w)
    BY DEF Driver!Colours
  <1>2. n = [m EXCEPT !.peers = peers]
    BY DriverMarkers DEF Driver!WithPeers
  <1> HIDE DEF looks, n
  <1>3. OneMarkerEach(peers, Driver!Present(w))
    BY <1>1, ReconciledGivesOneEach
  <1> HIDE DEF peers
  <1>4. PICK f, q : m = [mounted |-> TRUE, follow |-> f, peers |-> q]
    BY DEF MinimapShape
  <1>5. n = [mounted |-> TRUE, follow |-> f, peers |-> peers]
    BY <1>2, <1>4
  <1>6. MinimapShape(n) /\ n.mounted /\ n.peers = peers
    BY <1>5 DEF MinimapShape
  <1> QED
    BY <1>3, <1>6 DEF n

LEMMA ModalHasThePeers ==
    ASSUME NEW m, ModalShape(m), NEW S, OneMarkerEach(m.peers, S), NEW w
    PROVE  LET n == Driver!WithPaintedPeers(m, w)
           IN  /\ ModalShape(n) /\ n.mounted
               /\ OneMarkerEach(n.peers, Driver!Present(w))
               /\ \A l \in DOMAIN n.peers.layers : n.peers.layers[l] = Driver!Colour(w, l.of)
  <1> DEFINE looks == Driver!Colours(w)
             peers == ReconciledAndPainted(m.peers, looks)
             n == Driver!WithPaintedPeers(m, w)
  <1>1. DOMAIN looks = Driver!Present(w) /\ \A p \in DOMAIN looks : looks[p] = Driver!Colour(w, p)
    BY DEF Driver!Colours
  <1>2. n = [m EXCEPT !.peers = peers]
    BY DriverMarkers DEF Driver!WithPaintedPeers
  <1> HIDE DEF looks, n
  <1>3. OneMarkerEach(peers, DOMAIN looks) /\ \A l \in DOMAIN peers.layers : peers.layers[l] = looks[l.of]
    BY PaintedIsOfNow
  <1> HIDE DEF peers
  <1>4. \A l \in DOMAIN peers.layers : peers.layers[l] = Driver!Colour(w, l.of)
    BY <1>1, <1>3 DEF OneMarkerEach
  <1>5. PICK f, d, h, q : m = [mounted |-> TRUE, follow |-> f, peers |-> q, drawn |-> d,
                               shown |-> h]
    BY DEF ModalShape
  <1>6. n = [mounted |-> TRUE, follow |-> f, peers |-> peers, drawn |-> d, shown |-> h]
    BY <1>2, <1>5
  <1>7. ModalShape(n) /\ n.mounted /\ n.peers = peers
    BY <1>6 DEF ModalShape
  <1> QED
    BY <1>1, <1>3, <1>4, <1>7 DEF n

LEMMA NewMaps ==
    /\ MinimapShape(Driver!NewMinimap) /\ OneMarkerEach(Driver!NewMinimap.peers, {})
    /\ \A w : ModalShape(Driver!NewModal(w)) /\ OneMarkerEach(Driver!NewModal(w).peers, {})
  <1>1. MinimapShape(Driver!NewMinimap) /\ Driver!NewMinimap.peers = NoMarkers
    BY DriverMarkers DEF Driver!NewMinimap, MinimapShape
  <1>2. \A w : ModalShape(Driver!NewModal(w)) /\ Driver!NewModal(w).peers = NoMarkers
    BY DriverMarkers DEF Driver!NewModal, ModalShape
  <1> QED
    BY <1>1, <1>2, NoMarkersForNobody

\* The cleanups leave a map of the same shape, without markers.
LEMMA CleanedMinimap ==
    ASSUME NEW m, MinimapShape(m), NEW n, n = [m EXCEPT !.peers = NoMarkers]
    PROVE  MinimapShape(n) /\ OneMarkerEach(n.peers, {})
  <1>1. PICK f, q : m = [mounted |-> TRUE, follow |-> f, peers |-> q]
    BY DEF MinimapShape
  <1>2. n = [mounted |-> TRUE, follow |-> f, peers |-> NoMarkers]
    BY <1>1
  <1> QED
    BY <1>2, NoMarkersForNobody DEF MinimapShape

LEMMA CleanedModal ==
    ASSUME NEW m, ModalShape(m), NEW r, NEW n, n = [m EXCEPT !.peers = NoMarkers, !.drawn = r]
    PROVE  ModalShape(n) /\ OneMarkerEach(n.peers, {})
  <1>1. PICK f, d, h, q : m = [mounted |-> TRUE, follow |-> f, peers |-> q, drawn |-> d,
                               shown |-> h]
    BY DEF ModalShape
  <1>2. n = [mounted |-> TRUE, follow |-> f, peers |-> NoMarkers, drawn |-> r, shown |-> h]
    BY <1>1
  <1> QED
    BY <1>2, NoMarkersForNobody DEF ModalShape

\* Following or not, a map keeps its markers; so does the route map with or without route.
LEMMA MovedMinimap ==
    ASSUME NEW m, MinimapShape(m), NEW v, NEW n, n = [m EXCEPT !.follow = v]
    PROVE  MinimapShape(n) /\ n.peers = m.peers
  <1>1. PICK f, q : m = [mounted |-> TRUE, follow |-> f, peers |-> q]
    BY DEF MinimapShape
  <1>2. n = [mounted |-> TRUE, follow |-> v, peers |-> q]
    BY <1>1
  <1> QED
    BY <1>1, <1>2 DEF MinimapShape

LEMMA MovedModal ==
    ASSUME NEW m, ModalShape(m), NEW v, NEW n,
           n = [m EXCEPT !.follow = v] \/ n = [m EXCEPT !.shown = v]
    PROVE  ModalShape(n) /\ n.peers = m.peers
  <1>1. PICK f, d, h, q : m = [mounted |-> TRUE, follow |-> f, peers |-> q, drawn |-> d,
                               shown |-> h]
    BY DEF ModalShape
  <1>2. \/ n = [mounted |-> TRUE, follow |-> v, peers |-> q, drawn |-> d, shown |-> h]
        \/ n = [mounted |-> TRUE, follow |-> f, peers |-> q, drawn |-> d, shown |-> v]
    BY <1>1
  <1> QED
    BY <1>1, <1>2 DEF ModalShape

\* A render makes everything anew of the world it is given.
LEMMA RenderStep ==
    ASSUME DriverIsTrue, NEW w \in Worlds, NEW t \in Nat, NEW c, NEW open \in BOOLEAN,
           NEW display, NEW retry, Driver!Render(w, t, c, open, display, retry)
    PROVE  DriverIsTrue'
  <1>1. /\ world' = w /\ at' = t /\ connection' = c /\ awareness' = display
        /\ forward' = IF Driver!Available(w, c) THEN Driver!SelectForward(w, t, forward)
                                               ELSE Driver!NoHazard
        /\ extended' = (open /\ Driver!Available(w, c))
        /\ minimap' = Driver!NextMinimap(w, c)
        /\ modal' = Driver!NextModal(w, c, open)
        /\ stream' = [failed |-> stream.failed
                        /\ Driver!StreamKey(w, c, retry, display)
                             = Driver!StreamKey(world, connection, stream.retry, awareness),
                      retry |-> retry]
    BY DEF Driver!Render
  <1>2. DriverUp' = Driver!Available(w, c)
    BY <1>1 DEF DriverUp, Driver!Available
  <1>3. ForwardIsTrue'
    <2>1. forward \in Hazards
      BY ForwardIsAHazard DEF DriverIsTrue
    <2> DEFINE hazard == Driver!SelectForward(w, t, forward)
    <2>2. Remembered(w, t, hazard)
      BY <2>1, SelectionRemembers
    <2> HIDE DEF hazard
    <2>3. CASE Driver!Available(w, c)
      <3>1. forward' = hazard
        BY <1>1, <2>3 DEF hazard
      <3> QED
        BY <1>1, <1>2, <2>2, <2>3, <3>1 DEF ForwardIsTrue, Remembered
    <2>4. CASE ~Driver!Available(w, c)
      BY <1>1, <1>2, <2>4 DEF ForwardIsTrue
    <2> QED
      BY <2>3, <2>4
  <1>4. MinimapIsTrue'
    <2>1. CASE ~Driver!Available(w, c)
      BY <1>1, <2>1 DEF MinimapIsTrue, Driver!NextMinimap
    <2>2. CASE Driver!Available(w, c)
      <3> DEFINE m == IF minimap.mounted THEN minimap ELSE Driver!NewMinimap
                 n == Driver!WithPeers(m, w)
      <3>1. minimap' = n
        BY <1>1, <2>2 DEF Driver!NextMinimap
      <3>2. MinimapShape(m) /\ \E S : OneMarkerEach(m.peers, S)
        BY NewMaps DEF DriverIsTrue, MinimapIsTrue, Driver!Unmounted
      <3> HIDE DEF m
      <3>3. MinimapShape(n) /\ OneMarkerEach(n.peers, Driver!Present(w))
        BY <3>2, MinimapHasThePeers
      <3>4. Driver!Present(world)' = Driver!Present(w)
        BY <1>1 DEF Driver!Present
      <3> HIDE DEF n
      <3> QED
        BY <1>2, <2>2, <3>1, <3>3, <3>4 DEF MinimapIsTrue
    <2> QED
      BY <2>1, <2>2
  <1>5. ModalIsTrue'
    <2>1. CASE ~open \/ ~Driver!Available(w, c)
      BY <1>1, <2>1 DEF ModalIsTrue, Driver!NextModal
    <2>2. CASE open /\ Driver!Available(w, c)
      <3> DEFINE m == IF modal.mounted THEN modal ELSE Driver!NewModal(w)
                 n == Driver!WithPaintedPeers(m, w)
      <3>1. modal' = n
        BY <1>1, <2>2 DEF Driver!NextModal
      <3>2. ModalShape(m) /\ \E S : OneMarkerEach(m.peers, S)
        BY NewMaps DEF DriverIsTrue, ModalIsTrue, Driver!Unmounted
      <3> HIDE DEF m
      <3>3. /\ ModalShape(n)
            /\ OneMarkerEach(n.peers, Driver!Present(w))
            /\ \A l \in DOMAIN n.peers.layers : n.peers.layers[l] = Driver!Colour(w, l.of)
        BY <3>2, ModalHasThePeers
      <3>4. /\ Driver!Present(world)' = Driver!Present(w)
            /\ \A p : Driver!Colour(world, p)' = Driver!Colour(w, p)
        BY <1>1 DEF Driver!Present, Driver!Colour
      <3>5. extended'
        BY <1>1, <2>2
      <3> HIDE DEF n
      <3> QED
        BY <1>2, <2>2, <3>1, <3>3, <3>4, <3>5 DEF ModalIsTrue
    <2> QED
      BY <2>1, <2>2
  <1>6. StreamIsTrue'
    <2>1. stream'.failed => stream.failed /\ display = awareness
      BY <1>1 DEF Driver!StreamKey
    <2>2. stream' = [failed |-> stream'.failed, retry |-> stream'.retry]
      BY <1>1
    <2> QED
      BY <1>1, <2>1, <2>2 DEF DriverIsTrue, StreamIsTrue
  <1>7. extended' \in BOOLEAN
    BY <1>1 DEF Driver!Available
  <1> QED
    BY <1>1, <1>3, <1>4, <1>5, <1>6, <1>7 DEF DriverIsTrue

LEMMA DriverInitIsTrue ==
    ASSUME Driver!DriverInit
    PROVE  DriverIsTrue
  BY DEF Driver!DriverInit, DriverIsTrue, ForwardIsTrue, DriverUp, Driver!Available,
         MinimapIsTrue, ModalIsTrue, StreamIsTrue

\* The cleanups forget what the maps had, so that effects that run again make it once.
LEMMA EffectsReplayedStep ==
    ASSUME DriverIsTrue, Driver!EffectsReplayed
    PROVE  DriverIsTrue'
  <1> DEFINE small == [minimap EXCEPT !.peers = NoMarkers]
             route == [modal EXCEPT !.peers = NoMarkers, !.drawn = world.route]
             n == Driver!WithPeers(small, world)
             k == Driver!WithPaintedPeers(route, world)
  <1>1. /\ minimap.mounted /\ minimap' = n
        /\ modal' = IF modal.mounted THEN k ELSE modal
        /\ UNCHANGED <<connection, world, at, forward, extended, awareness, stream>>
    BY DriverMarkers DEF Driver!EffectsReplayed
  <1>2. ForwardIsTrue /\ MinimapIsTrue /\ ModalIsTrue /\ StreamIsTrue
    BY DEF DriverIsTrue
  <1>3. DriverUp /\ MinimapShape(minimap)
    BY <1>1, <1>2 DEF MinimapIsTrue, Driver!Unmounted
  <1>4. MinimapShape(small) /\ OneMarkerEach(small.peers, {})
    BY <1>3, CleanedMinimap
  <1> HIDE DEF small
  <1>5. MinimapShape(n) /\ OneMarkerEach(n.peers, Driver!Present(world))
    BY <1>4, MinimapHasThePeers
  <1> HIDE DEF n
  <1>6. MinimapIsTrue'
    BY <1>1, <1>3, <1>5 DEF MinimapIsTrue, DriverUp, Driver!Available, Driver!Present
  <1> HIDE DEF k
  <1>7. ModalIsTrue'
    <2>1. CASE ~modal.mounted
      <3>1. modal = Driver!Unmounted
        BY <1>2, <2>1 DEF ModalIsTrue, ModalShape
      <3> QED
        BY <1>1, <2>1, <3>1 DEF ModalIsTrue
    <2>2. CASE modal.mounted
      <3>1. extended /\ ModalShape(modal)
        BY <1>2, <2>2 DEF ModalIsTrue, Driver!Unmounted
      <3>2. ModalShape(route) /\ OneMarkerEach(route.peers, {})
        BY <3>1, CleanedModal
      <3> HIDE DEF route
      <3>3. /\ ModalShape(k)
            /\ OneMarkerEach(k.peers, Driver!Present(world))
            /\ \A l \in DOMAIN k.peers.layers : k.peers.layers[l] = Driver!Colour(world, l.of)
        BY <3>2, ModalHasThePeers DEF k
      <3> QED
        BY <1>1, <1>3, <2>2, <3>1, <3>3
           DEF ModalIsTrue, DriverUp, Driver!Available, Driver!Present, Driver!Colour
    <2> QED
      BY <2>1, <2>2
  <1> QED
    BY <1>1, <1>2, <1>6, <1>7
       DEF DriverIsTrue, ForwardIsTrue, Remembered, StreamIsTrue, DriverUp, Driver!Available

LEMMA DriverStep ==
    ASSUME DriverIsTrue, Driver!DriverNext
    PROVE  DriverIsTrue'
  <1>1. /\ world \in Worlds /\ at \in Nat /\ extended \in BOOLEAN
        /\ ForwardIsTrue /\ MinimapIsTrue /\ ModalIsTrue /\ StreamIsTrue
    BY DEF DriverIsTrue
  <1>2. CASE Driver!WorldShown
    <2>1. PICK w \in Worlds, t \in {0, at, at + 1} :
            Driver!Render(w, t, "CONNECTED", extended, awareness, stream.retry)
      BY <1>2 DEF Driver!WorldShown
    <2>2. t \in Nat
      BY <1>1
    <2> QED
      BY <1>1, <2>1, <2>2, RenderStep
  <1>3. CASE Driver!ConnectionReported
    BY <1>1, <1>3, RenderStep DEF Driver!ConnectionReported
  <1>4. CASE Driver!ChooseAwareness
    BY <1>1, <1>4, RenderStep DEF Driver!ChooseAwareness
  <1>5. CASE Driver!ExpandMap
    BY <1>1, <1>5, RenderStep DEF Driver!ExpandMap
  <1>6. CASE Driver!CloseMap
    BY <1>1, <1>6, RenderStep DEF Driver!CloseMap
  <1>7. CASE Driver!StreamFails \/ Driver!RetryStream
    <2>1. UNCHANGED <<connection, world, at, forward, extended, awareness, minimap, modal>>
      BY <1>7 DEF Driver!StreamFails, Driver!RetryStream
    <2>2. StreamIsTrue'
      <3>1. CASE Driver!StreamFails
        <4>1. stream' = [stream EXCEPT !.failed = TRUE] /\ awareness = "CAMERA"
          BY <3>1 DEF Driver!StreamFails, Driver!CameraShown
        <4> QED
          BY <1>1, <2>1, <4>1 DEF StreamIsTrue
      <3>2. CASE Driver!RetryStream
        <4>1. stream' = [failed |-> FALSE, retry |-> 1 - stream.retry]
          BY <3>2 DEF Driver!RetryStream
        <4> QED
          BY <4>1 DEF StreamIsTrue
      <3> QED
        BY <1>7, <3>1, <3>2
    <2> QED
      BY <1>1, <2>1, <2>2
         DEF DriverIsTrue, ForwardIsTrue, Remembered, MinimapIsTrue, ModalIsTrue, DriverUp,
             Driver!Available, Driver!Present, Driver!Colour
  <1>8. CASE Driver!MoveMinimap
    <2>1. /\ minimap.mounted /\ minimap' = [minimap EXCEPT !.follow = ~@]
          /\ UNCHANGED <<connection, world, at, forward, extended, awareness, stream, modal>>
      BY <1>8 DEF Driver!MoveMinimap
    <2>2. /\ DriverUp
          /\ MinimapShape(minimap)
          /\ OneMarkerEach(minimap.peers, Driver!Present(world))
      BY <1>1, <2>1 DEF MinimapIsTrue, Driver!Unmounted
    <2>3. MinimapShape(minimap') /\ minimap'.peers = minimap.peers
      BY <2>1, <2>2, MovedMinimap
    <2>4. MinimapIsTrue'
      BY <2>1, <2>2, <2>3 DEF MinimapIsTrue, DriverUp, Driver!Available, Driver!Present
    <2> QED
      BY <1>1, <2>1, <2>4
         DEF DriverIsTrue, ForwardIsTrue, Remembered, ModalIsTrue, StreamIsTrue, DriverUp,
             Driver!Available, Driver!Present, Driver!Colour
  <1>9. CASE Driver!MoveModal \/ Driver!ToggleRoute
    <2>1. /\ modal.mounted
          /\ UNCHANGED <<connection, world, at, forward, extended, awareness, stream, minimap>>
      BY <1>9 DEF Driver!MoveModal, Driver!ToggleRoute
    <2>2. \E v : modal' = [modal EXCEPT !.follow = v] \/ modal' = [modal EXCEPT !.shown = v]
      BY <1>9 DEF Driver!MoveModal, Driver!ToggleRoute
    <2>3. /\ DriverUp /\ extended
          /\ ModalShape(modal)
          /\ OneMarkerEach(modal.peers, Driver!Present(world))
          /\ \A l \in DOMAIN modal.peers.layers :
               modal.peers.layers[l] = Driver!Colour(world, l.of)
      BY <1>1, <2>1 DEF ModalIsTrue, Driver!Unmounted
    <2>4. ModalShape(modal') /\ modal'.peers = modal.peers
      BY <2>2, <2>3, MovedModal
    <2>5. ModalIsTrue'
      BY <2>1, <2>3, <2>4
         DEF ModalIsTrue, DriverUp, Driver!Available, Driver!Present, Driver!Colour
    <2> QED
      BY <1>1, <2>1, <2>5
         DEF DriverIsTrue, ForwardIsTrue, Remembered, MinimapIsTrue, StreamIsTrue, DriverUp,
             Driver!Available, Driver!Present
  <1>10. CASE Driver!Remounted
    <2>1. /\ forward' = IF DriverUp THEN Driver!SelectForward(world, at, Driver!NoHazard)
                         ELSE Driver!NoHazard
          /\ extended' = FALSE /\ modal' = Driver!Unmounted
          /\ minimap' = IF DriverUp THEN Driver!WithPeers(Driver!NewMinimap, world)
                        ELSE Driver!Unmounted
          /\ stream' = [failed |-> FALSE, retry |-> 0]
          /\ UNCHANGED <<connection, world, at, awareness>>
      BY <1>10 DEF Driver!Remounted, DriverUp
    <2>2. DriverUp' = DriverUp /\ Driver!Present(world)' = Driver!Present(world)
      BY <2>1 DEF DriverUp, Driver!Available, Driver!Present
    <2>3. ForwardIsTrue'
      <3>1. Driver!NoHazard \in Hazards
        BY DEF Driver!NoHazard, Hazards, Driver!WideZone
      <3>2. Remembered(world, at, Driver!SelectForward(world, at, Driver!NoHazard))
        BY <1>1, <3>1, SelectionRemembers
      <3> QED
        BY <2>1, <2>2, <3>2 DEF ForwardIsTrue, Remembered
    <2>4. MinimapIsTrue'
      <3> DEFINE n == Driver!WithPeers(Driver!NewMinimap, world)
      <3>3. MinimapShape(n) /\ OneMarkerEach(n.peers, Driver!Present(world))
        BY NewMaps, MinimapHasThePeers
      <3>4. minimap' = IF DriverUp THEN n ELSE Driver!Unmounted
        BY <2>1
      <3> HIDE DEF n
      <3> QED
        BY <2>2, <3>3, <3>4 DEF MinimapIsTrue
    <2>5. ModalIsTrue' /\ StreamIsTrue'
      BY <2>1 DEF ModalIsTrue, StreamIsTrue
    <2> QED
      BY <1>1, <2>1, <2>3, <2>4, <2>5 DEF DriverIsTrue
  <1>11. CASE Driver!EffectsReplayed
    BY <1>11, EffectsReplayedStep
  <1> QED
    BY <1>2, <1>3, <1>4, <1>5, <1>6, <1>7, <1>8, <1>9, <1>10, <1>11 DEF Driver!DriverNext

\* The hazard remembered, the maps and the camera of the driver's view agree with the
\* worlds that were rendered (forwardHazard.ts, DriverDashboard.tsx): the invariant the
\* three theorems below rest on.
THEOREM DriverInvariant == DashboardSpec => []DriverInv
  <1>1. DashboardInit => DriverInv
    BY DriverInitIsTrue DEF DashboardInit, DriverInv
  <1>2. DriverInv /\ [DashboardNext]_dashboardVars => DriverInv'
    <2> SUFFICES ASSUME DriverInv, [DashboardNext]_dashboardVars, part' = "driver"
                 PROVE  DriverIsTrue'
      BY DEF DriverInv
    <2>1. CASE DashboardNext
      <3>1. part = "driver" /\ Driver!DriverNext
        BY <2>1 DEF DashboardNext, OthersUnchanged
      <3> QED
        BY <3>1, DriverStep DEF DriverInv
    <2>2. CASE UNCHANGED dashboardVars
      <3>1. part = "driver" /\ UNCHANGED driverVars
        BY <2>2 DEF dashboardVars
      <3>2. DriverIsTrue
        BY <3>1 DEF DriverInv
      <3> QED
        BY <3>1, <3>2
           DEF driverVars, DriverIsTrue, ForwardIsTrue, Remembered, MinimapIsTrue, ModalIsTrue,
               StreamIsTrue, DriverUp, Driver!Available, Driver!Present, Driver!Colour
    <2> QED
      BY <2>1, <2>2
  <1> QED
    BY <1>1, <1>2, PTL DEF DashboardSpec

\* The hazard the driver is warned of is one the simulated world has, or had within
\* the hold, and the nearest there is; it is forgotten with the vehicle
\* (forwardHazard.ts, DriverDashboard.tsx 62-64).
THEOREM HazardsAreTrue == DashboardSpec => []HazardIsTrue
  <1>1. DriverInv => HazardIsTrue
    BY DEF DriverInv, DriverIsTrue, ForwardIsTrue, Remembered, DriverUp, HazardIsTrue,
           Driver!HazardIsTrue
  <1> QED
    BY <1>1, DriverInvariant, PTL

\* The view says nothing reassuring that the vehicle and its sensors do not bear out
\* (DriverDashboard.tsx, docs/IMPLEMENTATION_STATUS.md 365-366).
THEOREM ReassuranceIsVerified == DashboardSpec => []ClearIsVerified
  <1>1. ASSUME DriverIsTrue
        PROVE  Driver!ClearIsVerified
    <2> DEFINE near == world.mode = "SIMULATED" /\ world.confident
                       /\ \E o \in Driver!Objects : world.places[o] \in 1 .. Driver!EnterZone
               level == Driver!DisplayEmergency(world, forward)
    <2>1. /\ ForwardIsTrue /\ MinimapIsTrue /\ ModalIsTrue /\ StreamIsTrue
          /\ world.emergency \in Driver!Levels
      BY <1>1, WorldHasItsType DEF DriverIsTrue
    <2>2. ASSUME DriverUp, level = "SAFE"
          PROVE  /\ ~near /\ world.emergency # "EMERGENCY_STOP"
                 /\ world.mode # "SIMULATED" => world.emergency = "SAFE"
      <3>1. world.mode = "SIMULATED" /\ world.emergency # "EMERGENCY_STOP"
              => forward = Driver!NoHazard
        BY <2>2 DEF Driver!DisplayEmergency
      <3>2. near => forward # Driver!NoHazard
        BY <2>1, <2>2 DEF ForwardIsTrue, Remembered, Driver!NoHazard, Driver!EnterZone
      <3>3. world.mode # "SIMULATED" \/ world.emergency = "EMERGENCY_STOP"
              => world.emergency = "SAFE"
        BY <2>2 DEF Driver!DisplayEmergency
      <3> QED
        BY <3>1, <3>2, <3>3
    <2>3. level \in Driver!Levels
      BY <2>1 DEF Driver!DisplayEmergency, Driver!Levels
    <2>4. Driver!EmergencyControl(world, connection, forward) = "NO STOP REQUEST"
            => DriverUp /\ level = "SAFE"
      <3> HIDE DEF level
      <3> QED
        BY <2>3 DEF Driver!EmergencyControl, Driver!Levels, DriverUp, level
    <2>5. Driver!Banner(world, connection, forward) = "none" => DriverUp /\ level = "SAFE"
      <3> HIDE DEF level
      <3> QED
        BY <2>3 DEF Driver!Banner, Driver!Levels, DriverUp, level
    <2>6. minimap.mounted \/ modal.mounted => DriverUp
      BY <2>1 DEF MinimapIsTrue, ModalIsTrue, Driver!Unmounted
    <2>7. stream.failed => awareness = "CAMERA"
      BY <2>1 DEF StreamIsTrue
    <2>8. DriverUp <=> connection = "CONNECTED" /\ world.reported
      BY DEF DriverUp, Driver!Available
    <2>9. Driver!CardCorridor(world, connection) = "GREEN"
            => DriverUp /\ world.corridor = "GREEN" /\ world.trusted = Driver!ToFCount
      BY DEF Driver!CardCorridor, DriverUp
    <2> HIDE DEF level
    <2> QED
      BY <2>2, <2>4, <2>5, <2>6, <2>7, <2>8, <2>9 DEF Driver!ClearIsVerified
  <1>2. DriverInv => ClearIsVerified
    BY <1>1 DEF DriverInv, ClearIsVerified
  <1> QED
    BY <1>2, DriverInvariant, PTL

\* However the peers have come and gone, and whatever effects were replayed, each of the
\* view's maps has one marker for each peer of the world shown and none it has lost
\* hold of; those of the route map have the colour of now, while the small map paints a
\* marker once (CampusMinimap.tsx 180-219, CampusExtendedMapModal.tsx 203-243).
THEOREM MapsAreOfNow == DashboardSpec => []MapsShowThePeers
  <1>1. DriverInv => MapsShowThePeers
    BY DriverMarkers
       DEF DriverInv, DriverIsTrue, MinimapIsTrue, ModalIsTrue, MapsShowThePeers,
           Driver!MapsShowThePeers, Driver!Unmounted
  <1> QED
    BY <1>1, DriverInvariant, PTL

-----------------------------------------------------------------------------
(* The sensor settings *)

Pairs    == [alert : Nat, visual : Nat]
Fitting  == {pair \in Pairs : Settings!Fits(pair)}
Requests == [phase : {"sent", "abandoned", "saved", "refused", "broken"}, sensor : Sensors,
             setting : Pairs, alone : BOOLEAN]

SettingsTypes ==
    /\ saves \in [Settings!Numbers -> {Settings!Free} \cup Requests]
    /\ drafts \in [Sensors -> Pairs]
    /\ load.phase = "answered" => load.body \in [Sensors -> Pairs]
    /\ memory \in [Sensors -> Fitting]
    /\ file \in {Settings!NoFile} \cup [Sensors -> Fitting]
    /\ settled \in [Sensors -> Pairs]

\* Value v of sensor s is in the file, and stays there whatever is written next.
Stored(s, v) ==
    /\ file # Settings!NoFile /\ file[s] = v
    /\ serving => memory[s] = v

InFlight(n) == saves[n].phase # "free"

\* A save under way alone knows of every other of its sensor.
AloneIsAlone ==
    \A n, k \in Settings!Numbers :
        n # k /\ InFlight(n) /\ InFlight(k) /\ saves[n].sensor = saves[k].sensor
          => ~saves[n].alone

SavedIsStored ==
    \A n \in Settings!Numbers :
        saves[n].phase = "saved" /\ saves[n].alone => Stored(saves[n].sensor, saves[n].setting)

SettledStays ==
    \A s \in Sensors : settled[s] # Settings!Unknown =>
        /\ Stored(s, settled[s])
        /\ \A n \in Settings!Numbers : InFlight(n) => saves[n].sensor # s

SettingsAreTrue ==
    /\ SettingsTypes
    /\ AloneIsAlone
    /\ SavedIsStored
    /\ SettledStays

SettingsInv == part = "settings" => SettingsAreTrue

LEMMA DefaultsFit == Settings!Defaults \in [Sensors -> Fitting]
  <1>1. Settings!Setting(1, 1) \in Fitting
    BY DEF Settings!Setting, Fitting, Pairs, Settings!Fits
  <1> QED
    BY <1>1 DEF Settings!Defaults

LEMMA SettingsInitIsTrue ==
    ASSUME Settings!SettingsInit
    PROVE  SettingsAreTrue
  <1>1. /\ drafts = Settings!Defaults /\ memory = Settings!Defaults /\ file = Settings!NoFile
        /\ load.phase # "answered"
        /\ saves \in [Settings!Numbers -> {Settings!Free}]
        /\ settled = [s \in Sensors |-> Settings!Unknown]
    BY DEF Settings!SettingsInit
  <1>2. Settings!Unknown \in Pairs /\ Fitting \subseteq Pairs
    BY DEF Settings!Unknown, Settings!Setting, Pairs, Fitting
  <1>3. SettingsTypes
    BY <1>1, <1>2, DefaultsFit DEF SettingsTypes
  <1>4. \A n \in Settings!Numbers : ~InFlight(n) /\ saves[n].phase # "saved"
    BY <1>1 DEF InFlight, Settings!Free
  <1> QED
    BY <1>1, <1>3, <1>4 DEF SettingsAreTrue, AloneIsAlone, SavedIsStored, SettledStays

\* What a request that is under way says of itself.
LEMMA RequestTypes ==
    ASSUME SettingsTypes, NEW n \in Settings!Numbers
    PROVE  /\ InFlight(n) => saves[n] \in Requests
           /\ saves[n].phase # "free" <=> InFlight(n)
  BY DEF SettingsTypes, InFlight, Settings!Free

\* Requests that only end, or are given up, leave the rest true, if the store keeps
\* what is stored.
LEMMA RequestsEnd ==
    ASSUME SettingsAreTrue, settled' = settled,
           drafts' \in [Sensors -> Pairs],
           load'.phase = "answered" => load'.body \in [Sensors -> Pairs],
           memory' \in [Sensors -> Fitting],
           file' \in {Settings!NoFile} \cup [Sensors -> Fitting],
           \A s \in Sensors, v \in Pairs : Stored(s, v) => Stored(s, v)',
           saves' = [n \in Settings!Numbers |-> saves'[n]],
           \A n \in Settings!Numbers :
               \/ saves'[n] = saves[n]
               \/ saves'[n] = Settings!Free
               \/ /\ saves[n] \in Requests
                  /\ \E phase \in {"abandoned", "refused", "broken"} :
                       saves'[n] = [saves[n] EXCEPT !.phase = phase]
    PROVE  SettingsAreTrue'
  <1>1. ASSUME NEW n \in Settings!Numbers
        PROVE  /\ saves'[n] \in {Settings!Free} \cup Requests
               /\ InFlight(n)' => /\ InFlight(n)
                                  /\ saves'[n].sensor = saves[n].sensor
                                  /\ saves'[n].alone = saves[n].alone
               /\ saves'[n].phase = "saved" => saves'[n] = saves[n] /\ saves[n] \in Requests
    <2>1. saves[n] \in {Settings!Free} \cup Requests
      BY DEF SettingsAreTrue, SettingsTypes
    <2>2. CASE saves'[n] = saves[n]
      BY <2>1, <2>2 DEF InFlight, Settings!Free
    <2>3. CASE saves'[n] = Settings!Free
      BY <2>3 DEF InFlight, Settings!Free
    <2>4. CASE /\ saves[n] \in Requests
               /\ \E phase \in {"abandoned", "refused", "broken"} :
                    saves'[n] = [saves[n] EXCEPT !.phase = phase]
      <3>1. PICK phase \in {"abandoned", "refused", "broken"} :
              saves'[n] = [saves[n] EXCEPT !.phase = phase]
        BY <2>4
      <3> QED
        BY <2>4, <3>1 DEF InFlight, Requests
    <2> QED
      BY <2>2, <2>3, <2>4
  <1>2. SettingsTypes'
    BY <1>1 DEF SettingsAreTrue, SettingsTypes
  <1>3. AloneIsAlone'
    BY <1>1 DEF SettingsAreTrue, AloneIsAlone
  <1>4. SavedIsStored'
    <2> SUFFICES ASSUME NEW n \in Settings!Numbers, saves'[n].phase = "saved", saves'[n].alone
                 PROVE  Stored(saves[n].sensor, saves[n].setting)'
      BY DEF SavedIsStored
    <2>1. saves'[n] = saves[n] /\ saves[n] \in Requests
      BY <1>1
    <2> DEFINE s == saves[n].sensor
               v == saves[n].setting
    <2>2. s \in Sensors /\ v \in Pairs /\ Stored(s, v)
      BY <2>1 DEF SettingsAreTrue, SavedIsStored, Requests
    <2>3. PICK r \in Sensors, u \in Pairs : r = s /\ u = v
      BY <2>2
    <2>4. Stored(r, u)'
      BY <2>2, <2>3
    <2> QED
      BY <2>1, <2>3, <2>4 DEF Stored
  <1>5. SettledStays'
    <2> SUFFICES ASSUME NEW s \in Sensors, settled[s] # Settings!Unknown
                 PROVE  /\ Stored(s, settled[s])'
                        /\ \A n \in Settings!Numbers : InFlight(n)' => saves'[n].sensor # s
      BY DEF SettledStays
    <2>1. /\ settled[s] \in Pairs /\ Stored(s, settled[s])
          /\ \A n \in Settings!Numbers : InFlight(n) => saves[n].sensor # s
      BY DEF SettingsAreTrue, SettingsTypes, SettledStays
    <2> QED
      BY <1>1, <2>1 DEF Stored
  <1> QED
    BY <1>2, <1>3, <1>4, <1>5 DEF SettingsAreTrue

\* A new save is alone unless another of its sensor is under way, and questions what
\* was settled.
LEMMA SaveStep ==
    ASSUME SettingsAreTrue, NEW s \in Sensors, NEW n \in Settings!Numbers,
           saves[n].phase = "free",
           saves' = [k \in Settings!Numbers |->
             IF k = n THEN [phase |-> "sent", sensor |-> s, setting |-> drafts[s],
                            alone |-> Settings!InFlight(s) = {}]
             ELSE IF k \in Settings!InFlight(s) THEN [saves[k] EXCEPT !.alone = FALSE]
             ELSE saves[k]],
           settled' = [settled EXCEPT ![s] = Settings!Unknown],
           UNCHANGED <<drafts, load, memory, file, serving>>
    PROVE  SettingsAreTrue'
  <1>1. SettingsTypes /\ AloneIsAlone /\ SavedIsStored /\ SettledStays
    BY DEF SettingsAreTrue
  <1>2. /\ saves'[n].phase = "sent" /\ saves'[n].sensor = s /\ saves'[n] \in Requests
        /\ saves'[n].alone => \A k \in Settings!Numbers : InFlight(k) => saves[k].sensor # s
    BY <1>1 DEF SettingsTypes, Requests, Settings!InFlight, InFlight
  <1>3. ASSUME NEW k \in Settings!Numbers, k # n
        PROVE  /\ saves'[k] \in {Settings!Free} \cup Requests
               /\ InFlight(k)' => /\ InFlight(k)
                                  /\ saves'[k].sensor = saves[k].sensor
                                  /\ saves'[k].setting = saves[k].setting
                                  /\ saves'[k].phase = saves[k].phase
                                  /\ saves'[k].alone => saves[k].alone /\ saves[k].sensor # s
    <2>1. saves[k] \in {Settings!Free} \cup Requests
      BY <1>1 DEF SettingsTypes
    <2>2. CASE k \in Settings!InFlight(s)
      <3>1. saves'[k] = [saves[k] EXCEPT !.alone = FALSE] /\ InFlight(k)
        BY <1>3, <2>2 DEF Settings!InFlight, InFlight
      <3>2. saves[k] \in Requests
        BY <2>1, <3>1 DEF InFlight, Settings!Free
      <3> QED
        BY <3>1, <3>2 DEF InFlight, Requests
    <2>3. CASE k \notin Settings!InFlight(s)
      <3>1. saves'[k] = saves[k]
        BY <1>3, <2>3
      <3> QED
        BY <2>1, <2>3, <3>1 DEF InFlight, Settings!InFlight
    <2> QED
      BY <2>2, <2>3
  <1>4. SettingsTypes'
    <2>1. settled' \in [Sensors -> Pairs]
      BY <1>1 DEF SettingsTypes, Settings!Unknown, Settings!Setting, Pairs
    <2>2. saves' \in [Settings!Numbers -> {Settings!Free} \cup Requests]
      BY <1>2, <1>3
    <2> QED
      BY <1>1, <2>1, <2>2 DEF SettingsTypes
  <1>5. AloneIsAlone'
    <2> SUFFICES ASSUME NEW i \in Settings!Numbers, NEW k \in Settings!Numbers, i # k,
                        InFlight(i)', InFlight(k)', saves'[i].sensor = saves'[k].sensor,
                        saves'[i].alone
                 PROVE  FALSE
      BY DEF AloneIsAlone
    <2>1. CASE i = n
      BY <1>2, <1>3, <2>1
    <2>2. CASE k = n
      BY <1>2, <1>3, <2>2
    <2>3. CASE i # n /\ k # n
      BY <1>1, <1>3, <2>3 DEF AloneIsAlone
    <2> QED
      BY <2>1, <2>2, <2>3
  <1>6. SavedIsStored'
    BY <1>1, <1>2, <1>3 DEF SavedIsStored, Stored, InFlight
  <1>7. SettledStays'
    <2>1. settled'[s] = Settings!Unknown
      BY <1>1 DEF SettingsTypes
    <2>2. \A r \in Sensors : r # s => settled'[r] = settled[r]
      BY <1>1 DEF SettingsTypes
    <2> SUFFICES ASSUME NEW r \in Sensors, settled'[r] # Settings!Unknown
                 PROVE  /\ Stored(r, settled[r])'
                        /\ \A k \in Settings!Numbers : InFlight(k)' => saves'[k].sensor # r
      BY DEF SettledStays
    <2>3. r # s /\ settled'[r] = settled[r]
      BY <2>1, <2>2
    <2>4. /\ Stored(r, settled[r])
          /\ \A k \in Settings!Numbers : InFlight(k) => saves[k].sensor # r
      BY <1>1, <2>3 DEF SettledStays
    <2>5. Stored(r, settled[r])'
      BY <2>3, <2>4 DEF Stored
    <2>6. ASSUME NEW k \in Settings!Numbers, InFlight(k)'
          PROVE  saves'[k].sensor # r
      <3>1. CASE k = n
        BY <1>2, <2>3, <3>1
      <3>2. CASE k # n
        <4>1. InFlight(k) /\ saves'[k].sensor = saves[k].sensor
          BY <1>3, <2>6, <3>2
        <4> QED
          BY <2>4, <4>1
      <3> QED
        BY <3>1, <3>2
    <2> QED
      BY <2>5, <2>6
  <1> QED
    BY <1>4, <1>5, <1>6, <1>7 DEF SettingsAreTrue

\* An answer is told to the page: what was saved alone is settled.
LEMMA SavedArrivesStep ==
    ASSUME SettingsAreTrue, Settings!SavedArrives
    PROVE  SettingsAreTrue'
  <1>1. SettingsTypes /\ AloneIsAlone /\ SavedIsStored /\ SettledStays
    BY DEF SettingsAreTrue
  <1>2. PICK n \in Settings!Numbers :
          /\ saves[n].phase = "saved"
          /\ drafts' = [drafts EXCEPT ![saves[n].sensor] = saves[n].setting]
          /\ saves' = [saves EXCEPT ![n] = Settings!Free]
          /\ settled' = IF saves[n].alone
                        THEN [settled EXCEPT ![saves[n].sensor] = saves[n].setting]
                        ELSE settled
          /\ UNCHANGED <<load, memory, file, serving>>
    BY DEF Settings!SavedArrives, Settings!storeVars
  <1> DEFINE sensor == saves[n].sensor
             setting == saves[n].setting
  <1>3. InFlight(n) /\ saves[n] \in Requests /\ sensor \in Sensors /\ setting \in Pairs
    BY <1>1, <1>2, RequestTypes DEF InFlight, Requests
  <1>4. /\ ~InFlight(n)' /\ saves'[n] = Settings!Free
        /\ \A k \in Settings!Numbers : k # n => saves'[k] = saves[k]
    BY <1>1, <1>2 DEF SettingsTypes, InFlight, Settings!Free
  <1>5. SettingsTypes'
    <2>1. saves' \in [Settings!Numbers -> {Settings!Free} \cup Requests]
      BY <1>1, <1>2 DEF SettingsTypes
    <2>2. drafts' \in [Sensors -> Pairs] /\ settled' \in [Sensors -> Pairs]
      BY <1>1, <1>2, <1>3 DEF SettingsTypes
    <2> QED
      BY <1>1, <1>2, <2>1, <2>2 DEF SettingsTypes
  <1>6. AloneIsAlone'
    BY <1>1, <1>4 DEF AloneIsAlone, InFlight
  <1>7. SavedIsStored'
    BY <1>1, <1>2, <1>4 DEF SavedIsStored, Stored, Settings!Free
  <1>8. SettledStays'
    <2> SUFFICES ASSUME NEW s \in Sensors, settled'[s] # Settings!Unknown
                 PROVE  /\ Stored(s, settled[s])'
                        /\ \A k \in Settings!Numbers : InFlight(k)' => saves'[k].sensor # s
      BY DEF SettledStays
    <2>1. CASE saves[n].alone /\ s = sensor
      <3>1. settled'[s] = setting
        BY <1>1, <1>2, <1>3, <2>1 DEF SettingsTypes
      <3>2. Stored(sensor, setting)
        BY <1>1, <1>2, <2>1 DEF SavedIsStored
      <3>3. ASSUME NEW k \in Settings!Numbers, InFlight(k)'
            PROVE  saves'[k].sensor # s
        BY <1>1, <1>3, <1>4, <2>1, <3>3 DEF AloneIsAlone, InFlight
      <3> QED
        BY <1>2, <2>1, <3>1, <3>2, <3>3 DEF Stored
    <2>2. CASE ~(saves[n].alone /\ s = sensor)
      <3>1. settled'[s] = settled[s]
        BY <1>1, <1>2, <2>2 DEF SettingsTypes
      <3>2. /\ Stored(s, settled[s])
            /\ \A k \in Settings!Numbers : InFlight(k) => saves[k].sensor # s
        BY <1>1, <3>1 DEF SettledStays
      <3>3. ASSUME NEW k \in Settings!Numbers, InFlight(k)'
            PROVE  saves'[k].sensor # s
        BY <1>4, <3>2, <3>3 DEF InFlight
      <3> QED
        BY <1>2, <3>1, <3>2, <3>3 DEF Stored
    <2> QED
      BY <2>1, <2>2
  <1> QED
    BY <1>5, <1>6, <1>7, <1>8 DEF SettingsAreTrue

\* An update writes the whole memory, or leaves the file behind for its own sensor.
LEMMA UpdateStep ==
    ASSUME SettingsAreTrue, Settings!Update
    PROVE  SettingsAreTrue'
  <1>1. SettingsTypes /\ AloneIsAlone /\ SavedIsStored /\ SettledStays
    BY DEF SettingsAreTrue
  <1>2. PICK n \in Settings!Numbers :
          /\ saves[n].phase \in {"sent", "abandoned"} /\ serving
          /\ Settings!Fits(saves[n].setting)
          /\ memory' = [memory EXCEPT ![saves[n].sensor] = saves[n].setting]
          /\ \/ /\ file' = memory'
                /\ saves' = [saves EXCEPT ![n] = Settings!Answered(saves[n], "saved")]
             \/ /\ file' = file
                /\ saves' = [saves EXCEPT ![n] = Settings!Answered(saves[n], "refused")]
          /\ UNCHANGED <<load, drafts, settled, serving>>
    BY DEF Settings!Update, Settings!pageVars
  <1> DEFINE sensor == saves[n].sensor
             setting == saves[n].setting
             answer == saves'[n]
  <1>3. InFlight(n) /\ saves[n] \in Requests /\ sensor \in Sensors /\ setting \in Fitting
    BY <1>1, <1>2, RequestTypes DEF InFlight, Requests, Fitting
  <1>4. /\ answer \in {Settings!Free} \cup Requests
        /\ InFlight(n)' => /\ answer.sensor = sensor /\ answer.setting = setting
                           /\ answer.alone = saves[n].alone
        /\ answer.phase = "saved" => InFlight(n)' /\ file' = memory'
    <2>1. PICK phase \in {"saved", "refused"} :
            answer = Settings!Answered(saves[n], phase) /\ (phase = "saved" => file' = memory')
      BY <1>1, <1>2 DEF SettingsTypes
    <2>2. CASE saves[n].phase = "sent"
      <3>1. answer = [saves[n] EXCEPT !.phase = phase]
        BY <2>1, <2>2 DEF Settings!Answered
      <3> HIDE DEF answer
      <3> QED
        BY <1>3, <2>1, <3>1 DEF Requests, InFlight, answer
    <2>3. CASE saves[n].phase # "sent"
      BY <2>1, <2>3 DEF Settings!Answered, Settings!Free, InFlight
    <2> QED
      BY <2>2, <2>3
  <1>5. \A k \in Settings!Numbers : k # n => saves'[k] = saves[k]
    BY <1>1, <1>2 DEF SettingsTypes
  <1>6. /\ memory' \in [Sensors -> Fitting] /\ memory'[sensor] = setting
        /\ \A s \in Sensors : s # sensor => memory'[s] = memory[s]
        /\ file' = memory' \/ file' = file
        /\ memory' # Settings!NoFile
    BY <1>1, <1>2, <1>3 DEF SettingsTypes, Settings!NoFile
  <1>7. ASSUME NEW s \in Sensors, NEW v \in Pairs, s # sensor, Stored(s, v)
        PROVE  Stored(s, v)'
    BY <1>2, <1>6, <1>7 DEF Stored
  <1>8. SettingsTypes'
    <2>1. saves' \in [Settings!Numbers -> {Settings!Free} \cup Requests]
      <3>1. DOMAIN saves' = Settings!Numbers /\ saves' = [k \in Settings!Numbers |-> saves'[k]]
        BY <1>1, <1>2 DEF SettingsTypes
      <3> QED
        BY <1>1, <1>4, <1>5, <3>1 DEF SettingsTypes
    <2> QED
      BY <1>1, <1>2, <1>6, <2>1 DEF SettingsTypes
  <1>9. AloneIsAlone'
    <2> SUFFICES ASSUME NEW i \in Settings!Numbers, NEW k \in Settings!Numbers, i # k,
                        InFlight(i)', InFlight(k)', saves'[i].sensor = saves'[k].sensor
                 PROVE  ~saves'[i].alone
      BY DEF AloneIsAlone
    <2>1. \A j \in Settings!Numbers : InFlight(j)' =>
             InFlight(j) /\ saves'[j].sensor = saves[j].sensor /\ saves'[j].alone = saves[j].alone
      BY <1>3, <1>4, <1>5 DEF InFlight
    <2> QED
      BY <1>1, <2>1 DEF AloneIsAlone
  <1>10. SavedIsStored'
    <2> SUFFICES ASSUME NEW k \in Settings!Numbers, saves'[k].phase = "saved", saves'[k].alone
                 PROVE  Stored(saves[k].sensor, saves[k].setting)'
      BY DEF SavedIsStored
    <2>1. CASE k = n
      <3>1. answer.sensor = sensor /\ answer.setting = setting /\ file' = memory'
        BY <1>4, <2>1
      <3> HIDE DEF sensor, setting
      <3> QED
        BY <1>6, <2>1, <3>1 DEF Stored, answer
    <2>2. CASE k # n
      <3>1. saves'[k] = saves[k] /\ InFlight(k)
        BY <1>5, <2>2 DEF InFlight
      <3>2. saves[k] \in Requests
        BY <1>1, <3>1, RequestTypes
      <3>3. PICK s \in Sensors, v \in Pairs : s = saves[k].sensor /\ v = saves[k].setting
        BY <3>2 DEF Requests
      <3>4. Stored(s, v)
        BY <1>1, <3>1, <3>3 DEF SavedIsStored
      <3>5. s # sensor
        BY <1>1, <1>3, <2>2, <3>1, <3>3 DEF AloneIsAlone
      <3>6. Stored(s, v)'
        BY <1>7, <3>4, <3>5
      <3> QED
        BY <3>1, <3>3, <3>6 DEF Stored
    <2> QED
      BY <2>1, <2>2
  <1>11. SettledStays'
    <2> SUFFICES ASSUME NEW s \in Sensors, settled'[s] # Settings!Unknown
                 PROVE  /\ Stored(s, settled[s])'
                        /\ \A k \in Settings!Numbers : InFlight(k)' => saves'[k].sensor # s
      BY DEF SettledStays
    <2>1. /\ settled' = settled /\ Stored(s, settled[s])
          /\ \A k \in Settings!Numbers : InFlight(k) => saves[k].sensor # s
      BY <1>1, <1>2 DEF SettledStays
    <2>2. s # sensor
      BY <1>3, <2>1
    <2>3. PICK v \in Pairs : v = settled[s]
      BY <1>1 DEF SettingsTypes
    <2>4. Stored(s, v)'
      BY <1>7, <2>1, <2>2, <2>3
    <2>5. ASSUME NEW k \in Settings!Numbers, InFlight(k)'
          PROVE  saves'[k].sensor # s
      BY <1>3, <1>4, <1>5, <2>1, <2>5 DEF InFlight
    <2> QED
      BY <2>1, <2>3, <2>4, <2>5 DEF Stored
  <1> QED
    BY <1>8, <1>9, <1>10, <1>11 DEF SettingsAreTrue

LEMMA SettingsStep ==
    ASSUME SettingsAreTrue, Settings!SettingsNext
    PROVE  SettingsAreTrue'
  <1>1. SettingsTypes /\ AloneIsAlone /\ SavedIsStored /\ SettledStays
    BY DEF SettingsAreTrue
  <1>2. ASSUME UNCHANGED <<saves, settled, memory, file, serving>>,
               drafts' \in [Sensors -> Pairs],
               load'.phase = "answered" => load'.body \in [Sensors -> Pairs]
        PROVE  SettingsAreTrue'
    BY <1>1, <1>2
       DEF SettingsAreTrue, SettingsTypes, AloneIsAlone, SavedIsStored, SettledStays, Stored,
           InFlight
  <1>3. CASE Settings!Edit
    <2>1. /\ UNCHANGED <<load, saves, settled, memory, file, serving>>
          /\ \E s \in Sensors, v \in Settings!Settings : drafts' = [drafts EXCEPT ![s] = v]
      BY <1>3 DEF Settings!Edit, Settings!storeVars
    <2>2. Settings!Settings \subseteq Pairs
      BY DEF Settings!Settings, Settings!Setting, Pairs
    <2>3. drafts' \in [Sensors -> Pairs]
      BY <1>1, <2>1, <2>2 DEF SettingsTypes
    <2> QED
      BY <1>1, <1>2, <2>1, <2>3 DEF SettingsTypes
  <1>4. CASE Settings!Save
    <2>1. PICK s \in Sensors :
            /\ IF demoBuild
               THEN UNCHANGED <<saves, settled>>
               ELSE /\ \E n \in Settings!Numbers :
                         /\ saves[n].phase = "free"
                         /\ saves' = [k \in Settings!Numbers |->
                              IF k = n THEN [phase |-> "sent", sensor |-> s,
                                             setting |-> drafts[s],
                                             alone |-> Settings!InFlight(s) = {}]
                              ELSE IF k \in Settings!InFlight(s)
                                   THEN [saves[k] EXCEPT !.alone = FALSE]
                              ELSE saves[k]]
                    /\ settled' = [settled EXCEPT ![s] = Settings!Unknown]
            /\ UNCHANGED <<drafts, load, memory, file, serving>>
      BY <1>4 DEF Settings!Save, Settings!storeVars
    <2>2. CASE demoBuild
      BY <1>1, <1>2, <2>1, <2>2 DEF SettingsTypes
    <2>3. CASE ~demoBuild
      BY <2>1, <2>3, SaveStep
    <2> QED
      BY <2>2, <2>3
  <1>5. CASE Settings!LoadArrives
    <2>1. /\ UNCHANGED <<saves, settled, memory, file, serving>>
          /\ load.phase = "answered" /\ drafts' = load.body /\ load' = Settings!NoLoad
      BY <1>5 DEF Settings!LoadArrives, Settings!storeVars
    <2> QED
      BY <1>1, <1>2, <2>1 DEF SettingsTypes, Settings!NoLoad
  <1>6. CASE Settings!LoadFails
    <2>1. /\ UNCHANGED <<drafts, saves, settled, memory, file, serving>>
          /\ load' = Settings!NoLoad
      BY <1>6 DEF Settings!LoadFails, Settings!storeVars
    <2> QED
      BY <1>1, <1>2, <2>1 DEF SettingsTypes, Settings!NoLoad
  <1>7. CASE Settings!AnswerLoad
    <2>1. /\ UNCHANGED <<drafts, saves, settled, memory, file, serving>>
          /\ load' = [phase |-> "answered",
                      body |-> IF demoBuild THEN Settings!Defaults ELSE memory]
      BY <1>7 DEF Settings!AnswerLoad, Settings!storeVars, Settings!pageVars
    <2>2. load'.body \in [Sensors -> Pairs]
      BY <1>1, <2>1, DefaultsFit DEF SettingsTypes, Fitting
    <2> QED
      BY <1>1, <1>2, <2>1, <2>2 DEF SettingsTypes
  <1>8. CASE Settings!SavedArrives
    BY <1>8, SavedArrivesStep
  <1>9. CASE Settings!Update
    BY <1>9, UpdateStep
  <1>10. CASE Settings!SaveFails
    <2>1. PICK n \in Settings!Numbers :
            /\ saves[n].phase \notin {"free", "abandoned"}
            /\ saves' = [saves EXCEPT ![n] = Settings!Abandoned(saves[n])]
            /\ UNCHANGED <<drafts, load, settled, memory, file, serving>>
      BY <1>10 DEF Settings!SaveFails, Settings!storeVars
    <2>2. /\ saves' = [k \in Settings!Numbers |-> saves'[k]]
          /\ saves'[n] = Settings!Abandoned(saves[n])
          /\ \A k \in Settings!Numbers : k # n => saves'[k] = saves[k]
      BY <1>1, <2>1 DEF SettingsTypes
    <2>3. saves[n] \in Requests
      BY <1>1, <2>1, RequestTypes DEF InFlight
    <2>4. \A k \in Settings!Numbers :
            \/ saves'[k] = saves[k]
            \/ saves'[k] = Settings!Free
            \/ /\ saves[k] \in Requests
               /\ \E phase \in {"abandoned", "refused", "broken"} :
                    saves'[k] = [saves[k] EXCEPT !.phase = phase]
      BY <2>2, <2>3 DEF Settings!Abandoned
    <2> QED
      BY <1>1, <2>1, <2>2, <2>4, RequestsEnd DEF SettingsTypes, Stored
  <1>11. CASE Settings!Remount
    <2>1. /\ drafts' = Settings!Defaults /\ load'.phase # "answered"
          /\ saves' = [n \in Settings!Numbers |-> Settings!Abandoned(saves[n])]
          /\ UNCHANGED <<settled, memory, file, serving>>
      BY <1>11 DEF Settings!Remount, Settings!storeVars
    <2>2. drafts' \in [Sensors -> Pairs]
      BY <2>1, DefaultsFit DEF Fitting
    <2>3. \A k \in Settings!Numbers :
            \/ saves'[k] = saves[k]
            \/ saves'[k] = Settings!Free
            \/ /\ saves[k] \in Requests
               /\ \E phase \in {"abandoned", "refused", "broken"} :
                    saves'[k] = [saves[k] EXCEPT !.phase = phase]
      BY <1>1, <2>1, RequestTypes DEF Settings!Abandoned, InFlight
    <2>4. saves' = [n \in Settings!Numbers |-> saves'[n]]
      BY <2>1
    <2> QED
      BY <1>1, <2>1, <2>2, <2>3, <2>4, RequestsEnd DEF SettingsTypes, Stored
  <1>12. CASE Settings!Crash
    <2>1. /\ saves' = [n \in Settings!Numbers |->
                         CASE saves[n].phase = "sent" -> [saves[n] EXCEPT !.phase = "broken"]
                           [] saves[n].phase = "abandoned" -> Settings!Free
                           [] OTHER -> saves[n]]
          /\ memory' = Settings!Defaults /\ serving' = FALSE
          /\ UNCHANGED <<drafts, load, settled, file>>
      BY <1>12 DEF Settings!Crash, Settings!pageVars
    <2>2. \A k \in Settings!Numbers :
            \/ saves'[k] = saves[k]
            \/ saves'[k] = Settings!Free
            \/ /\ saves[k] \in Requests
               /\ \E phase \in {"abandoned", "refused", "broken"} :
                    saves'[k] = [saves[k] EXCEPT !.phase = phase]
      BY <1>1, <2>1, RequestTypes DEF InFlight
    <2>3. saves' = [n \in Settings!Numbers |-> saves'[n]]
      BY <2>1
    <2> QED
      BY <1>1, <2>1, <2>2, <2>3, DefaultsFit, RequestsEnd DEF SettingsTypes, Stored
  <1>13. CASE Settings!Restart
    <2>1. /\ memory' = IF file = Settings!NoFile THEN Settings!Defaults ELSE file
          /\ ~serving /\ UNCHANGED <<drafts, load, saves, settled, file>>
      BY <1>13 DEF Settings!Restart, Settings!pageVars
    <2>2. saves' = [n \in Settings!Numbers |-> saves'[n]]
      BY <1>1, <2>1 DEF SettingsTypes
    <2>3. memory' \in [Sensors -> Fitting]
      BY <1>1, <2>1, DefaultsFit DEF SettingsTypes
    <2>4. \A s \in Sensors, v \in Pairs : Stored(s, v) => Stored(s, v)'
      BY <2>1 DEF Stored
    <2> QED
      BY <1>1, <2>1, <2>2, <2>3, <2>4, RequestsEnd DEF SettingsTypes
  <1> QED
    BY <1>3, <1>4, <1>5, <1>6, <1>7, <1>8, <1>9, <1>10, <1>11, <1>12, <1>13
       DEF Settings!SettingsNext

\* What the page holds settled is stored, whatever request is still to end
\* (useSensorSettings.ts, sensor_settings.py): the invariant the next two theorems rest on.
THEOREM SettingsInvariant == DashboardSpec => []SettingsInv
  <1>1. DashboardInit => SettingsInv
    BY SettingsInitIsTrue DEF DashboardInit, SettingsInv
  <1>2. SettingsInv /\ [DashboardNext]_dashboardVars => SettingsInv'
    <2> SUFFICES ASSUME SettingsInv, [DashboardNext]_dashboardVars, part' = "settings"
                 PROVE  SettingsAreTrue'
      BY DEF SettingsInv
    <2>1. CASE DashboardNext
      <3>1. part = "settings" /\ Settings!SettingsNext
        BY <2>1 DEF DashboardNext, OthersUnchanged
      <3> QED
        BY <3>1, SettingsStep DEF SettingsInv
    <2>2. CASE UNCHANGED dashboardVars
      <3>1. part = "settings" /\ UNCHANGED settingsVars
        BY <2>2 DEF dashboardVars
      <3>2. SettingsAreTrue
        BY <3>1 DEF SettingsInv
      <3> QED
        BY <3>1, <3>2
           DEF settingsVars, SettingsAreTrue, SettingsTypes, AloneIsAlone, SavedIsStored,
               SettledStays, Stored, InFlight
    <2> QED
      BY <2>1, <2>2
  <1> QED
    BY <1>1, <1>2, PTL DEF DashboardSpec

\* What the page was told is saved is in the file, through refused writes, crashes and
\* restarts, until the page saves that sensor again; and no file holds an alert
\* distance beyond the visual range (useSensorSettings.ts, sensor_settings.py).
THEOREM SettledIsKept == DashboardSpec => []SettledIsStored
  <1>1. ASSUME SettingsAreTrue
        PROVE  Settings!SettledIsStored
    <2>1. \A s \in Sensors : settled[s] # Settings!Unknown
             => file # Settings!NoFile /\ file[s] = settled[s]
      BY <1>1 DEF SettingsAreTrue, SettledStays, Stored
    <2>2. \A s \in Sensors : file # Settings!NoFile => Settings!Fits(file[s])
      BY <1>1 DEF SettingsAreTrue, SettingsTypes, Fitting
    <2> QED
      BY <2>1, <2>2 DEF Settings!SettledIsStored
  <1>2. SettingsInv => SettledIsStored
    BY <1>1 DEF SettingsInv, SettledIsStored
  <1> QED
    BY <1>2, SettingsInvariant, PTL

\* The answer to a save is taken for the sensor it is about and for no other, and shows
\* what the file then holds; besides, an edit changes the draft of one sensor
\* (useSensorSettings.ts saveSensor, sensor_settings.py update).
THEOREM OneDraftChanges == DashboardSpec => OnlyItsDraft
  <1>1. ASSUME SettingsAreTrue, Settings!SettingsNext, load' = load, link' # "LOADING",
               NEW s \in Sensors, drafts'[s] # drafts[s]
        PROVE  Settings!EditedAlone(s) \/ \E n \in Settings!Numbers : Settings!AnsweredFor(s, n)
    <2>1. drafts \in [Sensors -> Pairs]
      BY <1>1 DEF SettingsAreTrue, SettingsTypes
    <2>2. CASE Settings!Edit
      <3>1. PICK r \in Sensors : \E v \in Settings!Settings : drafts' = [drafts EXCEPT ![r] = v]
        BY <2>2 DEF Settings!Edit
      <3>2. r = s
        BY <1>1, <2>1, <3>1
      <3>3. \A q \in Sensors \ {s} : drafts'[q] = drafts[q]
        BY <2>1, <3>1, <3>2
      <3>4. UNCHANGED <<link, saves>>
        BY <2>2 DEF Settings!Edit
      <3> QED
        BY <3>3, <3>4 DEF Settings!EditedAlone
    <2>3. CASE Settings!SavedArrives
      <3>1. PICK n \in Settings!Numbers :
              /\ saves[n].phase = "saved"
              /\ drafts' = [drafts EXCEPT ![saves[n].sensor] = saves[n].setting]
              /\ saves' = [saves EXCEPT ![n] = Settings!Free]
        BY <2>3 DEF Settings!SavedArrives
      <3>2. saves[n].sensor = s
        BY <1>1, <2>1, <3>1
      <3>3. drafts'[s] = saves[n].setting
        BY <2>1, <3>1, <3>2
      <3>4. saves'[n] = Settings!Free
        BY <1>1, <3>1 DEF SettingsAreTrue, SettingsTypes
      <3>5. saves[n].alone => file[s] = saves[n].setting
        BY <1>1, <3>1, <3>2 DEF SettingsAreTrue, SavedIsStored, Stored
      <3> QED
        BY <3>1, <3>2, <3>3, <3>4, <3>5 DEF Settings!AnsweredFor
    <2>4. drafts' # drafts
      BY <1>1
    <2>5. ~Settings!LoadArrives /\ ~Settings!Remount
      BY <1>1 DEF Settings!LoadArrives, Settings!Remount, Settings!NoLoad
    <2> QED
      BY <1>1, <2>2, <2>3, <2>4, <2>5
         DEF Settings!SettingsNext, Settings!Save, Settings!LoadFails, Settings!SaveFails,
             Settings!AnswerLoad, Settings!Update, Settings!Crash, Settings!Restart,
             Settings!pageVars
  <1>2. SettingsInv /\ [DashboardNext]_dashboardVars
          => [part = "settings" => Settings!ChangesOnlyItsDraft]_settingsVars
    <2> SUFFICES ASSUME SettingsInv, [DashboardNext]_dashboardVars, part = "settings",
                        ~UNCHANGED settingsVars
                 PROVE  Settings!ChangesOnlyItsDraft
      OBVIOUS
    <2>1. Settings!SettingsNext
      BY DEF DashboardNext, dashboardVars
    <2>2. SettingsAreTrue
      BY DEF SettingsInv
    <2> QED
      BY <1>1, <2>1, <2>2 DEF Settings!ChangesOnlyItsDraft
  <1> QED
    BY <1>2, SettingsInvariant, PTL DEF DashboardSpec, OnlyItsDraft

-----------------------------------------------------------------------------
(* Finite sets in order, and Selection: InOrder, Picked *)

\* How many of S come before x in the order R, a set of pairs.
Rank(S, R, x) == Cardinality({y \in S : <<y, x>> \in R})

StrictOrder(S, R) ==
  /\ \A x \in S : <<x, x>> \notin R
  /\ \A x, y, z \in S : <<x, y>> \in R /\ <<y, z>> \in R => <<x, z>> \in R
  /\ \A x, y \in S : x # y => <<x, y>> \in R \/ <<y, x>> \in R

\* A finite set in strict order: the ranks are 0 .. n - 1, one for each element.
LEMMA RanksAreInOrder ==
    ASSUME NEW S, IsFiniteSet(S), NEW R, StrictOrder(S, R)
    PROVE  /\ Cardinality(S) \in Nat
           /\ \A x \in S : Rank(S, R, x) \in 0 .. Cardinality(S) - 1
           /\ \A x, y \in S : <<x, y>> \in R <=> Rank(S, R, x) < Rank(S, R, y)
           /\ \A x, y \in S : Rank(S, R, x) = Rank(S, R, y) => x = y
           /\ \A k \in 0 .. Cardinality(S) - 1 : \E x \in S : Rank(S, R, x) = k
  <1> DEFINE n == Cardinality(S)
             before(x) == {y \in S : <<y, x>> \in R}
             rank(x) == Cardinality(before(x))
  <1>1. n \in Nat
    BY FS_CardinalityType
  <1>2. ASSUME NEW x \in S
        PROVE  IsFiniteSet(before(x)) /\ rank(x) \in 0 .. n - 1
    <2> DEFINE others == S \ {x}
    <2>1. IsFiniteSet(others) /\ Cardinality(others) = n - 1
      BY FS_RemoveElement
    <2>2. before(x) \in SUBSET others
      BY DEF StrictOrder
    <2>3. IsFiniteSet(before(x)) /\ rank(x) <= n - 1
      <3> HIDE DEF others, before, n
      <3> QED
        BY <2>1, <2>2, FS_Subset
    <2>4. rank(x) \in Nat
      BY <2>3, FS_CardinalityType
    <2> HIDE DEF rank, before, n
    <2> QED
      BY <1>1, <2>3, <2>4
  <1>3. ASSUME NEW x \in S, NEW y \in S, <<x, y>> \in R
        PROVE  rank(x) < rank(y)
    <2>1. before(x) \in SUBSET before(y)
      BY <1>3 DEF StrictOrder
    <2>2. before(x) # before(y)
      <3>1. x \in before(y) /\ x \notin before(x)
        BY <1>3 DEF StrictOrder
      <3> QED
        BY <3>1
    <2>3. rank(x) <= rank(y) /\ rank(x) # rank(y)
      BY <1>2, <2>1, <2>2, FS_Subset
    <2>4. rank(x) \in Nat /\ rank(y) \in Nat
      BY <1>2
    <2> HIDE DEF rank
    <2> QED
      BY <2>3, <2>4
  <1> HIDE DEF rank, before, n
  <1>4. ASSUME NEW x \in S, NEW y \in S, x # y
        PROVE  rank(x) # rank(y)
    <2>1. rank(x) < rank(y) \/ rank(y) < rank(x)
      BY <1>3, <1>4 DEF StrictOrder
    <2>2. rank(x) \in Int /\ rank(y) \in Int
      BY <1>1, <1>2
    <2> QED
      BY <2>1, <2>2
  <1>5. ASSUME NEW x \in S, NEW y \in S, rank(x) < rank(y)
        PROVE  <<x, y>> \in R
    <2>1. rank(x) \in Int /\ rank(y) \in Int
      BY <1>1, <1>2
    <2>2. x # y /\ ~(rank(y) < rank(x))
      BY <1>5, <2>1
    <2> QED
      BY <1>3, <2>2 DEF StrictOrder
  <1>6. ASSUME NEW k \in 0 .. n - 1
        PROVE  \E x \in S : rank(x) = k
    <2> DEFINE f == [x \in S |-> rank(x)]
               T == 0 .. n - 1
    <2>1. f \in Injection(S, T)
      <3>1. f \in [S -> T]
        BY <1>2
      <3>2. \A x, y \in S : f[x] = f[y] => x = y
        BY <1>4
      <3> QED
        BY <3>1, <3>2, Fun_IsInj
    <2>2. IsFiniteSet(T) /\ Cardinality(T) = n
      BY <1>1, FS_Interval
    <2>3. f \in Surjection(S, T)
      BY <2>1, <2>2, FS_Injection DEF n
    <2>4. \A t \in T : \E x \in S : f[x] = t
      BY <2>3 DEF Surjection
    <2> QED
      BY <2>4
  <1>7. \A x \in S : rank(x) = Rank(S, R, x)
    BY DEF rank, before, Rank
  <1> QED
    BY <1>1, <1>2, <1>3, <1>4, <1>5, <1>6, <1>7 DEF n

\* The smallest of a set of numbers; the numbers up to one of them are finitely many.
LEMMA LeastNumber ==
    ASSUME NEW S \in SUBSET Nat, S # {}
    PROVE  \E n \in S : \A m \in S : n <= m
  <1>1. PICK top \in S : TRUE
    OBVIOUS
  <1> DEFINE T == {m \in S : m <= top}
             R == {r \in Nat \X Nat : r[1] < r[2]}
  <1>2. IsFiniteSet(T) /\ T # {}
    BY <1>1, FS_BoundedSetOfNaturals
  <1>3. \A x, y \in T : <<x, y>> \in R <=> x < y
    OBVIOUS
  <1>4. StrictOrder(T, R)
    BY <1>3 DEF StrictOrder
  <1> HIDE DEF R
  <1>5. Cardinality(T) \in Nat /\ Cardinality(T) # 0
    BY <1>2, FS_EmptySet, FS_CardinalityType
  <1>6. PICK n \in T : Rank(T, R, n) = 0
    <2>1. 0 \in 0 .. Cardinality(T) - 1
      BY <1>5
    <2> HIDE DEF T
    <2> QED
      BY <1>2, <1>4, <2>1, RanksAreInOrder
  <1>7. ASSUME NEW m \in T
        PROVE  ~(m < n)
    <2>1. Rank(T, R, m) \in 0 .. Cardinality(T) - 1
          /\ (<<m, n>> \in R => Rank(T, R, m) < Rank(T, R, n))
      <3> HIDE DEF T
      <3> QED
        BY <1>2, <1>4, RanksAreInOrder, Zenon
    <2> HIDE DEF T
    <2>2. <<m, n>> \notin R
      BY <1>5, <1>6, <2>1
    <2> QED
      BY <1>3, <2>2
  <1> QED
    BY <1>1, <1>7

\* Selection!InOrder's place and position.
Place(keep, key)    == [i \in keep |-> Cardinality({k \in keep : key[k] <= key[i]})]
Position(keep, key) ==
  [j \in 1 .. Cardinality(keep) |-> CHOOSE i \in keep : Place(keep, key)[i] = j]

Distinct(keep, key) ==
  /\ \A i \in keep : key[i] \in Nat
  /\ \A i, k \in keep : key[i] = key[k] => i = k

\* The positions of an InOrder: those kept, each once, by their keys.
LEMMA PositionsInOrder ==
    ASSUME NEW keep, IsFiniteSet(keep), NEW key, Distinct(keep, key)
    PROVE  LET n   == Cardinality(keep)
               pos == Position(keep, key)
           IN  /\ n \in Nat
               /\ pos \in [1 .. n -> keep]
               /\ \A j, l \in 1 .. n : j < l => key[pos[j]] < key[pos[l]]
               /\ \A i \in keep : \E j \in 1 .. n : pos[j] = i
  <1> DEFINE n == Cardinality(keep)
             place == Place(keep, key)
             pos == Position(keep, key)
             R == {r \in keep \X keep : key[r[1]] < key[r[2]]}
  <1>1. \A i, k \in keep : <<i, k>> \in R <=> key[i] < key[k]
    OBVIOUS
  <1>2. StrictOrder(keep, R)
    BY <1>1 DEF StrictOrder, Distinct
  <1> HIDE DEF R
  <1>3. ASSUME NEW i \in keep
        PROVE  place[i] = Rank(keep, R, i) + 1
    <2> DEFINE below == {k \in keep : <<k, i>> \in R}
    <2>1. {k \in keep : key[k] <= key[i]} = below \cup {i}
      BY <1>1 DEF Distinct
    <2>2. IsFiniteSet(below) /\ i \notin below
      BY <1>2, FS_Subset DEF StrictOrder
    <2>3. Cardinality(below \cup {i}) = Cardinality(below) + 1
      BY <2>2, FS_AddElement
    <2> QED
      BY <2>1, <2>3 DEF Rank, Place
  <1>4. /\ n \in Nat
        /\ \A i \in keep : place[i] \in 1 .. n
        /\ \A i, k \in keep : place[i] < place[k] <=> key[i] < key[k]
        /\ \A i, k \in keep : place[i] = place[k] => i = k
        /\ \A j \in 1 .. n : \E i \in keep : place[i] = j
    <2> DEFINE rank(i) == Rank(keep, R, i)
    <2>1. /\ n \in Nat
          /\ \A i \in keep : rank(i) \in 0 .. n - 1
          /\ \A i, k \in keep : rank(i) < rank(k) <=> key[i] < key[k]
          /\ \A i, k \in keep : rank(i) = rank(k) => i = k
          /\ \A j \in 0 .. n - 1 : \E i \in keep : rank(i) = j
      BY <1>1, <1>2, RanksAreInOrder, Zenon
    <2>2. \A i \in keep : place[i] = rank(i) + 1
      BY <1>3
    <2> HIDE DEF rank, n, place
    <2>4. \A i \in keep : place[i] \in 1 .. n
      BY <2>1, <2>2
    <2>5. ASSUME NEW i \in keep, NEW k \in keep
          PROVE  /\ place[i] < place[k] <=> key[i] < key[k]
                 /\ place[i] = place[k] => i = k
      <3>1. rank(i) \in Int /\ rank(k) \in Int
        BY <2>1
      <3>2. /\ place[i] < place[k] <=> rank(i) < rank(k)
            /\ place[i] = place[k] <=> rank(i) = rank(k)
        BY <2>2, <3>1
      <3> QED
        BY <2>1, <3>2, Zenon
    <2>3. ASSUME NEW j \in 1 .. n
          PROVE  \E i \in keep : place[i] = j
      <3>1. j - 1 \in 0 .. n - 1
        BY <2>1
      <3>2. PICK i \in keep : rank(i) = j - 1
        BY <2>1, <3>1
      <3> QED
        BY <2>2, <3>2
    <2> QED
      BY <2>1, <2>3, <2>4, <2>5
  <1>4a. pos = [j \in 1 .. n |-> CHOOSE i \in keep : place[i] = j]
    BY DEF Position
  <1> HIDE DEF n, place, pos
  <1>5. \A j \in 1 .. n : pos[j] \in keep /\ place[pos[j]] = j
    BY <1>4, <1>4a
  <1>6. ASSUME NEW i \in keep
        PROVE  pos[place[i]] = i
    <2>1. place[i] \in 1 .. n
      BY <1>4
    <2>2. pos[place[i]] \in keep /\ place[pos[place[i]]] = place[i]
      BY <1>5, <2>1, Zenon
    <2> QED
      BY <1>4, <2>2, Zenon
  <1>7. ASSUME NEW j \in 1 .. n, NEW l \in 1 .. n, j < l
        PROVE  key[pos[j]] < key[pos[l]]
    <2>1. /\ pos[j] \in keep /\ place[pos[j]] = j
          /\ pos[l] \in keep /\ place[pos[l]] = l
      BY <1>5
    <2>2. place[pos[j]] < place[pos[l]]
      BY <1>7, <2>1
    <2> QED
      BY <1>4, <2>1, <2>2, Zenon
  <1>8. \A i \in keep : \E j \in 1 .. n : pos[j] = i
    BY <1>4, <1>6
  <1>9. pos \in [1 .. n -> keep]
    BY <1>5, <1>4a
  <1> QED
    BY <1>4, <1>7, <1>8, <1>9 DEF n, pos

LEMMA SameCardinalities ==
    \A S : Trips!Cardinality(S) = Cardinality(S) /\ Ranges!Cardinality(S) = Cardinality(S)
  BY DEF Trips!Cardinality, Ranges!Cardinality, Cardinality

\* What is in order: the elements kept, by their keys.
SelectedBy(result, seq, keep, key) ==
  \E pos : /\ pos \in [DOMAIN result -> keep]
           /\ \A j \in DOMAIN result : result[j] = seq[pos[j]]
           /\ \A j, l \in DOMAIN result : j < l => key[pos[j]] < key[pos[l]]
           /\ \A i \in keep : \E j \in DOMAIN result : pos[j] = i

LEMMA SelectedInOrder ==
    ASSUME NEW T, NEW seq \in Seq(T), NEW keep \in SUBSET DOMAIN seq, NEW key,
           Distinct(keep, key),
           NEW r, r = [j \in DOMAIN Position(keep, key) |-> seq[Position(keep, key)[j]]]
    PROVE  r \in Seq(T) /\ Len(r) <= Len(seq) /\ SelectedBy(r, seq, keep, key)
  <1> DEFINE n   == Cardinality(keep)
             pos == Position(keep, key)
  <1>1. IsFiniteSet(keep) /\ n <= Len(seq)
    <2> DEFINE len == Len(seq)
    <2>1. len \in Nat /\ DOMAIN seq = 1 .. len
      BY LenProperties
    <2> HIDE DEF len
    <2>2. IsFiniteSet(1 .. len) /\ Cardinality(1 .. len) = len
      BY <2>1, FS_Interval
    <2> QED
      BY <2>1, <2>2, FS_Subset DEF len
  <1>2. /\ n \in Nat
        /\ pos \in [1 .. n -> keep]
        /\ \A j, l \in 1 .. n : j < l => key[pos[j]] < key[pos[l]]
        /\ \A i \in keep : \E j \in 1 .. n : pos[j] = i
    BY <1>1, PositionsInOrder
  <1>3. r = [j \in 1 .. n |-> seq[pos[j]]]
    BY <1>2
  <1> HIDE DEF n, pos
  <1>4. \A i \in keep : seq[i] \in T
    BY ElementOfSeq, LenProperties
  <1>5. r \in [1 .. n -> T] /\ DOMAIN r = 1 .. n
    BY <1>2, <1>3, <1>4
  <1>6. r \in Seq(T) /\ Len(r) = n
    BY <1>2, <1>5, SeqDef, LenProperties
  <1>7. SelectedBy(r, seq, keep, key)
    <2>1. pos \in [DOMAIN r -> keep]
      BY <1>2, <1>5
    <2>2. \A j \in DOMAIN r : r[j] = seq[pos[j]]
      BY <1>3, <1>5
    <2>3. /\ \A j, l \in DOMAIN r : j < l => key[pos[j]] < key[pos[l]]
          /\ \A i \in keep : \E j \in DOMAIN r : pos[j] = i
      BY <1>2, <1>5
    <2> QED
      BY <2>1, <2>2, <2>3 DEF SelectedBy
  <1> QED
    BY <1>1, <1>6, <1>7

LEMMA TripsInOrder ==
    ASSUME NEW T, NEW seq \in Seq(T), NEW keep \in SUBSET DOMAIN seq, NEW key,
           Distinct(keep, key)
    PROVE  LET r == Trips!InOrder(seq, keep, key)
           IN  r \in Seq(T) /\ Len(r) <= Len(seq) /\ SelectedBy(r, seq, keep, key)
  <1> DEFINE place == [i \in keep |-> Trips!Cardinality({k \in keep : key[k] <= key[i]})]
             pos   == [j \in 1 .. Trips!Cardinality(keep) |-> CHOOSE i \in keep : place[i] = j]
             r     == Trips!InOrder(seq, keep, key)
  <1>1. r = [j \in DOMAIN pos |-> seq[pos[j]]]
    BY Zenon DEF Trips!InOrder
  <1>2. pos = Position(keep, key)
    <2>1. place = Place(keep, key) /\ Trips!Cardinality(keep) = Cardinality(keep)
      BY SameCardinalities DEF Place
    <2> HIDE DEF place
    <2> QED
      BY <2>1 DEF Position
  <1> HIDE DEF pos, r
  <1>3. r = [j \in DOMAIN Position(keep, key) |-> seq[Position(keep, key)[j]]]
    BY <1>1, <1>2
  <1> QED
    BY <1>3, SelectedInOrder DEF r

LEMMA TripsPicked ==
    ASSUME NEW T, NEW seq \in Seq(T), NEW keep \in SUBSET DOMAIN seq
    PROVE  LET r == Trips!Picked(seq, keep)
           IN  /\ r \in Seq(T) /\ Len(r) <= Len(seq)
               /\ SelectedBy(r, seq, keep, [i \in keep |-> i])
  <1> DEFINE key == [i \in keep |-> i]
  <1>1. \A i \in keep : i \in Nat
    BY LenProperties
  <1>2. Distinct(keep, key)
    BY <1>1 DEF Distinct
  <1> QED
    BY <1>2, TripsInOrder DEF Trips!Picked

-----------------------------------------------------------------------------
(* The trips of the panel: trip_logger.py, useHaulageEfficiencyData.ts, haulEfficiency.ts *)

Rising(s)  == \A i, j \in DOMAIN s : i < j => s[i].id < s[j].id
Falling(s) == \A i, j \in DOMAIN s : i < j => s[j].id < s[i].id

\* What a request may answer: newest first, each trip once.
NewestFirst == {s \in Seq(Trips!TripType) : Falling(s)}

Selections  == [mode : Trips!Modes \cup {"none"}, truck : Trucks \cup {"none"},
                limit : Limits \cup {0}]
HistoryType == [key : Selections, history : {"none", "loaded"}, trips : NewestFirst,
                loading : BOOLEAN, error : BOOLEAN]
RequestType == [phase : {"none", "sent"}] \cup [phase : {"answered"}, trips : NewestFirst]
EffectType  == [key : Selections, first : BOOLEAN, repeats : BOOLEAN, request : RequestType]

LogIsInOrder ==
  /\ log \in Seq(Trips!TripType) /\ Rising(log)
  /\ completed \in Nat /\ Len(StartupTrips) <= completed
  /\ \A i \in DOMAIN log : log[i].id <= completed

PanelIsTyped ==
  /\ trucks \in Seq(Trucks) /\ mode \in Trips!Modes
  /\ chosen \in Trucks \cup {"none"} /\ limit \in Limits
  /\ data \in HistoryType /\ effect \in EffectType /\ recordedDemo \in BOOLEAN

TripsInv == part = "trips" => LogIsInOrder /\ PanelIsTyped

LEMMA TripConstants ==
    /\ Limits \subseteq Nat /\ MaxHistory \in Nat /\ KeptPerTruck \in Nat
    /\ Limits # {} /\ IsFiniteSet(Trucks)
    /\ StartupTrips \in Seq(Trips!TripType)
    /\ \A i \in DOMAIN StartupTrips : StartupTrips[i].id = i
  <1>1. {MaxHistory, KeptPerTruck, MaxTrips, MaxChanges, MaxFailures} \cup Limits \subseteq Nat
    BY TripsAssumption, Zenon
  <1> QED
    BY <1>1, TripsAssumption

LEMMA LastTrips ==
    ASSUME NEW T, NEW s \in Seq(T), NEW n \in Nat
    PROVE  LET r == Trips!LastOf(n, s)
           IN  /\ r \in Seq(T) /\ Len(r) \in Nat
               /\ Len(r) = IF Len(s) > n THEN n ELSE Len(s)
               /\ \A i \in DOMAIN r : i + (Len(s) - Len(r)) \in DOMAIN s
                                      /\ r[i] = s[i + (Len(s) - Len(r))]
  <1> DEFINE len  == Len(s)
             from == IF len > n THEN len - n + 1 ELSE 1
             r    == Trips!LastOf(n, s)
  <1>1. r = SubSeq(s, from, len)
    BY DEF Trips!LastOf
  <1>2. len \in Nat /\ DOMAIN s = 1 .. len
    BY LenProperties
  <1>3. \A i \in 1 .. len : s[i] \in T
    BY ElementOfSeq
  <1> HIDE DEF r, len
  <1>4. from \in Int /\ from \in 1 .. len + 1
    BY <1>2
  <1>5. \A i \in from .. len : s[i] \in T
    BY <1>2, <1>3, <1>4
  <1> HIDE DEF from
  <1>6. /\ r \in Seq(T)
        /\ Len(r) = IF from <= len THEN len - from + 1 ELSE 0
        /\ \A i \in 1 .. len - from + 1 : r[i] = s[from + i - 1]
    BY <1>1, <1>2, <1>4, <1>5, SubSeqProperties
  <1>7. Len(r) \in Nat /\ DOMAIN r = 1 .. Len(r)
    BY <1>6, LenProperties
  <1>8. Len(r) = len - from + 1
    BY <1>2, <1>4, <1>6
  <1>9. Len(r) = IF len > n THEN n ELSE len
    BY <1>2, <1>8 DEF from
  <1>10. ASSUME NEW i \in DOMAIN r
         PROVE  i + (len - Len(r)) \in 1 .. len /\ r[i] = s[i + (len - Len(r))]
    <2>1. i \in 1 .. len - from + 1
      BY <1>7, <1>8
    <2>2. i + (len - Len(r)) = from + i - 1
      BY <1>2, <1>4, <1>8, <2>1
    <2>3. from + i - 1 \in 1 .. len
      BY <1>2, <1>4, <2>1
    <2> QED
      BY <1>6, <2>1, <2>2, <2>3
  <1> QED
    BY <1>2, <1>6, <1>7, <1>9, <1>10 DEF r, len

LEMMA LastTripsRise ==
    ASSUME NEW s \in Seq(Trips!TripType), Rising(s), NEW n \in Nat
    PROVE  Rising(Trips!LastOf(n, s))
  <1> DEFINE r == Trips!LastOf(n, s)
             d == Len(s) - Len(r)
  <1>1. /\ r \in Seq(Trips!TripType) /\ d \in Int
        /\ \A i \in DOMAIN r : i + d \in DOMAIN s /\ r[i] = s[i + d]
    BY LastTrips, LenProperties
  <1>2. DOMAIN r \subseteq Int
    BY <1>1, LenProperties
  <1> HIDE DEF r, d
  <1>3. ASSUME NEW i \in DOMAIN r, NEW j \in DOMAIN r, i < j
        PROVE  r[i].id < r[j].id
    <2>1. i + d < j + d
      BY <1>1, <1>2, <1>3
    <2> QED
      BY <1>1, <2>1 DEF Rising
  <1> QED
    BY <1>3 DEF Rising, r

LEMMA ReversedFall ==
    ASSUME NEW s \in Seq(Trips!TripType), Rising(s)
    PROVE  Trips!Reverse(s) \in NewestFirst
  <1> DEFINE n == Len(s)
             r == Trips!Reverse(s)
  <1>1. n \in Nat /\ DOMAIN s = 1 .. n /\ \A i \in 1 .. n : s[i] \in Trips!TripType
    BY LenProperties, ElementOfSeq
  <1>2. r = [i \in 1 .. n |-> s[(n - i) + 1]]
    BY DEF Trips!Reverse
  <1> HIDE DEF n, r
  <1>3. \A i \in 1 .. n : (n - i) + 1 \in 1 .. n
    BY <1>1
  <1>4. r \in [1 .. n -> Trips!TripType] /\ DOMAIN r = 1 .. n
    BY <1>1, <1>2, <1>3
  <1>5. ASSUME NEW i \in 1 .. n, NEW j \in 1 .. n, i < j
        PROVE  r[j].id < r[i].id
    <2>1. (n - j) + 1 < (n - i) + 1
      BY <1>1, <1>5
    <2> QED
      BY <1>1, <1>2, <1>3, <2>1 DEF Rising
  <1>6. r \in Seq(Trips!TripType)
    BY <1>1, <1>4, SeqDef
  <1> QED
    BY <1>4, <1>5, <1>6 DEF NewestFirst, Falling, r

\* A truck's own trips, in the order they had.
LEMMA OwnTrips ==
    ASSUME NEW s \in Seq(Trips!TripType), NEW truck
    PROVE  LET own == Trips!Of(truck, s)
           IN  /\ own \in Seq(Trips!TripType)
               /\ Rising(s) => Rising(own)
               /\ Falling(s) => Falling(own)
               /\ \A i \in DOMAIN own : own[i].truck = truck
               /\ \A k \in DOMAIN s : s[k].truck = truck => \E i \in DOMAIN own : own[i] = s[k]
  <1> DEFINE keep == {i \in DOMAIN s : s[i].truck = truck}
             own  == Trips!Of(truck, s)
             key  == [i \in keep |-> i]
  <1>1. own \in Seq(Trips!TripType) /\ SelectedBy(own, s, keep, key)
    BY TripsPicked DEF Trips!Of
  <1>2. PICK pos : /\ pos \in [DOMAIN own -> keep]
                   /\ \A j \in DOMAIN own : own[j] = s[pos[j]]
                   /\ \A j, l \in DOMAIN own : j < l => key[pos[j]] < key[pos[l]]
                   /\ \A i \in keep : \E j \in DOMAIN own : pos[j] = i
    BY <1>1 DEF SelectedBy
  <1> HIDE DEF own
  <1>3. \A j, l \in DOMAIN own : j < l => pos[j] < pos[l]
    BY <1>2
  <1>4. Rising(s) => Rising(own)
    BY <1>2, <1>3 DEF Rising
  <1>5. Falling(s) => Falling(own)
    BY <1>2, <1>3 DEF Falling
  <1>6. \A i \in DOMAIN own : own[i].truck = truck
    BY <1>2
  <1>7. \A k \in DOMAIN s : s[k].truck = truck => \E i \in DOMAIN own : own[i] = s[k]
    BY <1>2
  <1> QED
    BY <1>1, <1>4, <1>5, <1>6, <1>7 DEF own

\* A sequence without one of its elements.
LEMMA Removed ==
    ASSUME NEW T, NEW s \in Seq(T), NEW i \in DOMAIN s
    PROVE  LET r == Trips!RemoveAt(s, i)
           IN  /\ r \in Seq(T)
               /\ DOMAIN r = 1 .. Len(s) - 1
               /\ \A j \in DOMAIN r : r[j] = s[IF j < i THEN j ELSE j + 1]
  <1> DEFINE n == Len(s)
             a == SubSeq(s, 1, i - 1)
             b == SubSeq(s, i + 1, n)
             r == Trips!RemoveAt(s, i)
  <1>1. n \in Nat /\ DOMAIN s = 1 .. n /\ i \in 1 .. n /\ \A k \in 1 .. n : s[k] \in T
    BY LenProperties, ElementOfSeq
  <1>2. r = a \o b
    BY DEF Trips!RemoveAt
  <1> HIDE DEF n, r
  <1>3. /\ a \in Seq(T) /\ Len(a) = i - 1
        /\ \A k \in 1 .. i - 1 : a[k] = s[k]
    <2>1. 1 \in Int /\ i - 1 \in Int /\ \A k \in 1 .. i - 1 : s[k] \in T
      BY <1>1
    <2>2. /\ a \in Seq(T) /\ Len(a) = IF 1 <= i - 1 THEN (i - 1) - 1 + 1 ELSE 0
          /\ \A k \in 1 .. (i - 1) - 1 + 1 : a[k] = s[1 + k - 1]
      BY <2>1, SubSeqProperties
    <2> HIDE DEF a
    <2> QED
      BY <1>1, <2>2
  <1>4. /\ b \in Seq(T) /\ Len(b) = n - i
        /\ \A k \in 1 .. n - i : b[k] = s[i + k]
    <2>1. i + 1 \in Int /\ n \in Int /\ \A k \in i + 1 .. n : s[k] \in T
      BY <1>1
    <2>2. /\ b \in Seq(T) /\ Len(b) = IF i + 1 <= n THEN n - (i + 1) + 1 ELSE 0
          /\ \A k \in 1 .. n - (i + 1) + 1 : b[k] = s[(i + 1) + k - 1]
      BY <2>1, SubSeqProperties
    <2> HIDE DEF b
    <2>3. n - (i + 1) + 1 = n - i /\ Len(b) = n - i
      BY <1>1, <2>2
    <2>4. \A k \in 1 .. n - i : b[k] = s[(i + 1) + k - 1] /\ (i + 1) + k - 1 = i + k
      BY <1>1, <2>2, <2>3
    <2> QED
      BY <2>2, <2>3, <2>4
  <1> HIDE DEF a, b
  <1>5. /\ r \in Seq(T) /\ Len(r) = n - 1
        /\ \A j \in 1 .. n - 1 : r[j] = IF j <= i - 1 THEN a[j] ELSE b[j - (i - 1)]
    <2>1. (i - 1) + (n - i) = n - 1
      BY <1>1
    <2>2. /\ a \o b \in Seq(T) /\ Len(a \o b) = Len(a) + Len(b)
          /\ \A j \in 1 .. Len(a) + Len(b) :
               (a \o b)[j] = IF j <= Len(a) THEN a[j] ELSE b[j - Len(a)]
      BY <1>3, <1>4, ConcatProperties
    <2> QED
      BY <1>2, <1>3, <1>4, <2>1, <2>2
  <1>6. ASSUME NEW j \in 1 .. n - 1
        PROVE  r[j] = s[IF j < i THEN j ELSE j + 1]
    <2>1. CASE j < i
      BY <1>1, <1>3, <1>5, <2>1
    <2>2. CASE ~(j < i)
      <3>1. j - (i - 1) \in 1 .. n - i /\ i + (j - (i - 1)) = j + 1
        BY <1>1, <2>2
      <3>2. r[j] = b[j - (i - 1)]
        BY <1>1, <1>5, <2>2
      <3> QED
        BY <1>4, <2>2, <3>1, <3>2
    <2> QED
      BY <2>1, <2>2
  <1>7. DOMAIN r = 1 .. n - 1
    BY <1>5, LenProperties
  <1> QED
    BY <1>5, <1>6, <1>7 DEF n, r

LEMMA EvictedKeepsOrder ==
    ASSUME NEW s \in Seq(Trips!TripType), Rising(s), NEW c \in Nat,
           \A i \in DOMAIN s : s[i].id <= c
    PROVE  LET r == Trips!Evicted(s)
           IN  r \in Seq(Trips!TripType) /\ Rising(r) /\ \A i \in DOMAIN r : r[i].id <= c
  <1> DEFINE busy == {i \in DOMAIN s : Len(Trips!Of(s[i].truck, s)) > KeptPerTruck}
             first == IF busy = {} THEN 1 ELSE CHOOSE i \in busy : \A k \in busy : i <= k
  <1>1. Len(s) \in Nat /\ DOMAIN s = 1 .. Len(s)
    BY LenProperties
  <1>2. CASE Len(s) <= MaxHistory
    BY <1>2 DEF Trips!Evicted
  <1>3. CASE ~(Len(s) <= MaxHistory)
    <2> DEFINE r == Trips!RemoveAt(s, first)
    <2>1. Trips!Evicted(s) = r
      BY <1>3 DEF Trips!Evicted
    <2>2. first \in DOMAIN s
      <3>1. CASE busy = {}
        BY <1>1, <1>3, <3>1, TripConstants
      <3>2. CASE busy # {}
        <4>1. busy \in SUBSET Nat /\ busy \subseteq DOMAIN s
          BY <1>1
        <4> HIDE DEF busy
        <4>2. \E i \in busy : \A k \in busy : i <= k
          BY <3>2, <4>1, LeastNumber
        <4> QED
          BY <3>2, <4>1, <4>2
      <3> QED
        BY <3>1, <3>2
    <2> HIDE DEF first
    <2>3. /\ r \in Seq(Trips!TripType) /\ DOMAIN r = 1 .. Len(s) - 1
          /\ \A j \in DOMAIN r : r[j] = s[IF j < first THEN j ELSE j + 1]
      BY <2>2, Removed
    <2> HIDE DEF r
    <2> DEFINE p(j) == IF j < first THEN j ELSE j + 1
    <2>4. \A j \in DOMAIN r : p(j) \in DOMAIN s /\ r[j] = s[p(j)]
      BY <1>1, <2>2, <2>3
    <2>5. \A j, k \in DOMAIN r : j < k => p(j) < p(k)
      BY <1>1, <2>2, <2>3
    <2> HIDE DEF p
    <2>6. Rising(r)
      BY <2>4, <2>5 DEF Rising
    <2> QED
      BY <2>1, <2>3, <2>4, <2>6
  <1> QED
    BY <1>2, <1>3

LEMMA AnswersAreNewestFirst ==
    ASSUME LogIsInOrder, NEW truck, NEW n \in Nat
    PROVE  Trips!Answer(truck, n) \in NewestFirst
  <1> DEFINE own == Trips!Of(truck, log)
             r   == Trips!LastOf(n, own)
  <1>1. own \in Seq(Trips!TripType) /\ Rising(own)
    BY OwnTrips DEF LogIsInOrder
  <1> HIDE DEF own
  <1>2. r \in Seq(Trips!TripType) /\ Rising(r)
    BY <1>1, LastTrips, LastTripsRise
  <1> HIDE DEF r
  <1>3. Trips!Reverse(r) \in NewestFirst
    BY <1>2, ReversedFall
  <1> QED
    BY <1>3 DEF Trips!Answer, own, r

\* The trips the backend starts with, and starts again with on a reset.
LEMMA StartupIsInOrder ==
    LET s == Trips!LastOf(MaxHistory, StartupTrips)
    IN  /\ s \in Seq(Trips!TripType) /\ Rising(s)
        /\ \A i \in DOMAIN s : s[i].id <= Len(StartupTrips)
  <1> DEFINE s == Trips!LastOf(MaxHistory, StartupTrips)
             n == Len(StartupTrips)
  <1>1. n \in Nat /\ DOMAIN StartupTrips = 1 .. n
    BY TripConstants, LenProperties
  <1>2. \A i \in 1 .. n : StartupTrips[i].id = i
    BY <1>1, TripConstants
  <1>3. Rising(StartupTrips)
    BY <1>1, <1>2 DEF Rising
  <1>4. /\ s \in Seq(Trips!TripType)
        /\ \A i \in DOMAIN s : \E k \in 1 .. n : s[i] = StartupTrips[k]
    BY <1>1, TripConstants, LastTrips
  <1>5. Rising(s)
    BY <1>3, TripConstants, LastTripsRise
  <1> HIDE DEF s, n
  <1>6. \A i \in DOMAIN s : s[i].id <= n
    BY <1>1, <1>2, <1>4
  <1> QED
    BY <1>4, <1>5, <1>6 DEF s, n

LEMMA NewSelectionStep ==
    ASSUME PanelIsTyped, trucks' \in Seq(Trucks), mode' \in Trips!Modes,
           chosen' \in Trucks \cup {"none"}, limit' \in Limits, Trips!Rerender
    PROVE  PanelIsTyped'
  <1>1. Trips!Key' \in Selections
    <2>1. Trips!Truck' \in Trucks \cup {"none"}
      BY HeadTailProperties DEF Trips!Truck
    <2> QED
      BY <2>1 DEF Trips!Key, Selections, Trips!Modes
  <1>2. UNCHANGED <<data, recordedDemo>>
    BY DEF Trips!Rerender
  <1>3. effect' = effect \/ effect' = Trips!Stopped \/ effect' = Trips!Started(Trips!Key')
    BY DEF Trips!Rerender
  <1>4. Trips!NoKey \in Selections
    BY DEF Trips!NoKey, Selections
  <1>5. Trips!Stopped \in EffectType
    BY <1>4 DEF Trips!Stopped, EffectType, Trips!NoRequest, RequestType
  <1>6. Trips!Started(Trips!Key') \in EffectType
    BY <1>1 DEF Trips!Started, EffectType, Trips!NoRequest, RequestType, PanelIsTyped
  <1> QED
    BY <1>2, <1>3, <1>5, <1>6 DEF PanelIsTyped

LEMMA SelectionStep ==
    ASSUME PanelIsTyped, Trips!SelectTruck \/ Trips!SelectWindow \/ Trips!WorldChanges
    PROVE  PanelIsTyped'
  <1>1. CASE Trips!SelectTruck
    <2>1. chosen' \in Trucks
      BY <1>1, LenProperties DEF Trips!SelectTruck, Trips!Range, PanelIsTyped
    <2> QED
      BY <1>1, <2>1, NewSelectionStep DEF Trips!SelectTruck, PanelIsTyped
  <1>2. CASE Trips!SelectWindow
    BY <1>2, NewSelectionStep DEF Trips!SelectWindow, PanelIsTyped
  <1>3. CASE Trips!WorldChanges
    <2>1. Trips!SetToSeq(Trucks) \in Seq(Trucks)
      <3> DEFINE n == Cardinality(Trucks)
                 F == {f \in [1 .. n -> Trucks] : Trips!IsInjective(f)}
      <3>1. n \in Nat /\ ExistsBijection(1 .. n, Trucks)
        BY TripConstants, FS_CardinalityType
      <3>2. PICK g \in Bijection(1 .. n, Trucks) : TRUE
        BY <3>1 DEF ExistsBijection
      <3>3. g \in [1 .. n -> Trucks] /\ \A i, k \in 1 .. n : g[i] = g[k] => i = k
        BY <3>2 DEF Bijection, Injection, IsInjective
      <3>4. g \in F
        BY <3>3 DEF Trips!IsInjective
      <3>5. Trips!SetToSeq(Trucks) \in F
        <4>1. Trips!SetToSeq(Trucks) = CHOOSE f \in [1 .. n -> Trucks] : Trips!IsInjective(f)
          BY SameCardinalities DEF Trips!SetToSeq
        <4> HIDE DEF n
        <4> QED
          BY <3>4, <4>1
      <3> HIDE DEF n
      <3> QED
        BY <3>1, <3>5, SeqDef
    <2>2. \A t \in Trucks : <<t>> \in Seq(Trucks)
      OBVIOUS
    <2>3. trucks' \in Seq(Trucks)
      BY <1>3, <2>1, <2>2, EmptySeq DEF Trips!WorldChanges, PanelIsTyped
    <2>4. mode' \in Trips!Modes /\ UNCHANGED <<chosen, limit>> /\ Trips!Rerender
      BY <1>3 DEF Trips!WorldChanges, PanelIsTyped
    <2> QED
      BY <2>3, <2>4, NewSelectionStep DEF PanelIsTyped
  <1> QED
    BY <1>1, <1>2, <1>3

LEMMA RequestStep ==
    ASSUME LogIsInOrder, PanelIsTyped,
           Trips!Fetch \/ Trips!Reply \/ Trips!Arrives \/ Trips!LateIgnored \/ Trips!RequestFails
    PROVE  LogIsInOrder' /\ PanelIsTyped'
  <1>1. UNCHANGED <<log, completed, trucks, mode, chosen, limit, recordedDemo>>
    BY DEF Trips!Fetch, Trips!Reply, Trips!Arrives, Trips!LateIgnored, Trips!RequestFails
  <1>2. data \in HistoryType /\ effect \in EffectType
    BY DEF PanelIsTyped
  <1>3. /\ effect.key \in Selections /\ effect.first \in BOOLEAN /\ effect.repeats \in BOOLEAN
        /\ effect.request \in RequestType
    BY <1>2 DEF EffectType
  <1>4. Trips!NoRequest \in RequestType /\ [phase |-> "sent"] \in RequestType
    BY DEF Trips!NoRequest, RequestType
  <1>5. \A r \in RequestType : [effect EXCEPT !.request = r] \in EffectType
    BY <1>2 DEF EffectType
  <1>6. effect.request.phase = "answered" => effect.request.trips \in NewestFirst
    BY <1>3 DEF RequestType
  <1>7. data' \in HistoryType /\ effect' \in EffectType
    <2>1. CASE Trips!Fetch
      <3> DEFINE r == IF effect.request = Trips!NoRequest THEN [phase |-> "sent"]
                      ELSE effect.request
      <3>1. r \in RequestType
        BY <1>3, <1>4
      <3>2. effect' = [effect EXCEPT !.first = FALSE, !.request = r] /\ data' = data
        BY <2>1 DEF Trips!Fetch
      <3> HIDE DEF r
      <3> QED
        BY <1>2, <3>1, <3>2 DEF EffectType
    <2>2. CASE Trips!Reply
      <3> DEFINE trips == Trips!Answer(effect.key.truck, effect.key.limit)
      <3>1. effect.key.limit \in Nat
        <4>1. effect.key.limit \in Limits \cup {0}
          BY <1>3 DEF Selections
        <4>2. \A n \in Limits : n \in Nat
          BY TripConstants
        <4> QED
          BY <4>1, <4>2
      <3>2. trips \in NewestFirst
        BY <3>1, AnswersAreNewestFirst
      <3> HIDE DEF trips
      <3>3. [phase |-> "answered", trips |-> trips] \in RequestType
        BY <3>2 DEF RequestType
      <3>4. effect' = [effect EXCEPT !.request = [phase |-> "answered", trips |-> trips]]
            /\ data' = data
        BY <2>2 DEF Trips!Reply, trips
      <3> QED
        BY <1>2, <1>5, <3>3, <3>4
    <2>3. CASE Trips!Arrives
      <3>1. data' = Trips!Loaded(effect.key, effect.request.trips)
            /\ effect' = [effect EXCEPT !.request = Trips!NoRequest]
            /\ effect.request.trips \in NewestFirst
        BY <1>6, <2>3 DEF Trips!Arrives
      <3>2. data' \in HistoryType
        BY <1>3, <3>1 DEF Trips!Loaded, HistoryType
      <3> QED
        BY <1>4, <1>5, <3>1, <3>2
    <2>4. CASE Trips!LateIgnored
      BY <1>2, <2>4 DEF Trips!LateIgnored
    <2>5. CASE Trips!RequestFails
      <3> DEFINE d == IF data.key = effect.key THEN data ELSE Trips!Empty(effect.key)
      <3>1. d \in HistoryType
        <4>1. << >> \in NewestFirst
          BY EmptySeq DEF NewestFirst, Falling
        <4> QED
          BY <1>2, <1>3, <4>1 DEF Trips!Empty, HistoryType
      <3>2. data' = [d EXCEPT !.loading = FALSE, !.error = TRUE]
            /\ effect' = [effect EXCEPT !.request = Trips!NoRequest]
        BY <2>5 DEF Trips!RequestFails
      <3> HIDE DEF d
      <3>3. data' \in HistoryType
        BY <3>1, <3>2 DEF HistoryType
      <3> QED
        BY <1>4, <1>5, <3>2, <3>3
    <2> QED
      BY <2>1, <2>2, <2>3, <2>4, <2>5
  <1> QED
    BY <1>1, <1>7 DEF LogIsInOrder, PanelIsTyped

LEMMA LogStep ==
    ASSUME LogIsInOrder, Trips!Record \/ Trips!ResetLog
    PROVE  LogIsInOrder'
  <1>1. CASE Trips!Record
    <2>1. PICK truck \in Trucks, usable \in BOOLEAN :
            log' = Trips!Evicted(Append(log, Trips!Trip(completed', truck, usable)))
      BY <1>1 DEF Trips!Record
    <2> DEFINE t == Trips!Trip(completed', truck, usable)
               n == Len(log)
               s == Append(log, t)
    <2>2. completed' = completed + 1 /\ completed \in Nat
      BY <1>1 DEF Trips!Record, LogIsInOrder
    <2>3. t \in Trips!TripType /\ t.id = completed'
      BY <2>2 DEF Trips!Trip, Trips!TripType
    <2> HIDE DEF t
    <2>4. /\ n \in Nat /\ DOMAIN log = 1 .. n
          /\ s \in Seq(Trips!TripType) /\ DOMAIN s = 1 .. n + 1
          /\ \A i \in 1 .. n : s[i] = log[i]
          /\ s[n + 1] = t
      <3>1. log \in Seq(Trips!TripType)
        BY DEF LogIsInOrder
      <3>2. /\ s \in Seq(Trips!TripType) /\ Len(s) = n + 1
            /\ \A i \in 1 .. n : s[i] = log[i]
            /\ s[n + 1] = t
        BY <2>3, <3>1, AppendProperties
      <3> HIDE DEF s, n
      <3> QED
        BY <3>1, <3>2, LenProperties DEF n
    <2> HIDE DEF s, n
    <2>5. \A i \in 1 .. n : s[i].id <= completed /\ s[i].id \in Nat
      <3>1. \A i \in 1 .. n : s[i] \in Trips!TripType
        BY <2>4, ElementOfSeq, LenProperties
      <3> QED
        BY <2>4, <3>1 DEF LogIsInOrder, Trips!TripType
    <2>6. Rising(s)
      <3> SUFFICES ASSUME NEW i \in 1 .. n + 1, NEW j \in 1 .. n + 1, i < j
                   PROVE  s[i].id < s[j].id
        BY <2>4 DEF Rising
      <3>1. i \in 1 .. n
        BY <2>4
      <3>2. CASE j \in 1 .. n
        BY <2>4, <3>1, <3>2 DEF LogIsInOrder, Rising
      <3>3. CASE j = n + 1
        BY <2>2, <2>3, <2>4, <2>5, <3>1, <3>3
      <3> QED
        BY <2>4, <3>2, <3>3
    <2>7. \A i \in DOMAIN s : s[i].id <= completed'
      BY <2>2, <2>3, <2>4, <2>5
    <2>8. log' = Trips!Evicted(s)
      BY <2>1 DEF s, t
    <2>9. /\ log' \in Seq(Trips!TripType) /\ Rising(log')
          /\ \A i \in DOMAIN log' : log'[i].id <= completed'
      <3>1. completed' \in Nat
        BY <2>2
      <3>2. LET e == Trips!Evicted(s)
            IN  /\ e \in Seq(Trips!TripType) /\ Rising(e)
                /\ \A i \in DOMAIN e : e[i].id <= completed'
        BY <2>4, <2>6, <2>7, <3>1, EvictedKeepsOrder
      <3> QED
        BY <2>8, <3>2 DEF Rising
    <2>10. Len(StartupTrips) <= completed'
      BY <2>2, TripConstants, LenProperties DEF LogIsInOrder
    <2> QED
      BY <2>2, <2>9, <2>10 DEF LogIsInOrder, Rising
  <1>2. CASE Trips!ResetLog
    <2>1. log' = Trips!LastOf(MaxHistory, StartupTrips) /\ completed' = completed
      BY <1>2 DEF Trips!ResetLog
    <2>2. \A i \in DOMAIN log' : log'[i].id <= completed
      <3>1. /\ Len(StartupTrips) \in Nat /\ Len(StartupTrips) <= completed /\ completed \in Nat
        BY TripConstants, LenProperties DEF LogIsInOrder
      <3>2. \A i \in DOMAIN log' : log'[i].id \in Nat /\ log'[i].id <= Len(StartupTrips)
        <4>1. log' \in Seq(Trips!TripType)
              /\ \A i \in DOMAIN log' : log'[i].id <= Len(StartupTrips)
          BY <2>1, StartupIsInOrder
        <4>2. \A i \in DOMAIN log' : log'[i] \in Trips!TripType
          BY <4>1, ElementOfSeq, LenProperties
        <4> QED
          BY <4>1, <4>2 DEF Trips!TripType
      <3> QED
        BY <3>1, <3>2
    <2> QED
      BY <2>1, <2>2, StartupIsInOrder DEF LogIsInOrder, Rising
  <1> QED
    BY <1>1, <1>2

LEMMA TripsStep ==
    ASSUME LogIsInOrder, PanelIsTyped, Trips!TripsNext
    PROVE  LogIsInOrder' /\ PanelIsTyped'
  <1>1. CASE Trips!SelectTruck \/ Trips!SelectWindow \/ Trips!WorldChanges
    <2>1. UNCHANGED <<log, completed>>
      BY <1>1 DEF Trips!SelectTruck, Trips!SelectWindow, Trips!WorldChanges, Trips!Rerender
    <2> QED
      BY <1>1, <2>1, SelectionStep DEF LogIsInOrder
  <1>2. CASE Trips!Record \/ Trips!ResetLog
    <2>1. UNCHANGED <<trucks, mode, chosen, limit, data, effect, recordedDemo>>
      BY <1>2 DEF Trips!Record, Trips!ResetLog
    <2> QED
      BY <1>2, <2>1, LogStep DEF PanelIsTyped
  <1> QED
    BY <1>1, <1>2, RequestStep DEF Trips!TripsNext

LEMMA TripsInitIsTrue == ASSUME Trips!TripsInit PROVE LogIsInOrder /\ PanelIsTyped
  <1>1. LogIsInOrder
    <2>1. Len(StartupTrips) \in Nat
      BY TripConstants, LenProperties
    <2> QED
      BY <2>1, StartupIsInOrder DEF Trips!TripsInit, LogIsInOrder, Rising
  <1>2. limit \in Limits
    <2>1. \E n \in Limits : \A k \in Limits : n <= k
      BY TripConstants, LeastNumber
    <2> QED
      BY <2>1 DEF Trips!TripsInit, Trips!ShortWindow
  <1>3. trucks \in Seq(Trucks) /\ mode \in Trips!Modes /\ chosen \in Trucks \cup {"none"}
        /\ recordedDemo \in BOOLEAN
    <2>1. \A t \in Trucks : <<t>> \in Seq(Trucks)
      OBVIOUS
    <2> QED
      BY <2>1, EmptySeq DEF Trips!TripsInit, Trips!Modes
  <1>4. Trips!NoKey \in Selections
    BY DEF Trips!NoKey, Selections
  <1>5. data \in HistoryType
    <2>1. << >> \in NewestFirst
      BY EmptySeq DEF NewestFirst, Falling
    <2> QED
      BY <1>4, <2>1 DEF Trips!TripsInit, Trips!Empty, HistoryType
  <1>6. effect \in EffectType
    <2>1. Trips!Key \in Selections
      <3>1. Trips!Truck \in Trucks \cup {"none"}
        BY <1>3, HeadTailProperties DEF Trips!Truck
      <3> QED
        BY <1>2, <1>3, <3>1 DEF Trips!Key, Selections, Trips!Modes
    <2>2. Trips!NoRequest \in RequestType
      BY DEF Trips!NoRequest, RequestType
    <2>3. Trips!Stopped \in EffectType
      BY <1>4, <2>2 DEF Trips!Stopped, EffectType
    <2>4. Trips!Started(Trips!Key) \in EffectType
      BY <1>3, <2>1, <2>2 DEF Trips!Started, EffectType
    <2> QED
      BY <2>3, <2>4 DEF Trips!TripsInit
  <1> QED
    BY <1>1, <1>2, <1>3, <1>5, <1>6 DEF PanelIsTyped

(***************************************************************************)
(* The log keeps its trips in the order of their numbers through every     *)
(* recording, eviction and reset, and whatever a request or the panel      *)
(* holds is newest first with no trip twice (trip_logger.py,               *)
(* useHaulageEfficiencyData.ts).                                           *)
(***************************************************************************)
THEOREM TripsInvariant == DashboardSpec => []TripsInv
  <1>1. DashboardInit => TripsInv
    BY TripsInitIsTrue DEF DashboardInit, TripsInv
  <1>2. TripsInv /\ [DashboardNext]_dashboardVars => TripsInv'
    <2> SUFFICES ASSUME TripsInv, [DashboardNext]_dashboardVars, part' = "trips"
                 PROVE  LogIsInOrder' /\ PanelIsTyped'
      BY DEF TripsInv
    <2>1. CASE DashboardNext
      <3>1. part = "trips" /\ Trips!TripsNext
        BY <2>1 DEF DashboardNext, OthersUnchanged
      <3> QED
        BY <3>1, TripsStep DEF TripsInv
    <2>2. CASE UNCHANGED dashboardVars
      <3>1. part = "trips" /\ UNCHANGED tripVars
        BY <2>2 DEF dashboardVars
      <3> QED
        BY <3>1 DEF TripsInv, LogIsInOrder, PanelIsTyped, tripVars
    <2> QED
      BY <2>1, <2>2
  <1> QED
    BY <1>1, <1>2, PTL DEF DashboardSpec

\* selectEfficiencyTrips of an answer: what it keeps, and in which order.
LEMMA SelectedTrips ==
    ASSUME NEW records \in NewestFirst, NEW truck, NEW n \in Nat
    PROVE  LET r == Trips!SelectTrips(records, truck, n)
           IN  /\ r \in Seq(Trips!TripType) /\ Len(r) <= n /\ Rising(r)
               /\ \A i \in DOMAIN r : r[i].truck = truck /\ r[i].usable
               /\ \A k \in DOMAIN records :
                    records[k].truck = truck /\ records[k].usable
                      => \/ \E i \in DOMAIN r : r[i] = records[k]
                         \/ Len(r) = n /\ \A i \in DOMAIN r : records[k].id < r[i].id
  <1> DEFINE own  == Trips!Of(truck, records)
             kept == {i \in DOMAIN own :
                        own[i].usable /\ \A k \in 1 .. i - 1 : own[k].id # own[i].id}
             key  == [i \in kept |-> own[i].id]
             all  == Trips!InOrder(own, kept, key)
             r    == Trips!LastOf(n, all)
  <1>1. records \in Seq(Trips!TripType) /\ Falling(records)
    BY DEF NewestFirst
  <1>2. /\ own \in Seq(Trips!TripType) /\ Falling(own)
        /\ \A i \in DOMAIN own : own[i].truck = truck
        /\ \A k \in DOMAIN records :
             records[k].truck = truck => \E i \in DOMAIN own : own[i] = records[k]
    BY <1>1, OwnTrips
  <1>3. Trips!SelectTrips(records, truck, n) = r
    BY DEF Trips!SelectTrips
  <1> HIDE DEF own
  <1>4. DOMAIN own = 1 .. Len(own) /\ Len(own) \in Nat
        /\ \A i \in DOMAIN own : own[i] \in Trips!TripType
    BY <1>2, LenProperties, ElementOfSeq
  <1>5. \A i, k \in DOMAIN own : own[i].id = own[k].id => i = k
    <2> SUFFICES ASSUME NEW i \in DOMAIN own, NEW k \in DOMAIN own, own[i].id = own[k].id, i # k
                 PROVE  FALSE
      OBVIOUS
    <2>1. own[i].id \in Nat /\ own[k].id \in Nat
      BY <1>4 DEF Trips!TripType
    <2>2. i < k \/ k < i
      BY <1>4
    <2>3. own[k].id < own[i].id \/ own[i].id < own[k].id
      BY <1>2, <2>2 DEF Falling
    <2> QED
      BY <2>1, <2>3
  <1>6. kept = {i \in DOMAIN own : own[i].usable}
    BY <1>4, <1>5
  <1>7. Distinct(kept, key)
    BY <1>4, <1>5 DEF Distinct, Trips!TripType
  <1>8. all \in Seq(Trips!TripType) /\ SelectedBy(all, own, kept, key)
    BY <1>2, <1>7, TripsInOrder
  <1>9. PICK pos : /\ pos \in [DOMAIN all -> kept]
                   /\ \A j \in DOMAIN all : all[j] = own[pos[j]]
                   /\ \A j, l \in DOMAIN all : j < l => key[pos[j]] < key[pos[l]]
                   /\ \A i \in kept : \E j \in DOMAIN all : pos[j] = i
    BY <1>8 DEF SelectedBy
  <1> HIDE DEF all
  <1>10. Rising(all)
    BY <1>9 DEF Rising
  <1>11. \A j \in DOMAIN all : all[j].truck = truck /\ all[j].usable
    BY <1>2, <1>6, <1>9
  <1> DEFINE d == Len(all) - Len(r)
  <1>12. /\ r \in Seq(Trips!TripType) /\ Len(r) \in Nat
         /\ Len(r) = IF Len(all) > n THEN n ELSE Len(all)
         /\ \A i \in DOMAIN r : i + d \in DOMAIN all /\ r[i] = all[i + d]
    BY <1>8, LastTrips
  <1>13. Rising(r)
    BY <1>8, <1>10, LastTripsRise
  <1> HIDE DEF r
  <1>14. Len(all) \in Nat /\ DOMAIN all = 1 .. Len(all) /\ DOMAIN r = 1 .. Len(r)
    BY <1>8, <1>12, LenProperties
  <1>15. ASSUME NEW k \in DOMAIN records, records[k].truck = truck, records[k].usable
         PROVE  \/ \E i \in DOMAIN r : r[i] = records[k]
                \/ Len(r) = n /\ \A i \in DOMAIN r : records[k].id < r[i].id
    <2>1. PICK o \in DOMAIN own : own[o] = records[k]
      BY <1>2, <1>15
    <2>2. PICK j \in DOMAIN all : pos[j] = o
      BY <1>6, <1>9, <1>15, <2>1
    <2>3. all[j] = records[k]
      BY <1>9, <2>1, <2>2
    <2>4. CASE j > d
      <3>1. j - d \in DOMAIN r /\ (j - d) + d = j
        BY <1>12, <1>14, <2>4
      <3> QED
        BY <1>12, <2>3, <3>1
    <2>5. CASE ~(j > d)
      <3>1. PICK m \in Nat, l \in Nat :
              m = Len(all) /\ l = Len(r) /\ (l = IF m > n THEN n ELSE m) /\ d = m - l
        BY <1>12, <1>14
      <3>2. j \in 1 .. m /\ j <= m - l
        <4>1. j \in 1 .. m
          BY <1>14, <3>1
        <4>2. ~(j > m - l)
          BY <2>5, <3>1
        <4> QED
          BY <4>1, <4>2
      <3>3. Len(r) = n
        <4>1. l # m
          BY <3>2
        <4> QED
          BY <3>1, <4>1
      <3>4. \A i \in DOMAIN r : j < i + d
        <4>1. \A i \in 1 .. l : j < i + (m - l)
          BY <3>2
        <4> QED
          BY <1>14, <3>1, <4>1
      <3>5. \A i \in DOMAIN r : records[k].id < r[i].id
        <4>1. \A i \in DOMAIN r : i + d \in DOMAIN all /\ r[i] = all[i + d]
          BY <1>12 DEF d
        <4> QED
          BY <1>10, <2>3, <3>4, <4>1 DEF Rising
      <3> QED
        BY <3>3, <3>5
    <2> QED
      BY <2>4, <2>5
  <1>16. Len(r) <= n
    BY <1>12, <1>14
  <1>17. \A i \in DOMAIN r : r[i].truck = truck /\ r[i].usable
    BY <1>11, <1>12
  <1>18. r \in Seq(Trips!TripType)
    BY <1>12
  <1> HIDE DEF d
  <1> QED
    BY <1>3, <1>13, <1>15, <1>16, <1>17, <1>18

(***************************************************************************)
(* The panel shows the completed trips of the truck and the window chosen, *)
(* oldest first, each once and never more than the window, and what it     *)
(* leaves out of the answer is older than any trip shown, for logs,        *)
(* windows and fleets of any size (HaulEfficiencyPanel.tsx,                *)
(* useHaulageEfficiencyData.ts, haulEfficiency.ts 42-54).                  *)
(***************************************************************************)
THEOREM TripsShownAreSelected == DashboardSpec => []TripsAreTheSelection
  <1>1. TripsInv => TripsAreTheSelection
    <2> SUFFICES ASSUME LogIsInOrder, PanelIsTyped
                 PROVE  Trips!TripsAreTheSelection
      BY DEF TripsInv, TripsAreTheSelection
    <2>1. Trips!Shown.history = "loaded" => Trips!Shown.key = Trips!Key
      BY DEF Trips!Shown, Trips!Empty
    <2>2. Trips!Shown.trips \in NewestFirst
      <3>1. << >> \in NewestFirst
        BY EmptySeq DEF NewestFirst, Falling
      <3>2. data.trips \in NewestFirst
        BY DEF PanelIsTyped, HistoryType
      <3> QED
        BY <3>1, <3>2 DEF Trips!Shown, Trips!Empty
    <2>3. limit \in Nat
      BY TripConstants DEF PanelIsTyped
    <2> DEFINE r == Trips!Trips
               records == Trips!Shown.trips
    <2>4. r = Trips!SelectTrips(records, Trips!Truck, limit)
      BY DEF Trips!Trips
    <2> HIDE DEF r, records
    <2>5. /\ Len(r) <= limit /\ Rising(r)
          /\ \A i \in DOMAIN r : r[i].truck = Trips!Truck /\ r[i].usable
          /\ \A k \in DOMAIN records :
               records[k].truck = Trips!Truck /\ records[k].usable
                 => \/ \E i \in DOMAIN r : r[i] = records[k]
                    \/ Len(r) = limit /\ \A i \in DOMAIN r : records[k].id < r[i].id
      BY <2>2, <2>3, <2>4, SelectedTrips DEF records
    <2>6. ASSUME NEW t \in Trips!Range(records), t.truck = Trips!Truck, t.usable,
                 t \notin Trips!Range(r)
          PROVE  Len(r) = limit /\ \A i \in DOMAIN r : t.id < r[i].id
      <3>1. PICK k \in DOMAIN records : t = records[k]
        BY DEF Trips!Range
      <3>2. ~ \E i \in DOMAIN r : r[i] = records[k]
        BY <2>6, <3>1 DEF Trips!Range
      <3> QED
        BY <2>5, <2>6, <3>1, <3>2
    <2> QED
      BY <2>1, <2>5, <2>6 DEF Trips!TripsAreTheSelection, Rising, r, records
  <1> QED
    BY <1>1, TripsInvariant, PTL

-----------------------------------------------------------------------------
(* The points of the spatial view: availableSpatialPoints, spatialPoints.ts *)

PointType ==
  [sensor : Ranges!SensorSet, cell : Nat, age : Nat, old : {FALSE}]

LEMMA RangesHaveBounds ==
    /\ VisualRange \in Nat /\ MaxPoints \in Nat /\ MaxPublished \in Nat
    /\ MaxRendered \in Nat /\ PointAge \in Nat
    /\ RangeSensors \in Seq(Ranges!SensorSet)
    /\ Len(RangeSensors) \in Nat /\ Len(RangeSensors) <= MaxRendered
  <1>1. {MaxRange, AlertDistance, VisualRange, MaxPoints, MaxPublished, MaxRendered, PointAge}
          \subseteq Nat
    BY RangesAssumption, Zenon DEF Ranges!RangesAssumption
  <1>2. MaxRendered >= Len(RangeSensors) /\ RangeSensors \in Seq(Ranges!SensorSet)
    BY RangesAssumption, Zenon DEF Ranges!RangesAssumption
  <1>3. Len(RangeSensors) \in Nat
    BY <1>2, LenProperties
  <1>4. /\ VisualRange \in Nat /\ MaxPoints \in Nat /\ MaxPublished \in Nat
        /\ MaxRendered \in Nat /\ PointAge \in Nat
    BY <1>1, Zenon
  <1> QED
    BY <1>2, <1>3, <1>4

\* There are no more sensors than entries in their list.
LEMMA SensorsAreFew ==
    /\ IsFiniteSet(Ranges!SensorSet)
    /\ Cardinality(Ranges!SensorSet) \in Nat
    /\ Cardinality(Ranges!SensorSet) <= MaxRendered
  <1> DEFINE n == Len(RangeSensors)
  <1>1. n \in Nat /\ n <= MaxRendered /\ MaxRendered \in Nat
        /\ RangeSensors \in [1 .. n -> Ranges!SensorSet]
    BY RangesHaveBounds, LenProperties
  <1>2. \A s \in Ranges!SensorSet : \E i \in 1 .. n : RangeSensors[i] = s
    BY <1>1 DEF Ranges!SensorSet, Ranges!Range
  <1> HIDE DEF n
  <1>3. RangeSensors \in Surjection(1 .. n, Ranges!SensorSet)
    BY <1>1, <1>2 DEF Surjection
  <1>4. IsFiniteSet(1 .. n) /\ Cardinality(1 .. n) = n
    BY <1>1, FS_Interval
  <1>5. IsFiniteSet(Ranges!SensorSet) /\ Cardinality(Ranges!SensorSet) <= n
    BY <1>3, <1>4, FS_Surjection
  <1>6. Cardinality(Ranges!SensorSet) \in Nat
    BY <1>5, FS_CardinalityType
  <1> QED
    BY <1>1, <1>5, <1>6

LEMMA PointsHaveTypes ==
    ASSUME NEW ps \in Seq(PointType)
    PROVE  /\ Len(ps) \in Nat /\ DOMAIN ps = 1 .. Len(ps)
           /\ \A i \in DOMAIN ps : /\ ps[i] \in PointType /\ ps[i].sensor \in Ranges!SensorSet
                                   /\ ps[i].age \in Nat /\ ps[i].cell \in Nat /\ ~ps[i].old
  <1>1. Len(ps) \in Nat /\ DOMAIN ps = 1 .. Len(ps)
    BY LenProperties
  <1>2. \A i \in DOMAIN ps : ps[i] \in PointType
    BY <1>1, ElementOfSeq
  <1> QED
    BY <1>1, <1>2 DEF PointType

\* The first usable point of a cell.
LEMMA FirstOfACell ==
    ASSUME NEW ps \in Seq(PointType), NEW h, NEW i \in DOMAIN ps, Ranges!Usable(ps[i], h)
    PROVE  LET f == Ranges!FirstOf(ps, h, i)
           IN  f \in DOMAIN ps /\ f \in Nat /\ Ranges!SameCell(ps[i], ps[f])
  <1> DEFINE F == {j \in DOMAIN ps : Ranges!Usable(ps[j], h) /\ Ranges!SameCell(ps[i], ps[j])}
  <1>1. F \in SUBSET Nat /\ i \in F
    BY PointsHaveTypes DEF Ranges!SameCell
  <1>2. Ranges!FirstOf(ps, h, i) = Ranges!Min(F)
    BY DEF Ranges!FirstOf
  <1> HIDE DEF F
  <1>3. Ranges!Min(F) \in F
    BY <1>1, LeastNumber DEF Ranges!Min
  <1> QED
    BY <1>1, <1>2, <1>3 DEF F

\* A cell has one point that stands for it: the newest, and of those the last.
LEMMA CellHasAPoint ==
    ASSUME NEW ps \in Seq(PointType), NEW h, NEW i \in DOMAIN ps, Ranges!Usable(ps[i], h)
    PROVE  \E k \in Ranges!Cells(ps, h) : Ranges!SameCell(ps[i], ps[k])
  <1> DEFINE F == {j \in DOMAIN ps : Ranges!Usable(ps[j], h) /\ Ranges!SameCell(ps[i], ps[j])}
             A == {ps[j].age : j \in F}
  <1>1. A \in SUBSET Nat /\ A # {}
    BY PointsHaveTypes DEF Ranges!SameCell
  <1>2. PICK a \in A : \A b \in A : a <= b
    BY <1>1, LeastNumber
  <1> DEFINE N == {Len(ps) - j : j \in {k \in F : ps[k].age = a}}
  <1>3. N \in SUBSET Nat /\ N # {}
    <2>1. PICK j \in F : ps[j].age = a
      BY <1>2
    <2>2. Len(ps) \in Nat /\ \A k \in F : k \in 1 .. Len(ps)
      BY PointsHaveTypes
    <2>3. \A k \in F : Len(ps) - k \in Nat
      BY <2>2
    <2> QED
      BY <2>1, <2>3
  <1>4. PICK n \in N : \A m \in N : n <= m
    BY <1>3, LeastNumber
  <1>5. PICK k \in F : ps[k].age = a /\ n = Len(ps) - k
    BY <1>4
  <1>6. ASSUME NEW j \in F
        PROVE  ps[j].age > ps[k].age \/ (ps[j].age = ps[k].age /\ j <= k)
    <2>1. ps[j].age \in Nat /\ a \in Nat /\ a <= ps[j].age /\ j \in 1 .. Len(ps)
          /\ k \in 1 .. Len(ps) /\ Len(ps) \in Nat
      BY <1>1, <1>2, PointsHaveTypes
    <2>2. ps[j].age = a => n <= Len(ps) - j
      BY <1>4
    <2>3. ps[j].age = a => j <= k
      BY <1>5, <2>1, <2>2
    <2> QED
      BY <1>5, <2>1, <2>3
  <1>7. \A j \in DOMAIN ps :
          Ranges!Usable(ps[j], h) /\ Ranges!SameCell(ps[k], ps[j]) => j \in F
    BY DEF Ranges!SameCell
  <1> QED
    BY <1>6, <1>7 DEF Ranges!Cells

LEMMA OnePointOfACell ==
    ASSUME NEW ps \in Seq(PointType), NEW h,
           NEW i \in Ranges!Cells(ps, h), NEW j \in Ranges!Cells(ps, h),
           Ranges!SameCell(ps[i], ps[j])
    PROVE  i = j
  <1>1. /\ i \in 1 .. Len(ps) /\ j \in 1 .. Len(ps) /\ Len(ps) \in Nat
        /\ ps[i].age \in Nat /\ ps[j].age \in Nat
        /\ Ranges!Usable(ps[i], h) /\ Ranges!Usable(ps[j], h)
    BY PointsHaveTypes DEF Ranges!Cells
  <1>2. Ranges!SameCell(ps[j], ps[i])
    BY DEF Ranges!SameCell
  <1>3. /\ ps[j].age > ps[i].age \/ (ps[j].age = ps[i].age /\ j <= i)
        /\ ps[i].age > ps[j].age \/ (ps[i].age = ps[j].age /\ i <= j)
    BY <1>1, <1>2 DEF Ranges!Cells
  <1> QED
    BY <1>1, <1>3

\* Newest first, and of one time in the order their cells came: a strict order of the cells.
NewerPairs(ps, h) ==
  {r \in Ranges!Cells(ps, h) \X Ranges!Cells(ps, h) : Ranges!Newer(ps, h, r[1], r[2])}

LEMMA NewestFirstIsAnOrder ==
    ASSUME NEW ps \in Seq(PointType), NEW h
    PROVE  /\ StrictOrder(Ranges!Cells(ps, h), NewerPairs(ps, h))
           /\ \A i, j \in Ranges!Cells(ps, h) :
                <<i, j>> \in NewerPairs(ps, h) <=> Ranges!Newer(ps, h, i, j)
  <1> DEFINE C == Ranges!Cells(ps, h)
             R == NewerPairs(ps, h)
             first(i) == Ranges!FirstOf(ps, h, i)
  <1>1. ASSUME NEW i \in C
        PROVE  /\ i \in DOMAIN ps /\ ps[i].age \in Nat
               /\ first(i) \in Nat /\ first(i) \in DOMAIN ps
               /\ Ranges!SameCell(ps[i], ps[first(i)])
    <2>1. i \in DOMAIN ps /\ Ranges!Usable(ps[i], h)
      BY DEF Ranges!Cells
    <2> QED
      BY <2>1, PointsHaveTypes, FirstOfACell
  <1>2. ASSUME NEW i \in C, NEW j \in C, first(i) = first(j)
        PROVE  i = j
    <2>1. Ranges!SameCell(ps[i], ps[j])
      BY <1>1, <1>2 DEF Ranges!SameCell
    <2> QED
      BY <2>1, OnePointOfACell
  <1>3. \A i, j \in C : <<i, j>> \in R
          <=> ps[i].age < ps[j].age \/ (ps[i].age = ps[j].age /\ first(i) < first(j))
    BY DEF NewerPairs, Ranges!Newer
  <1>4. \A i, j \in C : <<i, j>> \in R <=> Ranges!Newer(ps, h, i, j)
    BY DEF NewerPairs
  <1> HIDE DEF R, C, first
  <1>5. \A i \in C : <<i, i>> \notin R
    BY <1>1, <1>3
  <1>6. ASSUME NEW i \in C, NEW j \in C, NEW k \in C, <<i, j>> \in R, <<j, k>> \in R
        PROVE  <<i, k>> \in R
    <2>1. /\ ps[i].age \in Nat /\ ps[j].age \in Nat /\ ps[k].age \in Nat
          /\ first(i) \in Nat /\ first(j) \in Nat /\ first(k) \in Nat
      BY <1>1
    <2>2. ps[i].age < ps[j].age \/ (ps[i].age = ps[j].age /\ first(i) < first(j))
      BY <1>3, <1>6
    <2>3. ps[j].age < ps[k].age \/ (ps[j].age = ps[k].age /\ first(j) < first(k))
      BY <1>3, <1>6
    <2>4. ps[i].age < ps[k].age \/ (ps[i].age = ps[k].age /\ first(i) < first(k))
      BY <2>1, <2>2, <2>3
    <2> QED
      BY <1>3, <2>4
  <1>7. ASSUME NEW i \in C, NEW j \in C, i # j
        PROVE  <<i, j>> \in R \/ <<j, i>> \in R
    <2>1. /\ ps[i].age \in Nat /\ ps[j].age \in Nat
          /\ first(i) \in Nat /\ first(j) \in Nat /\ first(i) # first(j)
      BY <1>1, <1>2, <1>7
    <2>2. \/ ps[i].age < ps[j].age \/ (ps[i].age = ps[j].age /\ first(i) < first(j))
          \/ ps[j].age < ps[i].age \/ (ps[j].age = ps[i].age /\ first(j) < first(i))
      BY <2>1
    <2> QED
      BY <1>3, <2>2
  <1>8. StrictOrder(C, R)
    BY <1>5, <1>6, <1>7 DEF StrictOrder
  <1> QED
    BY <1>4, <1>8 DEF C, R

LEMMA CellsAreFinite ==
    ASSUME NEW ps \in Seq(PointType), NEW h
    PROVE  IsFiniteSet(Ranges!Cells(ps, h)) /\ Ranges!Cells(ps, h) \subseteq DOMAIN ps
  <1>1. IsFiniteSet(1 .. Len(ps)) /\ DOMAIN ps = 1 .. Len(ps)
    BY PointsHaveTypes, FS_Interval
  <1>2. Ranges!Cells(ps, h) \in SUBSET DOMAIN ps
    BY DEF Ranges!Cells
  <1> QED
    BY <1>1, <1>2, FS_Subset

\* A cell's turn in the bucket of its sensor, and the first of that bucket.
LEMMA TurnsAreInOrder ==
    ASSUME NEW ps \in Seq(PointType), NEW h
    PROVE  LET C       == Ranges!Cells(ps, h)
               turn(i) == Ranges!Turn(ps, h, i)
               head(i) == Ranges!Bucket(ps, h, i)
           IN  /\ \A i \in C : turn(i) \in Nat
               /\ \A i, j \in C : ps[i].sensor = ps[j].sensor /\ turn(i) = turn(j) => i = j
               /\ \A i \in C : /\ head(i) \in C /\ ps[head(i)].sensor = ps[i].sensor
                               /\ turn(head(i)) = 0
  <1> DEFINE C == Ranges!Cells(ps, h)
             R == NewerPairs(ps, h)
             turn(i) == Ranges!Turn(ps, h, i)
             head(i) == Ranges!Bucket(ps, h, i)
             own(i) == {j \in C : ps[j].sensor = ps[i].sensor}
  <1>1. IsFiniteSet(C) /\ StrictOrder(C, R)
        /\ \A i, j \in C : <<i, j>> \in R <=> Ranges!Newer(ps, h, i, j)
    BY CellsAreFinite, NewestFirstIsAnOrder
  <1>2. ASSUME NEW i \in C, NEW j \in own(i)
        PROVE  turn(j) = Rank(own(i), R, j)
    <2>1. {k \in C : ps[k].sensor = ps[j].sensor /\ Ranges!Newer(ps, h, k, j)}
            = {k \in own(i) : <<k, j>> \in R}
      BY <1>1
    <2> QED
      BY <2>1, SameCardinalities DEF Ranges!Turn, Rank
  <1> HIDE DEF R
  <1>3. ASSUME NEW i \in C
        PROVE  IsFiniteSet(own(i)) /\ StrictOrder(own(i), R) /\ i \in own(i)
    <2>1. own(i) \in SUBSET C
      OBVIOUS
    <2>2. IsFiniteSet(own(i))
      BY <1>1, <2>1, FS_Subset
    <2> QED
      BY <1>1, <2>2 DEF StrictOrder
  <1>4. ASSUME NEW i \in C
        PROVE  /\ Cardinality(own(i)) \in Nat
               /\ \A j \in own(i) : Rank(own(i), R, j) \in 0 .. Cardinality(own(i)) - 1
               /\ \A j, k \in own(i) : Rank(own(i), R, j) = Rank(own(i), R, k) => j = k
               /\ \A n \in 0 .. Cardinality(own(i)) - 1 : \E j \in own(i) : Rank(own(i), R, j) = n
    <2>1. IsFiniteSet(own(i)) /\ StrictOrder(own(i), R)
      BY <1>3
    <2> HIDE DEF own
    <2>2. PICK S : S = own(i)
      OBVIOUS
    <2>3. IsFiniteSet(S) /\ StrictOrder(S, R)
      BY <2>1, <2>2
    <2>4. /\ Cardinality(S) \in Nat
          /\ \A j \in S : Rank(S, R, j) \in 0 .. Cardinality(S) - 1
          /\ \A j, k \in S : Rank(S, R, j) = Rank(S, R, k) => j = k
          /\ \A n \in 0 .. Cardinality(S) - 1 : \E j \in S : Rank(S, R, j) = n
      BY <2>3, RanksAreInOrder
    <2> QED
      BY <2>2, <2>4
  <1>5. ASSUME NEW i \in C
        PROVE  turn(i) \in Nat
    <2>1. i \in own(i) /\ turn(i) = Rank(own(i), R, i)
      BY <1>2
    <2> HIDE DEF own, turn, C
    <2>2. Rank(own(i), R, i) \in 0 .. Cardinality(own(i)) - 1 /\ Cardinality(own(i)) \in Nat
      BY <1>4, <2>1
    <2> QED
      BY <2>1, <2>2
  <1>6. ASSUME NEW i \in C, NEW j \in C, ps[i].sensor = ps[j].sensor, turn(i) = turn(j)
        PROVE  i = j
    <2>1. i \in own(i) /\ j \in own(i)
      BY <1>6
    <2>2. turn(i) = Rank(own(i), R, i) /\ turn(j) = Rank(own(i), R, j)
      BY <1>2, <2>1
    <2> HIDE DEF own, turn, C
    <2> QED
      BY <1>4, <1>6, <2>1, <2>2
  <1>7. ASSUME NEW i \in C
        PROVE  /\ head(i) \in C /\ ps[head(i)].sensor = ps[i].sensor
               /\ turn(head(i)) = 0
    <2>1. 0 \in 0 .. Cardinality(own(i)) - 1
      <3>1. i \in own(i)
        OBVIOUS
      <3> HIDE DEF own, C
      <3>2. Cardinality(own(i)) \in Nat
            /\ Rank(own(i), R, i) \in 0 .. Cardinality(own(i)) - 1
        BY <1>4, <3>1
      <3> QED
        BY <3>2
    <2>2. PICK j \in own(i) : Rank(own(i), R, j) = 0
      <3> HIDE DEF own, C
      <3> QED
        BY <1>4, <2>1
    <2>3. j \in C /\ ps[j].sensor = ps[i].sensor /\ turn(j) = 0
      BY <1>2, <2>2
    <2>4. head(i) = CHOOSE k \in C : ps[k].sensor = ps[i].sensor /\ turn(k) = 0
      BY DEF Ranges!Bucket
    <2> HIDE DEF C, head, turn, own
    <2> QED
      BY <2>3, <2>4
  <1> HIDE DEF turn, head
  <1>8. /\ \A i \in C : turn(i) \in Nat
        /\ \A i, j \in C : ps[i].sensor = ps[j].sensor /\ turn(i) = turn(j) => i = j
        /\ \A i \in C : /\ head(i) \in C /\ ps[head(i)].sensor = ps[i].sensor
                        /\ turn(head(i)) = 0
    BY <1>5, <1>6, <1>7
  <1> QED
    BY <1>8 DEF turn, head

\* The order in which cells are taken: a turn of every sensor before the next.
BeforePairs(ps, h) ==
  {r \in Ranges!Cells(ps, h) \X Ranges!Cells(ps, h) : Ranges!Before(ps, h, r[1], r[2])}

LEMMA TakenInAnOrder ==
    ASSUME NEW ps \in Seq(PointType), NEW h
    PROVE  /\ StrictOrder(Ranges!Cells(ps, h), BeforePairs(ps, h))
           /\ \A i, j \in Ranges!Cells(ps, h) :
                <<i, j>> \in BeforePairs(ps, h) <=> Ranges!Before(ps, h, i, j)
  <1> DEFINE C == Ranges!Cells(ps, h)
             N == NewerPairs(ps, h)
             B == BeforePairs(ps, h)
             turn(i) == Ranges!Turn(ps, h, i)
             head(i) == Ranges!Bucket(ps, h, i)
  <1>1. /\ \A i \in C : turn(i) \in Nat /\ head(i) \in C
        /\ \A i \in C : ps[head(i)].sensor = ps[i].sensor
        /\ \A i, j \in C : ps[i].sensor = ps[j].sensor /\ turn(i) = turn(j) => i = j
    BY TurnsAreInOrder
  <1>2. StrictOrder(C, N) /\ \A i, j \in C : <<i, j>> \in N <=> Ranges!Newer(ps, h, i, j)
    BY NewestFirstIsAnOrder
  <1>3. \A i, j \in C : <<i, j>> \in B <=> Ranges!Before(ps, h, i, j)
    BY DEF BeforePairs
  <1>4. \A i, j \in C : Ranges!Before(ps, h, i, j)
          <=> turn(i) < turn(j) \/ (turn(i) = turn(j) /\ Ranges!Newer(ps, h, head(i), head(j)))
    BY DEF Ranges!Before
  <1> HIDE DEF B, N, C, turn, head
  <1>5. \A i, j \in C : <<i, j>> \in B
          <=> turn(i) < turn(j) \/ (turn(i) = turn(j) /\ <<head(i), head(j)>> \in N)
    BY <1>1, <1>2, <1>3, <1>4
  <1>6. ASSUME NEW i \in C
        PROVE  <<i, i>> \notin B
    <2>1. <<head(i), head(i)>> \notin N /\ turn(i) \in Nat
      BY <1>1, <1>2 DEF StrictOrder
    <2>2. ~(turn(i) < turn(i))
      BY <2>1
    <2> QED
      BY <1>5, <2>1, <2>2
  <1>7. ASSUME NEW i \in C, NEW j \in C, NEW k \in C, <<i, j>> \in B, <<j, k>> \in B
        PROVE  <<i, k>> \in B
    <2>1. turn(i) \in Nat /\ turn(j) \in Nat /\ turn(k) \in Nat
      BY <1>1
    <2>4. (turn(i) = turn(j) \/ turn(i) < turn(j)) /\ (turn(j) = turn(k) \/ turn(j) < turn(k))
      BY <1>5, <1>7
    <2>2. CASE turn(i) = turn(j) /\ turn(j) = turn(k)
      <3>1. <<head(i), head(j)>> \in N /\ <<head(j), head(k)>> \in N
        BY <1>5, <1>7, <2>1, <2>2
      <3>2. <<head(i), head(k)>> \in N
        BY <1>1, <1>2, <3>1 DEF StrictOrder
      <3> QED
        BY <1>5, <2>2, <3>2
    <2>3. CASE turn(i) < turn(j) \/ turn(j) < turn(k)
      <3>1. turn(i) < turn(k)
        BY <2>1, <2>3, <2>4
      <3> QED
        BY <1>5, <3>1
    <2> QED
      BY <2>2, <2>3, <2>4
  <1>8. ASSUME NEW i \in C, NEW j \in C, i # j
        PROVE  <<i, j>> \in B \/ <<j, i>> \in B
    <2>1. turn(i) \in Nat /\ turn(j) \in Nat
      BY <1>1
    <2>2. CASE turn(i) = turn(j)
      <3>1. head(i) # head(j)
        BY <1>1, <1>8, <2>2
      <3>2. <<head(i), head(j)>> \in N \/ <<head(j), head(i)>> \in N
        BY <1>1, <1>2, <3>1 DEF StrictOrder
      <3> QED
        BY <1>5, <2>2, <3>2
    <2>3. CASE turn(i) # turn(j)
      <3>1. turn(i) < turn(j) \/ turn(j) < turn(i)
        BY <2>1, <2>3
      <3> QED
        BY <1>5, <3>1
    <2> QED
      BY <2>2, <2>3
  <1>9. StrictOrder(C, B)
    BY <1>6, <1>7, <1>8 DEF StrictOrder
  <1> QED
    BY <1>3, <1>9 DEF B, C

-----------------------------------------------------------------------------
(* The displays of the ranges: what they alert of *)

RangesAreTyped ==
  \A s \in Ranges!SensorSet : ranges[s] \in Nat /\ (ranges[s] # 0 => health[s] = "HEALTHY")

RangesAreTrusted == part = "ranges" => RangesAreTyped

LEMMA RangeConstants ==
    /\ AlertDistance \in Nat /\ MaxRange \in Nat
    /\ \A s \in Ranges!SensorSet : Distances[s] \subseteq 1 .. MaxRange
  <1>1. {MaxRange, AlertDistance, VisualRange, MaxPoints, MaxPublished, MaxRendered, PointAge}
          \subseteq Nat
    BY RangesAssumption, Zenon DEF Ranges!RangesAssumption
  <1>2. AlertDistance \in Nat /\ MaxRange \in Nat
    BY <1>1, Zenon
  <1> QED
    BY <1>2, RangesAssumption, Zenon DEF Ranges!RangesAssumption

\* What a sensor measures is of a healthy component, within its distances.
LEMMA SamplesAreTyped ==
    ASSUME NEW s \in Ranges!SensorSet, NEW x \in Ranges!Samples(s)
    PROVE  x[2] \in Nat /\ (x[2] # 0 => x[1] = "HEALTHY")
  <1>1. CASE x \in {<<"STALE", 0>>, <<"DEGRADED", 0>>}
    BY <1>1
  <1>2. CASE \E d \in Distances[s] \cup {0} : x = <<"HEALTHY", d>>
    <2>1. PICK d \in Distances[s] \cup {0} : x = <<"HEALTHY", d>>
      BY <1>2
    <2>2. d \in Nat
      BY RangeConstants
    <2> QED
      BY <2>1, <2>2
  <1> QED
    BY <1>1, <1>2 DEF Ranges!Samples, Ranges!Nothing

LEMMA RangesStep ==
    ASSUME RangesAreTyped, Ranges!RangesNext
    PROVE  RangesAreTyped'
  <1>1. ASSUME NEW kept, Ranges!PublishRanges(kept)
        PROVE  RangesAreTyped'
    <2>1. PICK sample \in [Ranges!SensorSet -> UNION {Ranges!Samples(s) : s \in Ranges!SensorSet}] :
            /\ \A s \in Ranges!SensorSet : sample[s] \in Ranges!Samples(s)
            /\ health' = [s \in Ranges!SensorSet |-> sample[s][1]]
            /\ ranges' = [s \in Ranges!SensorSet |-> sample[s][2]]
      BY <1>1 DEF Ranges!PublishRanges, Ranges!World
    <2> QED
      BY <2>1, SamplesAreTyped DEF RangesAreTyped
  <1>2. CASE Ranges!SamplePublished \/ Ranges!ControllerReset
    BY <1>1, <1>2 DEF Ranges!SamplePublished, Ranges!ControllerReset
  <1>3. CASE Ranges!UnavailablePublished
    <2>1. ranges' = [s \in Ranges!SensorSet |-> 0]
      BY <1>3 DEF Ranges!UnavailablePublished, Ranges!World, Ranges!Unmeasured, Ranges!Nothing
    <2> QED
      BY <2>1 DEF RangesAreTyped
  <1>4. CASE Ranges!LinkLost \/ Ranges!PreviewArrives \/ Ranges!PreviewFails
               \/ Ranges!SpatialRemounted
    <2>1. UNCHANGED <<health, ranges>>
      BY <1>4 DEF Ranges!LinkLost, Ranges!PreviewArrives, Ranges!PreviewFails,
                  Ranges!SpatialRemounted
    <2> QED
      BY <2>1 DEF RangesAreTyped
  <1> QED
    BY <1>2, <1>3, <1>4 DEF Ranges!RangesNext

\* Only a healthy component's sensor has a range (live_runtime.py, _range and _health).
THEOREM RangesInvariant == DashboardSpec => []RangesAreTrusted
  <1>1. DashboardInit => RangesAreTrusted
    BY DEF DashboardInit, RangesAreTrusted, RangesAreTyped, Ranges!RangesInit,
           Ranges!Unmeasured, Ranges!Nothing
  <1>2. RangesAreTrusted /\ [DashboardNext]_dashboardVars => RangesAreTrusted'
    <2> SUFFICES ASSUME RangesAreTrusted, [DashboardNext]_dashboardVars, part' = "ranges"
                 PROVE  RangesAreTyped'
      BY DEF RangesAreTrusted
    <2>1. CASE DashboardNext
      <3>1. part = "ranges" /\ Ranges!RangesNext
        BY <2>1 DEF DashboardNext, OthersUnchanged
      <3> QED
        BY <3>1, RangesStep DEF RangesAreTrusted
    <2>2. CASE UNCHANGED dashboardVars
      <3>1. part = "ranges" /\ UNCHANGED <<health, ranges>>
        BY <2>2 DEF dashboardVars, rangeVars
      <3> QED
        BY <3>1 DEF RangesAreTrusted, RangesAreTyped
    <2> QED
      BY <2>1, <2>2
  <1> QED
    BY <1>1, <1>2, PTL DEF DashboardSpec

\* The nearest of the ranges that are shown, when there is one.
LEMMA NearestIsLeast ==
    ASSUME NEW S \in SUBSET Nat, S # {}
    PROVE  Ranges!Min(S) \in S /\ \A n \in S : Ranges!Min(S) <= n
  BY LeastNumber DEF Ranges!Min

(***************************************************************************)
(* The three displays, each with code of its own, agree on what is near:   *)
(* the driver's banner, the card of the range field and the spatial view   *)
(* alert of the same sensors, only of healthy ones on a live connection,   *)
(* and the nearest obstacle is the banner's when there is one              *)
(* (DriverDashboard.tsx 46-60, ProximityWidget.tsx 338-360,                *)
(* SpatialDashboard.tsx 24-31).  This is a part of RangesAreEvidence.      *)
(***************************************************************************)
THEOREM DisplaysAlertAlike == DashboardSpec => [](part = "ranges" => Ranges!AlertsAgree)
  <1>1. RangesAreTrusted => (part = "ranges" => Ranges!AlertsAgree)
    <2> SUFFICES ASSUME RangesAreTyped
                 PROVE  Ranges!AlertsAgree
      BY DEF RangesAreTrusted
    <2> DEFINE A == Ranges!Available
               H == {s \in A : ranges[s] <= AlertDistance}
    <2>1. A \subseteq Ranges!SensorSet
          /\ \A s \in A : linked /\ ranges[s] # 0 /\ health[s] = "HEALTHY"
      BY DEF Ranges!Available, Ranges!Nothing, RangesAreTyped
    <2>2. \A s \in A : Ranges!Threat(s) = "ALERT" <=> ranges[s] <= AlertDistance
      BY <2>1 DEF Ranges!Threat, Ranges!Nothing
    <2>3. Ranges!Alerts(A) = H
      BY <2>2 DEF Ranges!Alerts
    <2>4. Ranges!SpatialHazards = H
      BY <2>1, <2>2 DEF Ranges!SpatialHazards
    <2>5. Ranges!BannerSensors = {s \in H : \A t \in H : ranges[s] <= ranges[t]}
      BY <2>3 DEF Ranges!BannerSensors
    <2>6. H = {s \in Ranges!SensorSet : Ranges!WidgetCards[s] = "ALERT"}
      <3>1. Ranges!WidgetTrusted = A
        BY <2>1 DEF Ranges!WidgetTrusted, Ranges!OnScreen
      <3> QED
        BY <2>1, <2>2, <3>1 DEF Ranges!WidgetCards
    <2>7. ASSUME NEW s \in Ranges!SensorSet, linked, ranges[s] \in 1 .. AlertDistance
          PROVE  s \in H
      BY <2>7, RangeConstants DEF RangesAreTyped, Ranges!Available, Ranges!OnScreen, Ranges!Nothing
    <2>8. ASSUME H # {}
          PROVE  \E s \in Ranges!BannerSensors : ranges[s] = Ranges!NearestShown
      <3> DEFINE D == {ranges[s] : s \in A}
      <3>1. D \in SUBSET Nat /\ D # {}
        BY <2>1, <2>8 DEF RangesAreTyped
      <3>2. Ranges!NearestShown = Ranges!Min(D)
        BY <2>8 DEF Ranges!NearestShown
      <3>3. PICK s \in A : ranges[s] = Ranges!Min(D)
        BY <3>1, NearestIsLeast
      <3>4. \A t \in A : ranges[s] <= ranges[t]
        BY <3>1, <3>3, NearestIsLeast
      <3>5. PICK t \in H : TRUE
        BY <2>8
      <3>6. ranges[s] \in Nat /\ ranges[t] \in Nat /\ ranges[s] <= ranges[t]
            /\ ranges[t] <= AlertDistance
        BY <2>1, <3>4, <3>5 DEF RangesAreTyped
      <3>7. s \in H
        BY <3>3, <3>6, RangeConstants
      <3> QED
        BY <2>5, <3>2, <3>3, <3>4, <3>7
    <2> HIDE DEF H, A
    <2>9. \A s \in H : linked /\ health[s] = "HEALTHY"
      BY <2>1 DEF H
    <2> QED
      BY <2>4, <2>5, <2>6, <2>7, <2>8, <2>9 DEF Ranges!AlertsAgree
  <1> QED
    BY <1>1, RangesInvariant, PTL

-----------------------------------------------------------------------------
(* What the spatial view takes of the points: spatialPoints.ts 60-92 *)

LEMMA ShownPoints ==
    ASSUME NEW ps \in Seq(PointType), NEW h
    PROVE  LET M == Ranges!AvailableSpatialPoints(ps, h, TRUE)
           IN  /\ Cardinality(M) <= MaxRendered
               /\ \A p \in M : \E i \in Ranges!Cells(ps, h) : p = ps[i]
               /\ \A i \in DOMAIN ps :
                    Ranges!Usable(ps[i], h) => \E p \in M : p.sensor = ps[i].sensor
  <1> DEFINE C == Ranges!Cells(ps, h)
             B == BeforePairs(ps, h)
             rank(i) == Rank(C, B, i)
             taken == {i \in C : rank(i) < MaxRendered}
             M == {ps[i] : i \in taken}
             S == {rank(i) : i \in taken}
  <1>1. IsFiniteSet(C) /\ StrictOrder(C, B) /\ C \subseteq DOMAIN ps
        /\ \A i, j \in C : <<i, j>> \in B <=> Ranges!Before(ps, h, i, j)
    BY CellsAreFinite, TakenInAnOrder
  <1>2. Ranges!AvailableSpatialPoints(ps, h, TRUE) = M
    <2>1. \A i \in C : {j \in C : Ranges!Before(ps, h, j, i)} = {j \in C : <<j, i>> \in B}
      BY <1>1
    <2>2. \A i \in C : Ranges!Cardinality({j \in C : Ranges!Before(ps, h, j, i)}) = rank(i)
      BY <2>1, SameCardinalities DEF Rank
    <2> HIDE DEF rank
    <2>3. {k \in C : Ranges!Cardinality({j \in C : Ranges!Before(ps, h, j, k)}) < MaxRendered}
            = taken
      BY <2>2
    <2> QED
      BY <2>3 DEF Ranges!AvailableSpatialPoints
  <1>3. /\ \A i \in C : rank(i) \in Nat
        /\ \A i, j \in C : rank(i) = rank(j) => i = j
    <2> DEFINE n == Cardinality(C)
    <2>1. /\ n \in Nat
          /\ \A i \in C : rank(i) \in 0 .. n - 1
          /\ \A i, j \in C : rank(i) = rank(j) => i = j
      <3> HIDE DEF C, B
      <3> QED
        BY <1>1, RanksAreInOrder, Zenon
    <2> HIDE DEF n, rank, C
    <2> QED
      BY <2>1
  <1> HIDE DEF rank
  <1>4. Cardinality(M) <= MaxRendered
    <2>1. IsFiniteSet(S) /\ Cardinality(S) <= MaxRendered /\ Cardinality(S) \in Nat
      <3>1. MaxRendered \in Nat
        BY RangesHaveBounds
      <3>2. IsFiniteSet(0 .. MaxRendered - 1) /\ Cardinality(0 .. MaxRendered - 1) = MaxRendered
        BY <3>1, FS_Interval
      <3>3. S \in SUBSET (0 .. MaxRendered - 1)
        BY <1>3, <3>1
      <3> HIDE DEF S
      <3>4. IsFiniteSet(S) /\ Cardinality(S) <= MaxRendered
        BY <3>2, <3>3, FS_Subset
      <3> QED
        BY <3>4, FS_CardinalityType
    <2> DEFINE f == [n \in S |-> ps[CHOOSE i \in taken : rank(i) = n]]
    <2>2. \A i \in taken : (CHOOSE k \in taken : rank(k) = rank(i)) = i
      BY <1>3
    <2>3. \A i \in taken : f[rank(i)] = ps[i]
      BY <2>2
    <2>4. f \in [S -> M]
      <3>1. \A n \in S : f[n] \in M
        BY <2>3
      <3> HIDE DEF S, M
      <3> QED
        BY <3>1
    <2>5. ASSUME NEW p \in M
          PROVE  \E n \in S : f[n] = p
      <3>1. PICK i \in taken : p = ps[i]
        OBVIOUS
      <3>2. rank(i) \in S /\ f[rank(i)] = p
        BY <2>3, <3>1
      <3> QED
        BY <3>2
    <2> HIDE DEF f, S, M
    <2>6. f \in Surjection(S, M)
      BY <2>4, <2>5 DEF Surjection
    <2>7. IsFiniteSet(M) /\ Cardinality(M) <= Cardinality(S)
      BY <2>1, <2>6, FS_Surjection
    <2>8. Cardinality(M) \in Nat /\ MaxRendered \in Nat
      BY <2>7, FS_CardinalityType, RangesHaveBounds
    <2> QED
      BY <2>1, <2>7, <2>8
  <1>5. ASSUME NEW i \in DOMAIN ps, Ranges!Usable(ps[i], h)
        PROVE  \E p \in M : p.sensor = ps[i].sensor
    <2>1. PICK c \in C : Ranges!SameCell(ps[i], ps[c])
      BY <1>5, CellHasAPoint
    <2> DEFINE b == Ranges!Bucket(ps, h, c)
               turn(k) == Ranges!Turn(ps, h, k)
               first == {k \in C : turn(k) = 0}
    <2>2. /\ b \in first /\ ps[b].sensor = ps[c].sensor
          /\ \A k \in C : turn(k) \in Nat
          /\ \A k, j \in C : ps[k].sensor = ps[j].sensor /\ turn(k) = turn(j) => k = j
      BY TurnsAreInOrder
    <2>3. ps[b].sensor = ps[i].sensor
      BY <2>1, <2>2 DEF Ranges!SameCell
    <2>4. \A k \in C : Ranges!Before(ps, h, k, b) => turn(k) = 0
      <3>1. \A k \in C : Ranges!Before(ps, h, k, b) => turn(k) < turn(b) \/ turn(k) = turn(b)
        BY DEF Ranges!Before
      <3> HIDE DEF turn, C, b
      <3> QED
        BY <2>2, <3>1
    <2> HIDE DEF b, turn
    <2>5. IsFiniteSet(first) /\ Cardinality(first) \in Nat /\ Cardinality(first) <= MaxRendered
      <3> DEFINE sensor == [k \in first |-> ps[k].sensor]
      <3>1. sensor \in [first -> Ranges!SensorSet]
        BY <1>1, PointsHaveTypes
      <3>2. \A k, j \in first : sensor[k] = sensor[j] => k = j
        BY <2>2
      <3> HIDE DEF first, sensor
      <3>3. sensor \in Injection(first, Ranges!SensorSet)
        BY <3>1, <3>2, Fun_IsInj
      <3>4. IsFiniteSet(first) /\ Cardinality(first) <= Cardinality(Ranges!SensorSet)
        BY <3>3, SensorsAreFew, FS_Injection
      <3>5. Cardinality(first) \in Nat
        BY <3>4, FS_CardinalityType
      <3> QED
        BY <3>4, <3>5, SensorsAreFew, RangesHaveBounds
    <2>6. rank(b) < MaxRendered
      <3> DEFINE before == {k \in C : <<k, b>> \in B}
      <3>1. before \in SUBSET (first \ {b})
        <4>1. <<b, b>> \notin B
          BY <1>1, <2>2 DEF StrictOrder
        <4>2. \A k \in before : turn(k) = 0
          BY <1>1, <2>2, <2>4
        <4> QED
          BY <4>1, <4>2
      <3>2. IsFiniteSet(first \ {b}) /\ Cardinality(first \ {b}) = Cardinality(first) - 1
        BY <2>2, <2>5, FS_RemoveElement
      <3>5. rank(b) = Cardinality(before)
        BY DEF rank, Rank
      <3> HIDE DEF before, first
      <3>3. Cardinality(before) <= Cardinality(first) - 1 /\ IsFiniteSet(before)
        BY <3>1, <3>2, FS_Subset
      <3>4. Cardinality(before) \in Nat
        BY <3>3, FS_CardinalityType
      <3> QED
        BY <2>5, <3>3, <3>4, <3>5, RangesHaveBounds
    <2>7. b \in taken
      BY <2>2, <2>6
    <2> QED
      BY <2>3, <2>7
  <1>6. \A p \in M : \E i \in C : p = ps[i]
    OBVIOUS
  <1> HIDE DEF M
  <1> QED
    BY <1>2, <1>4, <1>5, <1>6

-----------------------------------------------------------------------------
(* The points kept of the ranges, and the wait for a preview: live_runtime.py, *)
(* occupancy.py, PointCloudMapping.tsx *)

PointsAreFresh ==
  deque \in Seq(PointType) /\ points \in Seq(PointType) /\ linked \in BOOLEAN

WaitIsKept ==
  /\ request \in {"none", "pending", "loaded"}
  /\ spatialView \in [preview : BOOLEAN, error : BOOLEAN, listening : BOOLEAN]
  /\ Ranges!NeedsPreview => spatialView.error \/ (spatialView.listening /\ request # "none")

EvidenceInv == part = "ranges" => RangesAreTyped /\ PointsAreFresh /\ WaitIsKept

\* The last of the points, and those of them that are recent.
LEMMA LastPoints ==
    ASSUME NEW s \in Seq(PointType), NEW n \in Nat
    PROVE  Ranges!LastOf(n, s) \in Seq(PointType)
  <1>1. Ranges!LastOf(n, s) = Trips!LastOf(n, s)
    BY DEF Ranges!LastOf, Trips!LastOf
  <1> QED
    BY <1>1, LastTrips

LEMMA RangesPicked ==
    ASSUME NEW T, NEW seq \in Seq(T), NEW keep \in SUBSET DOMAIN seq
    PROVE  LET r == Ranges!Picked(seq, keep)
           IN  /\ r \in Seq(T) /\ Len(r) <= Len(seq)
               /\ SelectedBy(r, seq, keep, [i \in keep |-> i])
  <1> DEFINE key   == [i \in keep |-> i]
             place == [i \in keep |-> Ranges!Cardinality({k \in keep : key[k] <= key[i]})]
             pos   == [j \in 1 .. Ranges!Cardinality(keep) |-> CHOOSE i \in keep : place[i] = j]
             r     == Ranges!Picked(seq, keep)
  <1>1. r = [j \in DOMAIN pos |-> seq[pos[j]]]
    BY Zenon DEF Ranges!Picked, Ranges!InOrder
  <1>2. pos = Position(keep, key)
    <2>1. place = Place(keep, key) /\ Ranges!Cardinality(keep) = Cardinality(keep)
      BY SameCardinalities DEF Place
    <2> HIDE DEF place
    <2> QED
      BY <2>1 DEF Position
  <1> HIDE DEF pos, r
  <1>3. r = [j \in DOMAIN Position(keep, key) |-> seq[Position(keep, key)[j]]]
    BY <1>1, <1>2
  <1>4. \A i \in keep : i \in Nat
    BY LenProperties
  <1>5. Distinct(keep, key)
    BY <1>4 DEF Distinct
  <1> QED
    BY <1>3, <1>5, SelectedInOrder DEF r

LEMMA NewPoints ==
    ASSUME NEW r, \A s \in Ranges!SensorSet : r[s] \in Nat
    PROVE  Ranges!PointsOf(r) \in Seq(PointType)
  <1> DEFINE keep == {i \in DOMAIN RangeSensors : r[RangeSensors[i]] \in 1 .. MaxRange - 1}
             seen == Ranges!Picked(RangeSensors, keep)
             P == [i \in DOMAIN seen |-> [sensor |-> seen[i], cell |-> r[seen[i]],
                                          age |-> 0, old |-> FALSE]]
  <1>1. seen \in Seq(Ranges!SensorSet)
    BY RangesHaveBounds, RangesPicked
  <1>2. Ranges!PointsOf(r) = P
    BY DEF Ranges!PointsOf
  <1> HIDE DEF seen
  <1>3. Len(seen) \in Nat /\ DOMAIN seen = 1 .. Len(seen)
        /\ \A i \in DOMAIN seen : seen[i] \in Ranges!SensorSet
    BY <1>1, LenProperties, ElementOfSeq
  <1>4. P \in [1 .. Len(seen) -> PointType]
    BY <1>3 DEF PointType
  <1> HIDE DEF P
  <1> QED
    BY <1>2, <1>3, <1>4, SeqDef

LEMMA OlderPoints ==
    ASSUME NEW s \in Seq(PointType)
    PROVE  Ranges!Aged(s) \in Seq(PointType)
  <1>1. Len(s) \in Nat /\ DOMAIN s = 1 .. Len(s) /\ \A i \in DOMAIN s : s[i] \in PointType
    BY PointsHaveTypes
  <1>2. ASSUME NEW p \in PointType
        PROVE  [p EXCEPT !.age = IF @ > PointAge THEN @ ELSE @ + 1] \in PointType
    <2>1. \A a \in Nat : [p EXCEPT !.age = a] \in PointType
      BY DEF PointType
    <2>2. p.age \in Nat /\ p.age + 1 \in Nat
      BY DEF PointType
    <2> QED
      BY <2>1, <2>2
  <1>3. Ranges!Aged(s) \in [1 .. Len(s) -> PointType]
    BY <1>1, <1>2 DEF Ranges!Aged
  <1> QED
    BY <1>1, <1>3, SeqDef

LEMMA PublishedPoints ==
    ASSUME NEW s \in Seq(PointType)
    PROVE  Ranges!Published(s) \in Seq(PointType)
  <1>1. Ranges!Picked(s, {i \in DOMAIN s : s[i].age <= PointAge}) \in Seq(PointType)
    BY RangesPicked
  <1> QED
    BY <1>1, LastPoints, RangesHaveBounds DEF Ranges!Published

\* A render of the mounted view keeps the wait heard.
LEMMA RenderKeepsTheWait ==
    ASSUME WaitIsKept, NEW ps, NEW h, NEW live,
           Ranges!Rendered(ps, h, live), points' = ps, health' = h, linked' = live
    PROVE  WaitIsKept'
  <1> DEFINE needs == Ranges!Waits(ps, h, live, spatialView.preview)
             before == Ranges!NeedsPreview
  <1>1. /\ spatialView' = [spatialView EXCEPT !.listening = needs /\ (before => @)]
        /\ IF needs /\ ~before THEN Ranges!LoadPreview ELSE UNCHANGED request
    BY DEF Ranges!Rendered
  <1>2. spatialView'.preview = spatialView.preview /\ spatialView'.error = spatialView.error
        /\ spatialView'.listening = (needs /\ (before => spatialView.listening))
        /\ spatialView' \in [preview : BOOLEAN, error : BOOLEAN, listening : BOOLEAN]
    <2>1. needs \in BOOLEAN /\ before \in BOOLEAN
      BY DEF Ranges!Waits, Ranges!NeedsPreview
    <2> HIDE DEF needs, before
    <2> QED
      BY <1>1, <2>1 DEF WaitIsKept
  <1>3. Ranges!NeedsPreview' = needs
    BY <1>2 DEF Ranges!NeedsPreview, Ranges!Waits, Ranges!Usable
  <1> HIDE DEF needs, before
  <1>4. request' \in {"none", "pending", "loaded"}
        /\ (needs /\ ~before => request' # "none")
        /\ (before => request' = request)
    BY <1>1 DEF WaitIsKept, Ranges!LoadPreview
  <1>5. before => spatialView.error \/ (spatialView.listening /\ request # "none")
    BY DEF WaitIsKept, before
  <1> QED
    BY <1>2, <1>3, <1>4, <1>5 DEF WaitIsKept

LEMMA PublishStep ==
    ASSUME PointsAreFresh, WaitIsKept, NEW kept \in Seq(PointType), Ranges!PublishRanges(kept)
    PROVE  PointsAreFresh' /\ WaitIsKept'
  <1>1. PICK sample \in [Ranges!SensorSet -> UNION {Ranges!Samples(s) : s \in Ranges!SensorSet}] :
          /\ \A s \in Ranges!SensorSet : sample[s] \in Ranges!Samples(s)
          /\ LET r == [s \in Ranges!SensorSet |-> sample[s][2]]
                 d == Ranges!LastOf(MaxPoints, Ranges!Aged(kept) \o Ranges!PointsOf(r))
             IN  Ranges!World([s \in Ranges!SensorSet |-> sample[s][1]], r, d, Ranges!Published(d))
    BY DEF Ranges!PublishRanges
  <1> DEFINE r == [s \in Ranges!SensorSet |-> sample[s][2]]
             h == [s \in Ranges!SensorSet |-> sample[s][1]]
             d == Ranges!LastOf(MaxPoints, Ranges!Aged(kept) \o Ranges!PointsOf(r))
  <1>2. \A s \in Ranges!SensorSet : r[s] \in Nat
    BY <1>1, SamplesAreTyped
  <1>3. Ranges!World(h, r, d, Ranges!Published(d))
    BY <1>1
  <1> HIDE DEF r, h
  <1>4. Ranges!Aged(kept) \o Ranges!PointsOf(r) \in Seq(PointType)
    BY <1>2, OlderPoints, NewPoints, ConcatProperties
  <1>5. d \in Seq(PointType)
    BY <1>4, LastPoints, RangesHaveBounds
  <1> HIDE DEF d
  <1>6. Ranges!Published(d) \in Seq(PointType)
    BY <1>5, PublishedPoints
  <1>7. PointsAreFresh'
    BY <1>3, <1>5, <1>6 DEF PointsAreFresh, Ranges!World
  <1>8. WaitIsKept'
    BY <1>3, RenderKeepsTheWait DEF Ranges!World
  <1> QED
    BY <1>7, <1>8

LEMMA EvidenceStep ==
    ASSUME PointsAreFresh, WaitIsKept, Ranges!RangesNext
    PROVE  PointsAreFresh' /\ WaitIsKept'
  <1>1. << >> \in Seq(PointType)
    BY EmptySeq
  <1>2. CASE Ranges!SamplePublished
    BY <1>2, PublishStep DEF Ranges!SamplePublished, PointsAreFresh
  <1>3. CASE Ranges!ControllerReset
    BY <1>1, <1>3, PublishStep DEF Ranges!ControllerReset, Ranges!Cleared
  <1>4. CASE Ranges!UnavailablePublished
    <2>1. PICK status \in {"STALE", "OFFLINE"} :
            Ranges!World(Ranges!Together(Ranges!SensorSet, status), Ranges!Unmeasured,
                         Ranges!Cleared(Ranges!Outlived(deque)), << >>)
      BY <1>4 DEF Ranges!UnavailablePublished
    <2>2. PointsAreFresh'
      BY <1>1, <2>1 DEF Ranges!World, Ranges!Cleared, PointsAreFresh
    <2>3. WaitIsKept'
      BY <2>1, RenderKeepsTheWait DEF Ranges!World
    <2> QED
      BY <2>2, <2>3
  <1>5. CASE Ranges!LinkLost
    <2>1. PointsAreFresh'
      BY <1>5 DEF Ranges!LinkLost, PointsAreFresh
    <2>2. WaitIsKept'
      BY <1>5, RenderKeepsTheWait DEF Ranges!LinkLost
    <2> QED
      BY <2>1, <2>2
  <1>6. CASE Ranges!PreviewArrives \/ Ranges!PreviewFails \/ Ranges!SpatialRemounted
    <2>1. UNCHANGED <<health, deque, points, linked>>
      BY <1>6 DEF Ranges!PreviewArrives, Ranges!PreviewFails, Ranges!SpatialRemounted
    <2>2. PointsAreFresh'
      BY <2>1 DEF PointsAreFresh
    <2>3. Ranges!NeedsPreview' = Ranges!Waits(points, health, linked, spatialView'.preview)
      BY <2>1 DEF Ranges!NeedsPreview, Ranges!Waits, Ranges!Usable
    <2>7. /\ request \in {"none", "pending", "loaded"}
          /\ spatialView \in [preview : BOOLEAN, error : BOOLEAN, listening : BOOLEAN]
          /\ Ranges!Waits(points, health, linked, spatialView.preview)
               => spatialView.error \/ (spatialView.listening /\ request # "none")
      BY DEF WaitIsKept, Ranges!NeedsPreview
    <2>8. /\ request' \in {"none", "pending", "loaded"}
          /\ spatialView' \in [preview : BOOLEAN, error : BOOLEAN, listening : BOOLEAN]
          /\ Ranges!Waits(points, health, linked, spatialView'.preview)
               => spatialView'.error \/ (spatialView'.listening /\ request' # "none")
          => WaitIsKept'
      BY <2>3 DEF WaitIsKept
    <2> SUFFICES WaitIsKept'
      BY <2>2
    <2>4. CASE Ranges!PreviewArrives
      <3>1. CASE spatialView.listening
        <4>1. spatialView' = [preview |-> TRUE, error |-> FALSE, listening |-> FALSE]
              /\ request' = "loaded"
          BY <2>4, <3>1 DEF Ranges!PreviewArrives
        <4>2. ~Ranges!Waits(points, health, linked, spatialView'.preview)
          BY <4>1 DEF Ranges!Waits
        <4> QED
          BY <2>8, <4>1, <4>2
      <3>2. CASE ~spatialView.listening
        <4>1. spatialView' = spatialView /\ request' = "loaded"
          BY <2>4, <3>2 DEF Ranges!PreviewArrives
        <4> QED
          BY <2>7, <2>8, <3>2, <4>1
      <3> QED
        BY <3>1, <3>2
    <2>5. CASE Ranges!PreviewFails
      <3>1. request' = "none"
            /\ spatialView' = IF spatialView.listening
                              THEN [spatialView EXCEPT !.error = TRUE, !.listening = FALSE]
                              ELSE spatialView
        BY <2>5 DEF Ranges!PreviewFails
      <3>2. CASE spatialView.listening
        <4>1. /\ spatialView'.error
              /\ spatialView' \in [preview : BOOLEAN, error : BOOLEAN, listening : BOOLEAN]
          BY <2>7, <3>1, <3>2
        <4> QED
          BY <2>8, <3>1, <4>1
      <3>3. CASE ~spatialView.listening
        BY <2>7, <2>8, <3>1, <3>3
      <3> QED
        BY <3>2, <3>3
    <2>6. CASE Ranges!SpatialRemounted
      <3> DEFINE needs == Ranges!Waits(points, health, linked, FALSE)
      <3>1. /\ spatialView' = [preview |-> FALSE, error |-> FALSE, listening |-> needs]
            /\ IF needs THEN Ranges!LoadPreview ELSE UNCHANGED request
        BY <2>6 DEF Ranges!SpatialRemounted
      <3>2. needs \in BOOLEAN
        BY DEF Ranges!Waits
      <3>3. spatialView'.preview = FALSE
        BY <3>1
      <3>4. Ranges!Waits(points, health, linked, spatialView'.preview) = needs
        BY <3>3
      <3> HIDE DEF needs
      <3>5. request' \in {"none", "pending", "loaded"} /\ (needs => request' # "none")
        BY <2>7, <3>1 DEF Ranges!LoadPreview
      <3>6. /\ spatialView' \in [preview : BOOLEAN, error : BOOLEAN, listening : BOOLEAN]
            /\ spatialView'.listening = needs
        BY <3>1, <3>2
      <3> QED
        BY <2>8, <3>4, <3>5, <3>6
    <2> QED
      BY <1>6, <2>4, <2>5, <2>6
  <1> QED
    BY <1>2, <1>3, <1>4, <1>5, <1>6 DEF Ranges!RangesNext

(***************************************************************************)
(* No point outlives an interruption: what the accumulator keeps and what  *)
(* the snapshot carries was measured since the last outage or restart      *)
(* (live_runtime.py _publish_unavailable, _accept_packet); and whoever     *)
(* waits for a preview listens to a request under way, or shows that it    *)
(* failed (PointCloudMapping.tsx 30-57).                                   *)
(***************************************************************************)
THEOREM EvidenceInvariant == DashboardSpec => []EvidenceInv
  <1>1. DashboardInit => EvidenceInv
    <2> SUFFICES ASSUME Ranges!RangesInit
                 PROVE  RangesAreTyped /\ PointsAreFresh /\ WaitIsKept
      BY DEF DashboardInit, EvidenceInv
    <2>1. RangesAreTyped
      BY DEF RangesAreTyped, Ranges!RangesInit, Ranges!Unmeasured, Ranges!Nothing
    <2>2. PointsAreFresh
      BY EmptySeq DEF PointsAreFresh, Ranges!RangesInit
    <2>3. WaitIsKept
      BY DEF WaitIsKept, Ranges!RangesInit
    <2> QED
      BY <2>1, <2>2, <2>3
  <1>2. EvidenceInv /\ [DashboardNext]_dashboardVars => EvidenceInv'
    <2> SUFFICES ASSUME EvidenceInv, [DashboardNext]_dashboardVars, part' = "ranges"
                 PROVE  RangesAreTyped' /\ PointsAreFresh' /\ WaitIsKept'
      BY DEF EvidenceInv
    <2>1. CASE DashboardNext
      <3>1. part = "ranges" /\ Ranges!RangesNext
        BY <2>1 DEF DashboardNext, OthersUnchanged
      <3> QED
        BY <3>1, RangesStep, EvidenceStep DEF EvidenceInv
    <2>2. CASE UNCHANGED dashboardVars
      <3>1. part = "ranges" /\ UNCHANGED rangeVars
        BY <2>2 DEF dashboardVars
      <3>2. RangesAreTyped' /\ PointsAreFresh'
        BY <3>1 DEF EvidenceInv, RangesAreTyped, PointsAreFresh, rangeVars
      <3>3. WaitIsKept'
        BY <3>1 DEF EvidenceInv, WaitIsKept, rangeVars, Ranges!NeedsPreview, Ranges!Waits,
                    Ranges!Usable
      <3> QED
        BY <3>2, <3>3
    <2> QED
      BY <2>1, <2>2
  <1> QED
    BY <1>1, <1>2, PTL DEF DashboardSpec

LEMMA PointsShown ==
    ASSUME PointsAreFresh
    PROVE  Ranges!PointsAreEvidence
  <1> DEFINE C == Ranges!Cells(points, health)
             M == Ranges!Measured
  <1>1. M = IF linked THEN Ranges!AvailableSpatialPoints(points, health, TRUE) ELSE {}
    BY DEF Ranges!Measured, Ranges!AvailableSpatialPoints
  <1>2. points \in Seq(PointType) /\ linked \in BOOLEAN
    BY DEF PointsAreFresh
  <1>3. /\ \A p \in M : linked /\ \E i \in C : p = points[i]
        /\ linked => \A i \in DOMAIN points :
             Ranges!Usable(points[i], health) => \E p \in M : p.sensor = points[i].sensor
    <2>1. CASE linked
      <3>1. M = Ranges!AvailableSpatialPoints(points, health, TRUE)
        BY <1>1, <2>1
      <3> DEFINE A == Ranges!AvailableSpatialPoints(points, health, TRUE)
      <3>2. /\ Cardinality(A) <= MaxRendered
            /\ \A p \in A : \E i \in C : p = points[i]
            /\ \A i \in DOMAIN points :
                 Ranges!Usable(points[i], health) => \E p \in A : p.sensor = points[i].sensor
        BY <1>2, ShownPoints, Zenon
      <3> HIDE DEF M, A
      <3>3. M = A
        BY <3>1 DEF A
      <3> QED
        BY <2>1, <3>2, <3>3
    <2>2. CASE ~linked
      BY <1>1, <2>2
    <2> QED
      BY <2>1, <2>2
  <1>4. Cardinality(M) <= MaxRendered
    <2>1. CASE linked
      BY <1>1, <1>2, <2>1, ShownPoints
    <2>2. CASE ~linked
      BY <1>1, <2>2, FS_EmptySet, RangesHaveBounds
    <2> QED
      BY <2>1, <2>2
  <1> HIDE DEF M
  <1>5. (Ranges!Source = "WAITING") <=> Ranges!NeedsPreview
    <2>1. M = {} <=> ~(linked /\ \E i \in DOMAIN points : Ranges!Usable(points[i], health))
      BY <1>3 DEF Ranges!Cells
    <2> QED
      BY <2>1 DEF Ranges!Source, Ranges!NeedsPreview, Ranges!Waits, M
  <1>6. \A p, q \in M : Ranges!SameCell(p, q) => p = q
    BY <1>2, <1>3, OnePointOfACell
  <1>7. ASSUME NEW p \in M
        PROVE  /\ linked /\ Ranges!OnScreen(health[p.sensor])
               /\ p.age <= PointAge /\ p.cell <= VisualRange /\ ~p.old
               /\ \A i \in DOMAIN points : Ranges!SameCell(points[i], p) => p.age <= points[i].age
    <2>1. PICK k \in C : p = points[k]
      BY <1>3
    <2>2. linked /\ k \in DOMAIN points /\ Ranges!Usable(p, health)
      BY <1>3, <2>1 DEF Ranges!Cells
    <2>3. ~p.old /\ p.age \in Nat
      BY <1>2, <2>1, <2>2, PointsHaveTypes
    <2>4. ASSUME NEW i \in DOMAIN points, Ranges!SameCell(points[i], p)
          PROVE  p.age <= points[i].age
      <3>1. points[i].age \in Nat /\ Ranges!SameCell(p, points[i])
        BY <1>2, <2>4, PointsHaveTypes DEF Ranges!SameCell
      <3>2. CASE Ranges!Usable(points[i], health)
        <4>1. points[i].age > p.age \/ points[i].age = p.age
          BY <2>1, <3>1, <3>2 DEF Ranges!Cells
        <4> QED
          BY <2>3, <3>1, <4>1
      <3>3. CASE ~Ranges!Usable(points[i], health)
        <4>1. ~(points[i].age <= PointAge) /\ p.age <= PointAge
          BY <2>2, <3>1, <3>3 DEF Ranges!Usable, Ranges!SameCell
        <4> QED
          BY <2>3, <3>1, <4>1, RangesHaveBounds
      <3> QED
        BY <3>2, <3>3
    <2> QED
      BY <2>2, <2>3, <2>4 DEF Ranges!Usable
  <1>8. \A p \in Ranges!WidgetPoints : ranges[p.sensor] # Ranges!Nothing
    BY DEF Ranges!WidgetPoints, Ranges!WidgetTrusted, Ranges!Available
  <1>9. Ranges!Cardinality(Ranges!Measured) <= MaxRendered
    BY <1>4, SameCardinalities DEF M
  <1> QED
    BY <1>3, <1>5, <1>6, <1>7, <1>8, <1>9 DEF Ranges!PointsAreEvidence, M

(***************************************************************************)
(* The displays of the ranges show what was measured, for any list of      *)
(* sensors, distances and limits: they alert alike; no sensor that has a   *)
(* point to show is without one within the budget; each cell is shown once *)
(* and by its newest point; and a view that waits for surroundings hears   *)
(* of them (ProximityWidget.tsx, spatialPoints.ts, PointCloudMapping.tsx). *)
(***************************************************************************)
THEOREM RangesShowEvidence == DashboardSpec => []RangesAreEvidence
  <1>1. EvidenceInv => (part = "ranges" => Ranges!PointsAreEvidence /\ Ranges!WaitIsHeard)
    <2> SUFFICES ASSUME PointsAreFresh, WaitIsKept
                 PROVE  Ranges!PointsAreEvidence /\ Ranges!WaitIsHeard
      BY DEF EvidenceInv
    <2>1. Ranges!PointsAreEvidence
      BY PointsShown
    <2>2. (Ranges!Source = "WAITING") => Ranges!NeedsPreview
      BY <2>1 DEF Ranges!PointsAreEvidence
    <2> QED
      BY <2>1, <2>2 DEF Ranges!WaitIsHeard, WaitIsKept
  <1>2. (part = "ranges" => Ranges!AlertsAgree)
        /\ (part = "ranges" => Ranges!PointsAreEvidence /\ Ranges!WaitIsHeard)
          => RangesAreEvidence
    BY DEF RangesAreEvidence, Ranges!RangesAreEvidence
  <1> QED
    BY <1>1, <1>2, EvidenceInvariant, DisplaysAlertAlike, PTL
==============================================================================
