----------------------------- MODULE MarkerLayers -----------------------------
(***************************************************************************)
(* The markers of a Leaflet map, which an effect reconciles with the       *)
(* vehicles of each render (CampusMinimap.tsx, CampusExtendedMapModal.tsx, *)
(* TwinMap.tsx).  The component holds the markers it has made in a Map of  *)
(* its own, refs, by vehicle; the map shows the markers added to it and    *)
(* not removed, layers, whether anybody holds them or not.  Only a marker  *)
(* that is held is ever found again.                                       *)
(*                                                                         *)
(* looks is what a render wants: a function from the vehicles it shows to  *)
(* what their markers are painted with.                                    *)
(***************************************************************************)
EXTENDS Naturals

NoMarkers == [refs |-> [v \in {} |-> v], layers |-> [l \in {} |-> l]]

\* L.marker(...): not the one that may still be there.
NewLayer(m, v) ==
  IF [of |-> v, nth |-> 1] \in DOMAIN m.layers THEN [of |-> v, nth |-> 2] ELSE [of |-> v, nth |-> 1]

\* The first loop: whoever has no marker gets one, painted, and on the map.
Added(m, looks) ==
  LET new == DOMAIN looks \ DOMAIN m.refs IN
  [refs   |-> [v \in DOMAIN m.refs \cup new |-> IF v \in new THEN NewLayer(m, v) ELSE m.refs[v]],
   layers |-> [l \in DOMAIN m.layers \cup {NewLayer(m, v) : v \in new} |->
                 IF l \in DOMAIN m.layers THEN m.layers[l] ELSE looks[l.of]]]

\* Its other branch, on the maps that paint a marker again.
Repainted(m, looks) ==
  [m EXCEPT !.layers =
     [l \in DOMAIN @ |-> IF l.of \in DOMAIN looks /\ m.refs[l.of] = l THEN looks[l.of] ELSE @[l]]]

\* Slip: a marker taken off the map is still held.
PrunedHeld(m, shown) ==
  [m EXCEPT !.layers = [l \in DOMAIN @ \ {m.refs[v] : v \in DOMAIN m.refs \ shown} |-> @[l]]]

\* The second loop: who is gone loses the marker and is forgotten.
Pruned(m, shown) ==
  [refs   |-> [v \in DOMAIN m.refs \cap shown |-> m.refs[v]],
   layers |-> [l \in DOMAIN m.layers \ {m.refs[v] : v \in DOMAIN m.refs \ shown} |-> m.layers[l]]]

\* Slip: the map is removed, and what was on it still counts as made.
CleanedUpHeld(m) == [m EXCEPT !.layers = [l \in {} |-> l]]

\* The cleanup: map.remove() and refs.clear().
CleanedUp(m) == NoMarkers

Reconciled(m, looks) == Pruned(Added(m, looks), DOMAIN looks)

ReconciledAndPainted(m, looks) == Pruned(Repainted(Added(m, looks), looks), DOMAIN looks)

\* Each vehicle shown has one marker on the map, the one that is held for it.
OneMarkerEach(m, shown) ==
  /\ DOMAIN m.refs = shown
  /\ {l.of : l \in DOMAIN m.layers} = shown
  /\ \A l \in DOMAIN m.layers : m.refs[l.of] = l
===============================================================================
