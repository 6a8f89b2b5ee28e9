----------------------------- MODULE TripHistory -----------------------------
(***************************************************************************)
(* The haul-efficiency panel of the supervisor: the truck and the window   *)
(* selected (HaulEfficiencyPanel.tsx), the trips fetched for them          *)
(* (useHaulageEfficiencyData.ts, api/mineApi.ts) and the trips shown       *)
(* (haulEfficiency.ts), over the backend's log, which records and evicts   *)
(* trips meanwhile (analytics/trip_logger.py).                             *)
(*                                                                         *)
(* A trip is its number, its truck and whether its figures are usable; the *)
(* backend numbers them in the order of their ends.                        *)
(***************************************************************************)
EXTENDS Naturals, Sequences, FiniteSets, SequencesExt, Selection

CONSTANTS
  Trucks,         \* vehicle ids
  Limits,         \* the windows of the second select, 15 and 30 in the code
  MaxHistory,     \* HaulageAnalyticsEngine.max_history, 200
  KeptPerTruck,   \* BASELINE_TRIPS_PER_VEHICLE, 15
  StartupTrips,   \* baseline_trips: the completed trips the simulator starts with
  MaxTrips,       \* bound of the runs: trips in all
  MaxChanges,     \* bound of the runs: changes of truck, window, mode or fleet
  MaxFailures     \* bound of the runs: requests that fail

Modes == {"SIMULATED", "LIVE"}
ShortWindow == CHOOSE n \in Limits : \A k \in Limits : n <= k

VARIABLES
  recordedDemo,   \* STATIC_DEMO, fixed by the build
  log,            \* HaulageAnalyticsEngine._trips, sorted by end
  completed,      \* trips completed so far
  fleet,          \* the trucks of the supervisor's view model, in order
  mode,           \* world.mode
  chosen,         \* HaulEfficiencyPanel: selectedVehicleId, "none" at first
  limit,          \* HaulEfficiencyPanel: limit
  data,           \* useHaulageEfficiencyData: data
  effect,         \* the timers and the request of the present effect
  late,           \* answers that came just before their effect's clean-up
  changes, failures

tripVars == <<recordedDemo, log, completed, fleet, mode, chosen, limit, data, effect, late,
              changes, failures>>

TripType == [id : Nat, truck : Trucks, usable : BOOLEAN]
Trip(n, truck, usable) == [id |-> n, truck |-> truck, usable |-> usable]

-----------------------------------------------------------------------------
(***************************************************************************)
(* The backend's log.                                                      *)
(***************************************************************************)
Of(truck, trips) == Picked(trips, {i \in DOMAIN trips : trips[i].truck = truck})
LastOf(n, trips) == SubSeq(trips, IF Len(trips) > n THEN Len(trips) - n + 1 ELSE 1, Len(trips))

\* record_trip's eviction: the oldest trip of a truck that can spare one.
Evicted(trips) ==
  LET busy == {i \in DOMAIN trips : Len(Of(trips[i].truck, trips)) > KeptPerTruck} IN
  IF Len(trips) <= MaxHistory THEN trips
  ELSE RemoveAt(trips, IF busy = {} THEN 1 ELSE CHOOSE i \in busy : \A k \in busy : i <= k)

\* get_trip_history: newest first, the truck's trips before the limit.
Answer(truck, n) == Reverse(LastOf(n, Of(truck, log)))

-----------------------------------------------------------------------------
(***************************************************************************)
(* haulEfficiency.ts.                                                      *)
(***************************************************************************)

\* selectEfficiencyTrips: the truck's usable trips, oldest first, each id once.
SelectTrips(records, truck, n) ==
  LET own  == Of(truck, records)
      kept == {i \in DOMAIN own : own[i].usable /\ \A k \in 1 .. i - 1 : own[k].id # own[i].id}
  IN  LastOf(n, InOrder(own, kept, [i \in kept |-> own[i].id]))

-----------------------------------------------------------------------------
(***************************************************************************)
(* The panel.                                                              *)
(***************************************************************************)
Truck == IF chosen \in Range(fleet) THEN chosen
         ELSE IF fleet = <<>> THEN "none" ELSE Head(fleet)
Key == [mode |-> mode, truck |-> Truck, limit |-> limit]
NoKey == [mode |-> "none", truck |-> "none", limit |-> 0]

Empty(key) == [key |-> key, history |-> "none", trips |-> <<>>, loading |-> TRUE, error |-> FALSE]
Loaded(key, trips) ==
  [key |-> key, history |-> "loaded", trips |-> trips, loading |-> FALSE, error |-> FALSE]

\* A slip: what is held is shown, whatever it was asked for.
ShownAnyKey ==
  IF Truck = "none" THEN [Empty(NoKey) EXCEPT !.loading = FALSE] ELSE data

\* What the hook returns for the present selection.
Shown ==
  IF Truck = "none" THEN [Empty(NoKey) EXCEPT !.loading = FALSE]
  ELSE IF data.key = Key THEN data ELSE Empty(NoKey)

Trips == SelectTrips(Shown.trips, Truck, limit)

\* The effect of a selection: its first timer, its interval, its controller and inFlight.
NoRequest == [phase |-> "none"]
Started(key) == [key |-> key, first |-> TRUE, repeats |-> ~recordedDemo, request |-> NoRequest]
Stopped == [key |-> NoKey, first |-> FALSE, repeats |-> FALSE, request |-> NoRequest]

TripsInit ==
  /\ recordedDemo \in BOOLEAN
  /\ log = LastOf(MaxHistory, StartupTrips)
  /\ completed = Len(StartupTrips)
  /\ fleet \in {<<>>} \cup {<<t>> : t \in Trucks}
  /\ mode = "SIMULATED"
  /\ chosen = "none"
  /\ limit = ShortWindow
  /\ data = Empty(NoKey)
  /\ effect = IF fleet = <<>> THEN Stopped ELSE Started(Key)
  /\ late = {}
  /\ changes = 0 /\ failures = 0

(***************************************************************************)
(* A render with another selection: React cleans the old effect up, which  *)
(* aborts its request and stops its timers, and runs the new one.  An      *)
(* answer that had already come is still waiting for its turn.             *)
(***************************************************************************)
Rerender ==
  /\ changes < MaxChanges
  /\ changes' = changes + 1
  /\ IF Key' = effect.key THEN UNCHANGED <<effect, late>>
     ELSE /\ effect' = IF Truck' = "none" THEN Stopped ELSE Started(Key')
          /\ late' = IF effect.request.phase = "answered"
                     THEN late \cup {[key |-> effect.key, trips |-> effect.request.trips]}
                     ELSE late
  /\ UNCHANGED <<recordedDemo, log, completed, data, failures>>

SelectTruck ==
  /\ \E t \in Range(fleet) \ {chosen} : chosen' = t
  /\ UNCHANGED <<fleet, mode, limit>>
  /\ Rerender

SelectWindow ==
  /\ \E n \in Limits \ {limit} : limit' = n
  /\ UNCHANGED <<fleet, mode, chosen>>
  /\ Rerender

\* A snapshot with another fleet or another mode.
WorldChanges ==
  /\ \/ /\ \E f \in {<<>>, SetToSeq(Trucks)} \cup {<<t>> : t \in Trucks} : f # fleet /\ fleet' = f
        /\ UNCHANGED mode
     \/ /\ mode' \in Modes \ {mode}
        /\ UNCHANGED fleet
  /\ UNCHANGED <<chosen, limit>>
  /\ Rerender

\* load, from the first timer or from the interval; nothing while one is in flight.
Fetch ==
  /\ effect.first \/ effect.repeats
  /\ effect' = [effect EXCEPT !.first = FALSE,
       !.request = IF @ = NoRequest THEN [phase |-> "sent"] ELSE @]
  /\ UNCHANGED <<recordedDemo, log, completed, fleet, mode, chosen, limit, data, late,
                 changes, failures>>

\* The backend answers, or the fixture is read and cut as the backend would.
Reply ==
  /\ effect.request.phase = "sent"
  /\ effect' = [effect EXCEPT !.request =
       [phase |-> "answered", trips |-> Answer(effect.key.truck, effect.key.limit)]]
  /\ UNCHANGED <<recordedDemo, log, completed, fleet, mode, chosen, limit, data, late,
                 changes, failures>>

Arrives ==
  /\ effect.request.phase = "answered"
  /\ data' = Loaded(effect.key, effect.request.trips)
  /\ effect' = [effect EXCEPT !.request = NoRequest]
  /\ UNCHANGED <<recordedDemo, log, completed, fleet, mode, chosen, limit, late, changes, failures>>

\* An answer of an aborted effect: nothing is set.
LateIgnored ==
  /\ \E answer \in late : late' = late \ {answer}
  /\ UNCHANGED <<recordedDemo, log, completed, fleet, mode, chosen, limit, data, effect, changes, failures>>

\* A slip: inFlight stays set after a failure.
RequestFailsInFlight ==
  /\ failures < MaxFailures
  /\ effect.request.phase \in {"sent", "answered"}
  /\ failures' = failures + 1
  /\ data' = [(IF data.key = effect.key THEN data ELSE Empty(effect.key))
                EXCEPT !.loading = FALSE, !.error = TRUE]
  /\ effect' = [effect EXCEPT !.request = [phase |-> "failed"]]
  /\ UNCHANGED <<recordedDemo, log, completed, fleet, mode, chosen, limit, late, changes>>

\* The request fails: what is shown for the selection stays, marked as stale.
RequestFails ==
  /\ failures < MaxFailures
  /\ effect.request.phase \in {"sent", "answered"}
  /\ failures' = failures + 1
  /\ data' = [(IF data.key = effect.key THEN data ELSE Empty(effect.key))
                EXCEPT !.loading = FALSE, !.error = TRUE]
  /\ effect' = [effect EXCEPT !.request = NoRequest]
  /\ UNCHANGED <<recordedDemo, log, completed, fleet, mode, chosen, limit, late, changes>>

\* record_trip, when a truck completes its cycle; the fixture of the demo does not grow.
Record ==
  /\ ~recordedDemo
  /\ completed < MaxTrips
  /\ completed' = completed + 1
  /\ \E truck \in Trucks, usable \in BOOLEAN :
       log' = Evicted(Append(log, Trip(completed', truck, usable)))
  /\ UNCHANGED <<recordedDemo, fleet, mode, chosen, limit, data, effect, late, changes, failures>>

\* HaulageAnalyticsEngine.reset, on a reset of the simulation.
ResetLog ==
  /\ ~recordedDemo
  /\ log' = LastOf(MaxHistory, StartupTrips)
  /\ UNCHANGED <<recordedDemo, completed, fleet, mode, chosen, limit, data, effect, late,
                 changes, failures>>

TripsNext ==
  \/ SelectTruck \/ SelectWindow \/ WorldChanges
  \/ Fetch \/ Reply \/ Arrives \/ LateIgnored \/ RequestFails
  \/ Record \/ ResetLog

TripsFairness == WF_tripVars(Fetch) /\ WF_tripVars(Reply) /\ WF_tripVars(Arrives)

-----------------------------------------------------------------------------
(***************************************************************************)
(* The trips shown are of the truck, the window and the mode selected now: *)
(* completed trips of that truck, oldest first, each once, never more than *)
(* the window, and what is left out of the answer is older than any shown. *)
(***************************************************************************)
TripsAreTheSelection ==
  /\ Shown.history = "loaded" => Shown.key = Key
  /\ Len(Trips) <= limit
  /\ \A i \in DOMAIN Trips : Trips[i].truck = Truck /\ Trips[i].usable
  /\ \A i, j \in DOMAIN Trips : i < j => Trips[i].id < Trips[j].id
  /\ \A t \in Range(Shown.trips) :
       t.truck = Truck /\ t.usable /\ t \notin Range(Trips) =>
         Len(Trips) = limit /\ \A i \in DOMAIN Trips : t.id < Trips[i].id

(***************************************************************************)
(* Outside the demo a history that failed, or whose request was superseded *)
(* by another selection, is fetched again until it is shown.               *)
(***************************************************************************)
HistoryIsShown ==
  recordedDemo \/ Truck = "none" \/ (Shown.history = "loaded" /\ ~Shown.error)

HistoryRecovers == <>[]HistoryIsShown
==============================================================================
