----------------------------- MODULE MCSimulator -----------------------------
(* Simulator on a small instance. *)
EXTENDS Simulator

Keep == [reset |-> FALSE, scenario |-> "keep", running |-> "keep", obstacle |-> "keep"]

\* Every request of one field, and a scenario with an obstacle of its own.
SmallControlCalls ==
    {[Keep EXCEPT !.reset = TRUE]}
    \cup {[Keep EXCEPT !.scenario = s] : s \in Scenarios}
    \cup {[Keep EXCEPT !.running = b] : b \in {"run", "pause"}}
    \cup {[Keep EXCEPT !.obstacle = b] : b \in {"on", "off"}}
    \cup {[Keep EXCEPT !.scenario = "HAUL", !.obstacle = "on"]}
=============================================================================
