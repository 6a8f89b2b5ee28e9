---------------------------- MODULE EmergencyStop ----------------------------
(***************************************************************************)
(* What MAIN's emergency stop promises, whatever measures, times and       *)
(* drives it.  A hazard that has been seen without a gap for its           *)
(* persistence cuts the motor at the look that completes it, and no other  *)
(* look does.  Besides, only the test begins a cut.  A latched cut         *)
(* outlasts its hazard and every later look; only a command that finds the *)
(* way clear, or the power, ends it.  The motor is off exactly while a cut *)
(* is in force.                                                            *)
(*                                                                         *)
(* What happened can be seen from outside: the stop listens for commands,  *)
(* ends a round with a look or without one, or is without power.  So a     *)
(* look that releases, a command that cuts without being the test, and a   *)
(* reset that nothing verified are no steps of this module.                *)
(***************************************************************************)
CONSTANTS
    Latches,    \* a cut that a hazard begins is latched
    Wired       \* a cut switches the motor off

VARIABLES
    mode,       \* "off", "listening" for commands, or "busy"
    due,        \* a hazard has been seen for its persistence, up to the last look
    clear,      \* what was looked at last would allow a release
    stop,       \* "none", "cut" or "latched"
    tested,     \* the cut in force is that of a test
    motorOff    \* the motor is switched off

vars == <<mode, due, clear, stop, tested, motorOff>>

Init ==
    /\ mode = "off"
    /\ due = FALSE
    /\ clear = FALSE
    /\ stop = "none" /\ tested = FALSE
    /\ motorOff = FALSE

Settle(s) == stop' = s /\ motorOff' = (Wired /\ s # "none")

Begun == IF Latches THEN "latched" ELSE "cut"

\* Nothing has been seen yet.
PowerUp ==
    /\ mode = "off" /\ mode' = "busy"
    /\ UNCHANGED <<due, clear, stop, tested, motorOff>>

PowerCycle ==
    /\ mode' = "off"
    /\ due' = FALSE /\ clear' = FALSE
    /\ Settle("none") /\ tested' = FALSE

Listen ==
    /\ mode = "busy" /\ mode' = "listening"
    /\ UNCHANGED <<due, clear, stop, tested, motorOff>>

\* A round without a look.
Pass ==
    /\ mode = "listening" /\ mode' = "busy"
    /\ UNCHANGED <<due, clear, stop, tested, motorOff>>

\* Nothing that is due is clear; a cut that is not latched may end without its hazard.
Look ==
    /\ mode = "listening" /\ mode' = "busy"
    /\ due' \in BOOLEAN /\ clear' \in BOOLEAN
    /\ ~(due' /\ clear')
    /\ \/ stop = "latched" /\ ~due' /\ Settle("latched") /\ UNCHANGED tested
       \/ stop # "latched" /\ due' /\ Settle(Begun) /\ tested' = FALSE
       \/ stop = "none" /\ ~due' /\ Settle("none") /\ tested' = FALSE
       \/ stop = "cut" /\ ~due' /\ (Settle("cut") \/ Settle("none")) /\ tested' = FALSE

\* The cut is tested: latched in any case.
Test ==
    /\ Wired
    /\ mode = "listening" /\ UNCHANGED mode
    /\ due' = FALSE /\ clear' \in BOOLEAN
    /\ Settle("latched") /\ tested' = TRUE

\* What stood before the release counts no longer.
Release ==
    /\ mode = "listening" /\ UNCHANGED mode
    /\ due' = FALSE /\ clear' = TRUE
    /\ Settle("none") /\ tested' = FALSE

Refuse ==
    /\ mode = "listening" /\ UNCHANGED mode
    /\ clear' = FALSE
    /\ UNCHANGED <<due, stop, tested, motorOff>>

Next ==
    \/ PowerUp \/ PowerCycle
    \/ Listen \/ Pass \/ Look
    \/ Test \/ Release \/ Refuse

Spec == Init /\ [][Next]_vars

==============================================================================
