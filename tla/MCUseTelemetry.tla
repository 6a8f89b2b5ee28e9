--------------------------- MODULE MCUseTelemetry ---------------------------
(***************************************************************************)
(* Both builds on small instances: one socket object and two worlds,    *)
(* a stale limit of two units under an opening limit of three, two faults; *)
(* a recording of three chunks of two frames, a cache for two of them.     *)
(***************************************************************************)
EXTENDS UseTelemetry
=============================================================================
