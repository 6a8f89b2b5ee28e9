--------------------------- MODULE MCWifiTelemetry ---------------------------
(* WifiTelemetry on a small instance. *)
EXTENDS WifiTelemetry
=============================================================================
