--------------------------- MODULE MCMainSafetyLoop ---------------------------
(* MainSafetyLoop for TLC: the constants are values of the cfg files. *)
EXTENDS MainSafetyLoop
=============================================================================
