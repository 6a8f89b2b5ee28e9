---------------------------- MODULE MCLiveRuntime ----------------------------
(* LiveRuntime on small instances: one time unit stands for about 750 ms, the *)
(* reset sequence 5 becomes 0.                                                *)
EXTENDS LiveRuntime

OneOrBoth == {{"USB"}, {"USB", "WIFI"}}
One == {{"USB"}}
Both == {{"USB", "WIFI"}}
=============================================================================
