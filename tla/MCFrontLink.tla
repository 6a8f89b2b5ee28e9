----------------------------- MODULE MCFrontLink -----------------------------
(* FrontLink on a small instance: one time unit stands for about 500 ms. *)
EXTENDS FrontLink
=============================================================================
