------------------------------- MODULE MCPoint -------------------------------
(* Instances of PointLifecycle for TLC. *)
EXTENDS PointLifecycle

CONSTANTS w1, w2, r1, r2
=============================================================================
