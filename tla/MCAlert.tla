------------------------------ MODULE MCAlert ------------------------------
(* Instances of AlertDelivery for TLC. *)
EXTENDS AlertDelivery

CONSTANTS p1, p2, ch1, ch2
=============================================================================
