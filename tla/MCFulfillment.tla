--------------------------- MODULE MCFulfillment ---------------------------
(* Instances of Fulfillment for TLC. *)
EXTENDS Fulfillment, TLC

CONSTANTS o1, r1, r2, m1, q1, q2
=============================================================================
