------------------------- MODULE MCRefundSettlement -------------------------
(* Instances of RefundSettlement for TLC. *)
EXTENDS RefundSettlement, TLC

CONSTANTS r1, r2, w1, w2
=============================================================================
