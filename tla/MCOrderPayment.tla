--------------------------- MODULE MCOrderPayment ---------------------------
(* Instances of OrderPayment for TLC: stock for one of the two orders only. *)
EXTENDS OrderPayment, TLC

CONSTANTS o1, o2, c1, p1, p2, h1, h2

\* Two orders that compete for the last units of one product and have enough
\* of another; the smaller order would fit twice.
ContestedQty == [o \in Orders |-> p1 :> (IF o = o1 THEN 2 ELSE 1) @@ p2 :> 1]
ContestedStock == p1 :> 2 @@ p2 :> 4
=============================================================================
