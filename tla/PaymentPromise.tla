--------------------------- MODULE PaymentPromise ---------------------------
(***************************************************************************)
(* What checkout promises a customer about money and goods, per order and  *)
(* without any of the machinery: an order is open, then exactly one of     *)
(*   - closed: nothing is owed,                                            *)
(*   - goods:  the warehouse owes the goods, and the customer was charged, *)
(*   - frozen: the customer was charged and a human has to settle it.      *)
(* A charge may arrive when the order is already closed: then it can only  *)
(* be frozen, never revived.  OrderPayment implements this specification.  *)
(***************************************************************************)
CONSTANT Orders

VARIABLES charged,  \* the orders whose customer has been charged
          outcome   \* what the shop answers for each order

vars == <<charged, outcome>>

Outcomes == {"open", "closed", "goods", "frozen"}

Init == /\ charged = {}
        /\ outcome = [o \in Orders |-> "open"]

Charge(o) == /\ o \notin charged
             /\ charged' = charged \cup {o}
             /\ UNCHANGED outcome

\* One database transaction may close several orders.
Close(S) == /\ S # {}
            /\ \A o \in S : outcome[o] = "open"
            /\ outcome' = [o \in Orders |-> IF o \in S THEN "closed" ELSE outcome[o]]
            /\ UNCHANGED charged

Fulfil(o) == /\ o \in charged
             /\ outcome[o] = "open"
             /\ outcome' = [outcome EXCEPT ![o] = "goods"]
             /\ UNCHANGED charged

Freeze(o) == /\ o \in charged
             /\ outcome[o] \in {"open", "closed"}
             /\ outcome' = [outcome EXCEPT ![o] = "frozen"]
             /\ UNCHANGED charged

Next == \/ \E o \in Orders : Charge(o) \/ Fulfil(o) \/ Freeze(o)
        \/ \E S \in SUBSET Orders : Close(S)

Safety == Init /\ [][Next]_vars

\* A charged order is not left open or closed for ever.
Spec == Safety /\ \A o \in Orders : WF_vars(Fulfil(o) \/ Freeze(o))
=============================================================================
