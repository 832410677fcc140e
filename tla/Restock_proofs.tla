--------------------------- MODULE Restock_proofs ---------------------------
(***************************************************************************)
(* Proofs about Restock, for any number of orders, purchases and clerks.   *)
(*                                                                         *)
(* ShippedOnce alone is not inductive: what stops a second shipment is the *)
(* row of the first one, and that row goes only with its order.  Nor is    *)
(* PurchasesInOrder: a clerk who books goods in must still be within what  *)
(* was missing, which one buyer is, for nobody else changes purchases.     *)
(***************************************************************************)
EXTENDS Restock, FiniteSetTheorems, TLAPS

USE CasesAssumption

\* Goods that have left have a shipment, unless the order is gone with it.
ShipmentsKept ==
  \A o \in RestockOrders : left[o] = 1 => shipment[o] # "none" \/ restock[o] = "deleted"

ShipInv == /\ restock \in [RestockOrders -> RestockStatuses]
           /\ shipment \in [RestockOrders -> {"none", "sent", "arrived"}]
           /\ left \in [RestockOrders -> Nat]
           /\ ShippedOnce
           /\ ShipmentsKept

\* A step that leaves orders, shipments and the count alone keeps ShipInv.
LEMMA ShipInvFrame ==
  ASSUME ShipInv, UNCHANGED <<restock, shipment, left>>
  PROVE  ShipInv'
BY DEF ShipInv, ShippedOnce, ShipmentsKept

\* So does a new status that deletes nothing, of an order that is not deleted.
LEMMA ShipInvMoves ==
  ASSUME ShipInv, NEW c, NEW o, NEW status \in RestockStatuses, restock[o] # "deleted",
         Moves(c, o, status)
  PROVE  ShipInv'
BY DEF ShipInv, ShippedOnce, ShipmentsKept, Moves

\* The goods of an order leave headquarters at most once, with any number of
\* clerks shipping, revoking, withdrawing and confirming it at the same time.
THEOREM ShipsOnce == RestockSpec => []ShippedOnce
<1>1. RestockInit => ShipInv
  BY DEF RestockInit, ShipInv, ShippedOnce, ShipmentsKept, RestockStatuses
<1>2. ShipInv /\ [RestockNext]_restockVars => ShipInv'
  <2> SUFFICES ASSUME ShipInv, [RestockNext]_restockVars PROVE ShipInv'
    OBVIOUS
  <2>1. CASE UNCHANGED restockVars
    BY <2>1, ShipInvFrame DEF restockVars
  <2>2. CASE TimePasses \/ UpdateBatch \/ CloseBatch
    BY <2>2, ShipInvFrame DEF TimePasses, UpdateBatch, CloseBatch
  <2>3. ASSUME NEW c \in Receivers, CampusDesk(c) PROVE ShipInv'
    <3>1. CASE \E o \in RestockOrders : SaveRead(c, o) \/ DeleteRead(c, o) \/ ReceiptRead(c, o)
      BY <3>1, ShipInvFrame DEF SaveRead, DeleteRead, ReceiptRead, Takes
    <3>2. CASE SaveOrder(c)
      <4>1. CASE restock[desk[c].id] = "none"
        <5>1. Moves(c, desk[c].id, "submitted")
          BY <3>2, <4>1 DEF SaveOrder
        <5>2. QED
          BY <4>1, <5>1, ShipInvMoves DEF RestockStatuses
      <4>2. CASE restock[desk[c].id] # "none"
        BY <3>2, <4>2, ShipInvFrame DEF SaveOrder, Refused
      <4>3. QED
        BY <4>1, <4>2
    <3>3. CASE DeleteOrder(c)
      BY <3>3 DEF DeleteOrder, Refused, ShipInv, ShippedOnce, ShipmentsKept, RestockStatuses
    <3>4. CASE ConfirmReceipt(c)
      BY <3>4 DEF ConfirmReceipt, Refused, ShipInv, ShippedOnce, ShipmentsKept, RestockStatuses
    <3>5. QED
      BY <2>3, <3>1, <3>2, <3>3, <3>4 DEF CampusDesk
  <2>4. ASSUME NEW c \in Shippers, ShippingDesk(c) PROVE ShipInv'
    <3>1. CASE \E o \in RestockOrders : AuditRead(c, o) \/ ShipRead(c, o)
      BY <3>1, ShipInvFrame DEF AuditRead, ShipRead, Takes
    <3>2. CASE AuditWrite(c)
      <4>1. PICK verdict \in {<<"confirm", "confirmed">>, <<"reject", "rejected">>, <<"revoke", "submitted">>} :
              IF restock[desk[c].id] = "deleted" THEN Refused(c) ELSE Moves(c, desk[c].id, verdict[2])
        BY <3>2 DEF AuditWrite
      <4>2. verdict[2] \in RestockStatuses
        BY DEF RestockStatuses
      <4>3. CASE restock[desk[c].id] = "deleted"
        BY <4>1, <4>3, ShipInvFrame DEF Refused
      <4>4. CASE restock[desk[c].id] # "deleted"
        BY <4>1, <4>2, <4>4, ShipInvMoves
      <4>5. QED
        BY <4>3, <4>4
    <3>3. CASE ShipOrder(c)
      BY <3>3 DEF ShipOrder, Shippable, Refused, ShipInv, ShippedOnce, ShipmentsKept, RestockStatuses
    <3>4. QED
      BY <2>4, <3>1, <3>2, <3>3 DEF ShippingDesk
  <2>5. ASSUME NEW c \in Buyers, BuyingDesk(c) PROVE ShipInv'
    BY <2>5, ShipInvFrame DEF BuyingDesk, GenerateRead, ReceiveRead, CloseRead, ReopenRead, Takes,
       Generate, Receive, ClosePurchase, ReopenPurchase, Refused
  <2>6. QED
    BY <2>1, <2>2, <2>3, <2>4, <2>5 DEF RestockNext
<1>3. ShipInv => ShippedOnce
  BY DEF ShipInv
<1>4. QED
  BY <1>1, <1>2, <1>3, PTL DEF RestockSpec

-----------------------------------------------------------------------------

OneBuyer == \A b, c \in Buyers : b = c

PurchaseRows == [status : {"none", "open", "closed"}, required : Nat, received : Nat, bad : Nat]

NoneOpenBut(p) == \A q \in Purchases \ {p} : purchase[q].status # "open"

\* What a buyer has read and still holds when the buyer writes.
StillTrue(t) ==
  /\ t.op \in {"generate", "receive", "close", "reopen"} => t.id \in Purchases
  /\ t.op = "generate" => t.cases \in Nat /\ NoneOpenBut(t.id)
  /\ t.op = "receive" => /\ t.cases \in Nat /\ t.bad \in Nat /\ t.bad <= t.cases
                         /\ purchase[t.id].received + t.cases <= purchase[t.id].required
  /\ t.op = "reopen" => NoneOpenBut(t.id)

BuyInv == /\ purchase \in [Purchases -> PurchaseRows]
          /\ PurchasesInOrder
          /\ desk = [c \in Clerks |-> desk[c]]
          /\ \A b \in Buyers : StillTrue(desk[b])

\* A purchase order that gets a row in order keeps all of them in order.
LEMMA RowInOrder ==
  ASSUME BuyInv, NEW p \in Purchases, NEW row \in PurchaseRows,
         purchase' = [purchase EXCEPT ![p] = row],
         row.bad <= row.received, row.received <= row.required,
         row.status = "open" => NoneOpenBut(p)
  PROVE  purchase' \in [Purchases -> PurchaseRows] /\ PurchasesInOrder'
<1>1. purchase' \in [Purchases -> PurchaseRows]
  BY DEF BuyInv
<1>2. purchase'[p] = row /\ \A q \in Purchases \ {p} : purchase'[q] = purchase[q]
  BY DEF BuyInv
<1>3. \A q \in Purchases : purchase'[q].bad <= purchase'[q].received
                          /\ purchase'[q].received <= purchase'[q].required
  BY <1>2 DEF BuyInv, PurchasesInOrder
<1>4. \A q, r \in Purchases : purchase'[q].status = "open" /\ purchase'[r].status = "open" => q = r
  BY <1>2 DEF BuyInv, PurchasesInOrder, NoneOpenBut
<1>5. QED
  BY <1>1, <1>3, <1>4 DEF PurchasesInOrder

\* Booking in what was missing leaves the row in order.
LEMMA BookedRow ==
  ASSUME NEW old \in PurchaseRows, NEW cases \in Nat, NEW bad \in Nat, bad <= cases,
         old.bad <= old.received, old.received + cases <= old.required,
         NEW row, row = [old EXCEPT !.received = @ + cases, !.bad = @ + bad]
  PROVE  /\ row \in PurchaseRows /\ row.status = old.status
         /\ row.bad <= row.received /\ row.received <= row.required
<1>1. /\ old.status \in {"none", "open", "closed"}
      /\ old.required \in Nat /\ old.received \in Nat /\ old.bad \in Nat
      /\ old = [status |-> old.status, required |-> old.required,
                received |-> old.received, bad |-> old.bad]
  BY DEF PurchaseRows
<1>2. row = [status |-> old.status, required |-> old.required,
             received |-> old.received + cases, bad |-> old.bad + bad]
  BY <1>1
<1>3. QED
  BY <1>1, <1>2 DEF PurchaseRows

\* A clerk of another desk keeps BuyInv.
LEMMA OtherDesks ==
  ASSUME BuyInv, NEW c \in Clerks \ Buyers, NEW t,
         desk' = [desk EXCEPT ![c] = t], UNCHANGED purchase
  PROVE  BuyInv'
<1>1. desk' = [d \in Clerks |-> desk'[d]] /\ \A b \in Buyers : desk'[b] = desk[b]
  BY DEF BuyInv, Clerks
<1>2. QED
  BY <1>1 DEF BuyInv, PurchasesInOrder, StillTrue, NoneOpenBut

\* So does the one buyer who starts a request with what was read just now.
LEMMA BuyerReads ==
  ASSUME BuyInv, OneBuyer, NEW c \in Buyers, NEW t, StillTrue(t),
         desk' = [desk EXCEPT ![c] = t], UNCHANGED purchase
  PROVE  BuyInv'
<1>1. desk' = [d \in Clerks |-> desk'[d]] /\ \A b \in Buyers : desk'[b] = t
  BY DEF BuyInv, Clerks, OneBuyer
<1>2. QED
  BY <1>1 DEF BuyInv, PurchasesInOrder, StillTrue, NoneOpenBut

\* And the one buyer who ends it, when the purchases are in order.
LEMMA BuyerWrites ==
  ASSUME BuyInv, OneBuyer, NEW c \in Buyers, Done(c),
         purchase' \in [Purchases -> PurchaseRows], PurchasesInOrder'
  PROVE  BuyInv'
<1>1. desk' = [d \in Clerks |-> desk'[d]] /\ \A b \in Buyers : desk'[b] = AtRest
  BY DEF BuyInv, Clerks, OneBuyer, Done
<1>2. QED
  BY <1>1 DEF BuyInv, StillTrue, AtRest

\* With one buyer, no purchase order is overfilled and a batch has one open at
\* most, whatever the other desks do meanwhile.
THEOREM PurchasesStayInOrder == OneBuyer => (RestockSpec => []PurchasesInOrder)
<1> SUFFICES ASSUME OneBuyer PROVE RestockSpec => []PurchasesInOrder
  OBVIOUS
<1>1. RestockInit => BuyInv
  BY DEF RestockInit, BuyInv, PurchaseRows, PurchasesInOrder, NoPurchase, Clerks, StillTrue, AtRest
<1>2. BuyInv /\ [RestockNext]_restockVars => BuyInv'
  <2> SUFFICES ASSUME BuyInv, [RestockNext]_restockVars PROVE BuyInv'
    OBVIOUS
  <2>1. CASE UNCHANGED <<purchase, desk>>
    BY <2>1 DEF BuyInv, PurchasesInOrder, StillTrue, NoneOpenBut
  <2>2. ASSUME NEW c \in Receivers, CampusDesk(c) PROVE BuyInv'
    <3>1. c \in Clerks \ Buyers
      BY DesksDiffer DEF Clerks
    <3>2. PICK t : desk' = [desk EXCEPT ![c] = t] /\ UNCHANGED purchase
      BY <2>2 DEF CampusDesk, SaveRead, DeleteRead, ReceiptRead, Takes, SaveOrder, DeleteOrder,
         ConfirmReceipt, Moves, Refused, Done
    <3>3. QED
      BY <3>1, <3>2, OtherDesks
  <2>3. ASSUME NEW c \in Shippers, ShippingDesk(c) PROVE BuyInv'
    <3>1. c \in Clerks \ Buyers
      BY DesksDiffer DEF Clerks
    <3>2. PICK t : desk' = [desk EXCEPT ![c] = t] /\ UNCHANGED purchase
      BY <2>3 DEF ShippingDesk, AuditRead, ShipRead, Takes, AuditWrite, ShipOrder, Moves, Refused, Done
    <3>3. QED
      BY <3>1, <3>2, OtherDesks
  <2>4. ASSUME NEW c \in Buyers, BuyingDesk(c) PROVE BuyInv'
    <3>1. ASSUME NEW p \in Purchases, GenerateRead(c, p) PROVE BuyInv'
      <4> DEFINE t == [AtRest EXCEPT !.op = "generate", !.id = p,
                                     !.cases = Cases * Cardinality(Confirmed)]
      <4>1. Cases * Cardinality(Confirmed) \in Nat
        <5>1. IsFiniteSet(Confirmed)
          BY OrdersFinite, FS_Subset DEF Confirmed
        <5>2. Cardinality(Confirmed) \in Nat
          BY <5>1, FS_CardinalityType
        <5>3. QED
          BY <5>2, CasesAssumption
      <4>2. StillTrue(t)
        BY <3>1, <4>1 DEF GenerateRead, AnotherOpen, StillTrue, NoneOpenBut, AtRest
      <4>3. QED
        BY <3>1, <4>2, BuyerReads DEF GenerateRead
    <3>2. ASSUME NEW p \in Purchases, ReceiveRead(c, p) PROVE BuyInv'
      <4>1. PICK n \in 1..Shortage(p) : \E bad \in 0..n :
              desk' = [desk EXCEPT ![c] = [op |-> "receive", id |-> p, cases |-> n, bad |-> bad]]
        BY <3>2 DEF ReceiveRead
      <4>2. PICK bad \in 0..n :
              desk' = [desk EXCEPT ![c] = [op |-> "receive", id |-> p, cases |-> n, bad |-> bad]]
        BY <4>1
      <4>3. /\ purchase[p].required \in Nat /\ purchase[p].received \in Nat
            /\ Shortage(p) = purchase[p].required - purchase[p].received
        BY DEF BuyInv, PurchaseRows, Shortage
      <4>4. StillTrue([op |-> "receive", id |-> p, cases |-> n, bad |-> bad])
        BY <4>3 DEF StillTrue
      <4>5. QED
        BY <3>2, <4>2, <4>4, BuyerReads DEF ReceiveRead
    <3>3. ASSUME NEW p \in Purchases, CloseRead(c, p) \/ ReopenRead(c, p) PROVE BuyInv'
      <4>1. PICK op \in {"close", "reopen"} : Takes(c, op, p) /\ (op = "reopen" => ~AnotherOpen(p))
        BY <3>3 DEF CloseRead, ReopenRead
      <4>2. StillTrue([AtRest EXCEPT !.op = op, !.id = p])
        BY <4>1 DEF StillTrue, NoneOpenBut, AnotherOpen, AtRest
      <4>3. QED
        BY <4>1, <4>2, BuyerReads DEF Takes
    <3>4. CASE Generate(c)
      <4>1. CASE purchase' = purchase
        BY <3>4, <4>1, BuyerWrites DEF Generate, Refused, BuyInv, PurchasesInOrder
      <4>2. CASE purchase' # purchase
        <5> DEFINE row == [NoPurchase EXCEPT !.status = "open", !.required = desk[c].cases]
        <5>1. purchase' = [purchase EXCEPT ![desk[c].id] = row]
          BY <3>4, <4>2 DEF Generate, Refused
        <5>2. desk[c].id \in Purchases /\ desk[c].cases \in Nat /\ NoneOpenBut(desk[c].id)
          BY <3>4 DEF Generate, Doing, BuyInv, StillTrue
        <5>3. row \in PurchaseRows /\ row.bad = 0 /\ row.received = 0 /\ row.required \in Nat
          BY <5>2 DEF PurchaseRows, NoPurchase
        <5>4. row.bad <= row.received /\ row.received <= row.required
          BY <5>3
        <5> HIDE DEF row
        <5>5. purchase' \in [Purchases -> PurchaseRows] /\ PurchasesInOrder'
          BY <5>1, <5>2, <5>3, <5>4, RowInOrder
        <5>6. QED
          BY <3>4, <5>5, BuyerWrites DEF Generate, Refused
      <4>3. QED
        BY <4>1, <4>2
    <3>5. CASE Receive(c)
      <4>1. /\ desk[c].id \in Purchases /\ desk[c].cases \in Nat /\ desk[c].bad \in Nat
            /\ desk[c].bad <= desk[c].cases
            /\ purchase[desk[c].id].received + desk[c].cases <= purchase[desk[c].id].required
        BY <3>5 DEF Receive, Doing, BuyInv, StillTrue
      <4> DEFINE old == purchase[desk[c].id]
                 row == [old EXCEPT !.received = @ + desk[c].cases, !.bad = @ + desk[c].bad]
      <4>2. purchase' = [purchase EXCEPT ![desk[c].id] = row]
        BY <3>5, <4>1 DEF Receive, BuyInv
      <4>3. /\ old \in PurchaseRows /\ old.bad <= old.received
            /\ old.status = "open" => NoneOpenBut(desk[c].id)
        BY <4>1 DEF BuyInv, PurchasesInOrder, NoneOpenBut
      <4>4. /\ row \in PurchaseRows /\ row.status = old.status
            /\ row.bad <= row.received /\ row.received <= row.required
        BY <4>1, <4>3, BookedRow
      <4> HIDE DEF row, old
      <4>5. purchase' \in [Purchases -> PurchaseRows] /\ PurchasesInOrder'
        BY <4>1, <4>2, <4>3, <4>4, RowInOrder
      <4>6. QED
        BY <3>5, <4>5, BuyerWrites DEF Receive
    <3>6. CASE ClosePurchase(c)
      <4>1. desk[c].id \in Purchases
        BY <3>6 DEF ClosePurchase, Doing, BuyInv, StillTrue
      <4>2. purchase' \in [Purchases -> PurchaseRows] /\ PurchasesInOrder'
        BY <3>6, <4>1 DEF ClosePurchase, BuyInv, PurchaseRows, PurchasesInOrder
      <4>3. QED
        BY <3>6, <4>2, BuyerWrites DEF ClosePurchase
    <3>7. CASE ReopenPurchase(c)
      <4>1. desk[c].id \in Purchases /\ NoneOpenBut(desk[c].id)
        BY <3>7 DEF ReopenPurchase, Doing, BuyInv, StillTrue
      <4>2. purchase' \in [Purchases -> PurchaseRows] /\ PurchasesInOrder'
        BY <3>7, <4>1 DEF ReopenPurchase, BuyInv, PurchaseRows, PurchasesInOrder, NoneOpenBut
      <4>3. QED
        BY <3>7, <4>2, BuyerWrites DEF ReopenPurchase
    <3>8. QED
      BY <2>4, <3>1, <3>2, <3>3, <3>4, <3>5, <3>6, <3>7 DEF BuyingDesk
  <2>5. QED
    BY <2>1, <2>2, <2>3, <2>4 DEF RestockNext, restockVars, TimePasses, UpdateBatch, CloseBatch
<1>3. BuyInv => PurchasesInOrder
  BY DEF BuyInv
<1>4. QED
  BY <1>1, <1>2, <1>3, PTL DEF RestockSpec

-----------------------------------------------------------------------------
(* Types                                                                   *)

\* A request is about a row of its desk's table, and adds whole cases.
OrderOps == {"order", "delete", "confirm", "reject", "revoke", "ship", "receipt"}
PurchaseOps == {"generate", "receive", "close", "reopen"}
Tasks == [op : Ops, id : RestockOrders \cup Purchases \cup {"none"}, cases : Nat, bad : Nat]
Addressed(t) == /\ t.op \in OrderOps => t.id \in RestockOrders
                /\ t.op \in PurchaseOps => t.id \in Purchases

RestockTyped == RestockTypeOK /\ \A c \in Clerks : Addressed(desk[c])

LEMMA RequestTyped ==
  /\ AtRest \in Tasks /\ Addressed(AtRest)
  /\ \A op \in OrderOps, o \in RestockOrders :
       [AtRest EXCEPT !.op = op, !.id = o] \in Tasks /\ Addressed([AtRest EXCEPT !.op = op, !.id = o])
  /\ \A op \in PurchaseOps, p \in Purchases, n \in Nat :
       /\ [AtRest EXCEPT !.op = op, !.id = p] \in Tasks /\ Addressed([AtRest EXCEPT !.op = op, !.id = p])
       /\ [AtRest EXCEPT !.op = op, !.id = p, !.cases = n] \in Tasks
       /\ Addressed([AtRest EXCEPT !.op = op, !.id = p, !.cases = n])
<1>1. AtRest \in Tasks
  BY DEF AtRest, Tasks, Ops
<1>2. AtRest.op = "rest" /\ OrderOps \subseteq Ops /\ PurchaseOps \subseteq Ops /\ OrderOps \cap PurchaseOps = {}
      /\ "rest" \notin OrderOps \cup PurchaseOps
  BY DEF AtRest, Ops, OrderOps, PurchaseOps
<1>3. ASSUME NEW op \in OrderOps, NEW o \in RestockOrders
      PROVE  [AtRest EXCEPT !.op = op, !.id = o] \in Tasks /\ Addressed([AtRest EXCEPT !.op = op, !.id = o])
  BY <1>1, <1>2 DEF Tasks, Addressed
<1>4. ASSUME NEW op \in PurchaseOps, NEW p \in Purchases, NEW n \in Nat
      PROVE  /\ [AtRest EXCEPT !.op = op, !.id = p] \in Tasks /\ Addressed([AtRest EXCEPT !.op = op, !.id = p])
             /\ [AtRest EXCEPT !.op = op, !.id = p, !.cases = n] \in Tasks
             /\ Addressed([AtRest EXCEPT !.op = op, !.id = p, !.cases = n])
  BY <1>1, <1>2 DEF Tasks, Addressed
<1>5. QED
  BY <1>1, <1>2, <1>3, <1>4 DEF Addressed

\* Whatever a desk does, it goes on with a request of its own.
LEMMA DeskMoves ==
  ASSUME RestockTyped, NEW c \in Clerks, NEW t \in Tasks, Addressed(t), desk' = [desk EXCEPT ![c] = t],
         window' \in Windows, batchClosed' \in BOOLEAN, restock' \in [RestockOrders -> RestockStatuses],
         shipment' \in [RestockOrders -> {"none", "sent", "arrived"}],
         purchase' \in [Purchases -> PurchaseRows], hqStock' \in Int,
         left' \in [RestockOrders -> Nat], credited' \in [RestockOrders -> Nat]
  PROVE  RestockTyped'
<1>1. desk' \in [Clerks -> Tasks] /\ \A d \in Clerks : Addressed(desk[d])'
  BY DEF RestockTyped, RestockTypeOK, Tasks, Addressed
<1>2. QED
  BY <1>1 DEF RestockTyped, RestockTypeOK, Tasks, PurchaseRows

LEMMA Rows ==
  ASSUME RestockTyped
  PROVE  /\ window \in Windows /\ batchClosed \in BOOLEAN
         /\ restock \in [RestockOrders -> RestockStatuses]
         /\ shipment \in [RestockOrders -> {"none", "sent", "arrived"}]
         /\ purchase \in [Purchases -> PurchaseRows] /\ hqStock \in Int
         /\ left \in [RestockOrders -> Nat] /\ credited \in [RestockOrders -> Nat]
         /\ desk \in [Clerks -> Tasks] /\ \A c \in Clerks : Addressed(desk[c])
BY DEF RestockTyped, RestockTypeOK, Tasks, PurchaseRows

LEMMA TakenTyped ==
  ASSUME RestockTyped, NEW c \in Clerks, NEW op, NEW id, Takes(c, op, id),
         \/ op \in OrderOps /\ id \in RestockOrders
         \/ op \in PurchaseOps /\ id \in Purchases
  PROVE  RestockTyped'
<1>1. [AtRest EXCEPT !.op = op, !.id = id] \in Tasks /\ Addressed([AtRest EXCEPT !.op = op, !.id = id])
  BY RequestTyped
<1>2. desk' = [desk EXCEPT ![c] = [AtRest EXCEPT !.op = op, !.id = id]]
      /\ UNCHANGED <<window, batchClosed, restock, shipment, purchase, hqStock, left, credited>>
  BY DEF Takes
<1>3. QED
  BY <1>1, <1>2, Rows, DeskMoves

LEMMA RefusedTyped ==
  ASSUME RestockTyped, NEW c \in Clerks, Refused(c), UNCHANGED <<window, batchClosed>>
  PROVE  RestockTyped'
BY Rows, RequestTyped, DeskMoves DEF Refused, Done

LEMMA MovesTyped ==
  ASSUME RestockTyped, NEW c \in Clerks, NEW o \in RestockOrders, NEW status \in RestockStatuses,
         Moves(c, o, status), UNCHANGED <<window, batchClosed>>
  PROVE  RestockTyped'
<1>1. restock' \in [RestockOrders -> RestockStatuses]
  BY Rows DEF Moves
<1>2. QED
  BY <1>1, Rows, RequestTyped, DeskMoves DEF Moves, Done

LEMMA BookedIn ==
  ASSUME NEW row \in PurchaseRows, NEW cases \in Nat, NEW bad \in Nat
  PROVE  [row EXCEPT !.received = @ + cases, !.bad = @ + bad] \in PurchaseRows
<1>1. row.received + cases \in Nat /\ row.bad + bad \in Nat
  BY DEF PurchaseRows
<1>2. \A m, n \in Nat : [row EXCEPT !.received = m, !.bad = n] \in PurchaseRows
  BY DEF PurchaseRows
<1>3. QED
  BY <1>1, <1>2

\* Every row keeps its type, whoever is at work.
THEOREM RestockTypesHold == RestockSpec => []RestockTypeOK
<1>1. RestockInit => RestockTyped
  <2> SUFFICES ASSUME RestockInit PROVE RestockTyped
    OBVIOUS
  <2>1. desk = [c \in Clerks |-> AtRest] /\ NoPurchase \in PurchaseRows
    BY DEF RestockInit, NoPurchase, PurchaseRows
  <2>2. desk \in [Clerks -> Tasks] /\ \A c \in Clerks : Addressed(desk[c])
    BY <2>1, RequestTyped
  <2>3. batchClosed \in BOOLEAN
    BY DEF RestockInit
  <2>4. window \in Windows /\ hqStock \in Int
    BY DEF RestockInit, Windows
  <2>5. /\ restock \in [RestockOrders -> RestockStatuses]
        /\ shipment \in [RestockOrders -> {"none", "sent", "arrived"}]
        /\ purchase \in [Purchases -> PurchaseRows]
        /\ left \in [RestockOrders -> Nat] /\ credited \in [RestockOrders -> Nat]
    BY <2>1 DEF RestockInit, RestockStatuses
  <2>6. QED
    BY <2>2, <2>3, <2>4, <2>5 DEF RestockTyped, RestockTypeOK, Tasks, PurchaseRows
<1>2. RestockTyped /\ [RestockNext]_restockVars => RestockTyped'
  <2> SUFFICES ASSUME RestockTyped, [RestockNext]_restockVars PROVE RestockTyped'
    OBVIOUS
  <2> DEFINE Statuses == RestockStatuses
  <2>0. /\ {"submitted", "confirmed", "rejected", "shipped", "received", "deleted"} \subseteq Statuses
        /\ AtRest \in Tasks /\ Addressed(AtRest) /\ Cases \in Nat
    BY RequestTyped, CasesAssumption DEF RestockStatuses
  <2> HIDE DEF Statuses
  <2>1. CASE UNCHANGED restockVars
    BY <2>1 DEF restockVars, RestockTyped, RestockTypeOK, Addressed
  <2>2. CASE TimePasses \/ UpdateBatch \/ CloseBatch
    <3>1. window' \in Windows /\ batchClosed' \in BOOLEAN
      BY <2>2, Rows DEF TimePasses, UpdateBatch, CloseBatch, Windows
    <3>2. UNCHANGED <<restock, shipment, purchase, hqStock, left, credited, desk>>
      BY <2>2 DEF TimePasses, UpdateBatch, CloseBatch
    <3>3. QED
      BY <3>1, <3>2 DEF RestockTyped, RestockTypeOK, Addressed
  \* Orders.
  <2>3. ASSUME NEW c \in Clerks, NEW o \in RestockOrders,
               SaveRead(c, o) \/ DeleteRead(c, o) \/ ReceiptRead(c, o) \/ AuditRead(c, o) \/ ShipRead(c, o)
        PROVE  RestockTyped'
    <3>1. PICK op \in OrderOps : Takes(c, op, o)
      BY <2>3 DEF SaveRead, DeleteRead, ReceiptRead, AuditRead, ShipRead, OrderOps
    <3>2. QED
      BY <3>1, TakenTyped, ZenonT(30)
  <2>4. ASSUME NEW c \in Clerks, SaveOrder(c) \/ AuditWrite(c), UNCHANGED <<window, batchClosed>> PROVE RestockTyped'
    <3>1. desk[c].id \in RestockOrders
      BY <2>4, Rows DEF SaveOrder, AuditWrite, Doing, Addressed, OrderOps
    <3>2. Refused(c) \/ \E status \in RestockStatuses : Moves(c, desk[c].id, status)
      BY <2>4 DEF SaveOrder, AuditWrite, RestockStatuses
    <3>3. QED
      BY <2>4, <3>1, <3>2, RefusedTyped, MovesTyped
  <2>5. ASSUME NEW c \in Clerks, DeleteOrder(c) \/ ShipOrder(c) \/ ConfirmReceipt(c), UNCHANGED <<window, batchClosed>>
        PROVE  RestockTyped'
    <3> DEFINE o == desk[c].id
    <3>1. o \in RestockOrders
      BY <2>5, Rows DEF DeleteOrder, ShipOrder, ConfirmReceipt, Doing, Addressed, OrderOps
    <3>2. CASE Refused(c)
      BY <2>5, <3>2, RefusedTyped
    <3>3. CASE DeleteOrder(c) /\ ~Refused(c)
      <4>1. /\ restock' = [restock EXCEPT ![o] = "deleted"] /\ shipment' = [shipment EXCEPT ![o] = "none"]
            /\ Done(c) /\ UNCHANGED <<purchase, hqStock, left, credited>>
        BY <3>3 DEF DeleteOrder
      <4>2. restock' \in [RestockOrders -> RestockStatuses] /\ shipment' \in [RestockOrders -> {"none", "sent", "arrived"}]
        BY <3>1, <4>1, Rows DEF RestockStatuses
      <4>3. QED
        BY <2>0, <2>5, <4>1, <4>2, Rows, DeskMoves DEF Done
    <3>4. CASE ShipOrder(c) /\ ~Refused(c)
      <4>1. /\ restock' = [restock EXCEPT ![o] = "shipped"] /\ shipment' = [shipment EXCEPT ![o] = "sent"]
            /\ hqStock' = hqStock - Cases /\ left' = [left EXCEPT ![o] = @ + 1]
            /\ Done(c) /\ UNCHANGED <<purchase, credited>>
        BY <3>4 DEF ShipOrder
      <4>2. restock' \in [RestockOrders -> RestockStatuses] /\ shipment' \in [RestockOrders -> {"none", "sent", "arrived"}]
            /\ hqStock' \in Int /\ left' \in [RestockOrders -> Nat]
        BY <2>0, <3>1, <4>1, Rows DEF RestockStatuses
      <4>3. QED
        BY <2>0, <2>5, <4>1, <4>2, Rows, DeskMoves DEF Done
    <3>5. CASE ConfirmReceipt(c) /\ ~Refused(c)
      <4>1. /\ restock' = [restock EXCEPT ![o] = "received"] /\ shipment' = [shipment EXCEPT ![o] = "arrived"]
            /\ credited' = [credited EXCEPT ![o] = @ + 1]
            /\ Done(c) /\ UNCHANGED <<purchase, hqStock, left>>
        BY <3>5 DEF ConfirmReceipt
      <4>2. restock' \in [RestockOrders -> RestockStatuses] /\ shipment' \in [RestockOrders -> {"none", "sent", "arrived"}]
            /\ credited' \in [RestockOrders -> Nat]
        BY <3>1, <4>1, Rows DEF RestockStatuses
      <4>3. QED
        BY <2>0, <2>5, <4>1, <4>2, Rows, DeskMoves DEF Done
    <3>6. QED
      BY <2>5, <3>2, <3>3, <3>4, <3>5
  \* Purchases.
  <2>6. ASSUME NEW c \in Clerks, NEW p \in Purchases, CloseRead(c, p) \/ ReopenRead(c, p) PROVE RestockTyped'
    <3>1. PICK op \in PurchaseOps : Takes(c, op, p)
      BY <2>6 DEF CloseRead, ReopenRead, PurchaseOps
    <3>2. QED
      BY <3>1, TakenTyped
  <2>7. ASSUME NEW c \in Clerks, NEW p \in Purchases, GenerateRead(c, p) PROVE RestockTyped'
    <3> DEFINE n == Cases * Cardinality(Confirmed)
    <3>1. IsFiniteSet(Confirmed)
      BY FS_Subset, OrdersFinite DEF Confirmed
    <3>2. n \in Nat
      BY <2>0, <3>1, FS_CardinalityType
    <3>3. desk' = [desk EXCEPT ![c] = [AtRest EXCEPT !.op = "generate", !.id = p, !.cases = n]]
          /\ UNCHANGED <<window, batchClosed, restock, shipment, purchase, hqStock, left, credited>>
      BY <2>7 DEF GenerateRead
    <3> HIDE DEF n
    <3>4. "generate" \in PurchaseOps
      BY DEF PurchaseOps
    <3>5. QED
      BY <3>2, <3>3, <3>4, RequestTyped, Rows, DeskMoves
  <2>8. ASSUME NEW c \in Clerks, NEW p \in Purchases, ReceiveRead(c, p) PROVE RestockTyped'
    <3>1. purchase[p].required \in Nat /\ purchase[p].received \in Nat
      BY Rows DEF PurchaseRows
    <3>2. PICK n \in 1..Shortage(p) : \E bad \in 0..n :
            desk' = [desk EXCEPT ![c] = [op |-> "receive", id |-> p, cases |-> n, bad |-> bad]]
      BY <2>8 DEF ReceiveRead
    <3>3. PICK bad \in 0..n : desk' = [desk EXCEPT ![c] = [op |-> "receive", id |-> p, cases |-> n, bad |-> bad]]
      BY <3>2
    <3>4. n \in Nat /\ bad \in Nat
      BY <3>1 DEF Shortage
    <3> DEFINE t == [op |-> "receive", id |-> p, cases |-> n, bad |-> bad]
    <3>5. t \in Tasks /\ Addressed(t)
      BY <3>4 DEF Tasks, Ops, Addressed, OrderOps, PurchaseOps
    <3>6. QED
      BY <2>8, <3>3, <3>5, Rows, DeskMoves DEF ReceiveRead
  <2>9. ASSUME NEW c \in Clerks, Generate(c) \/ Receive(c) \/ ClosePurchase(c) \/ ReopenPurchase(c),
               UNCHANGED <<window, batchClosed>>
        PROVE  RestockTyped'
    <3> DEFINE t == desk[c]
               row == purchase[t.id]
    <3>1. /\ t.id \in Purchases /\ t.cases \in Nat /\ t.bad \in Nat /\ row \in PurchaseRows
      BY <2>9, Rows DEF Generate, Receive, ClosePurchase, ReopenPurchase, Doing, Addressed, PurchaseOps, Tasks
    <3>2. CASE Refused(c)
      BY <2>9, <3>2, RefusedTyped
    <3>3. ASSUME ~Refused(c) PROVE hqStock' \in Int /\ \E new \in PurchaseRows : purchase' = [purchase EXCEPT ![t.id] = new]
      <4>1. CASE Generate(c)
        <5>1. purchase' = [purchase EXCEPT ![t.id] = [NoPurchase EXCEPT !.status = "open", !.required = t.cases]]
              /\ UNCHANGED hqStock
          BY <3>3, <4>1 DEF Generate
        <5>2. [NoPurchase EXCEPT !.status = "open", !.required = t.cases] \in PurchaseRows
          BY <3>1 DEF NoPurchase, PurchaseRows
        <5>3. QED
          BY <5>1, <5>2, Rows
      <4>2. CASE Receive(c)
        <5>1. purchase' = [purchase EXCEPT ![t.id] = [row EXCEPT !.received = @ + t.cases, !.bad = @ + t.bad]]
              /\ hqStock' = hqStock + t.cases - t.bad
          BY <3>1, <4>2, Rows DEF Receive
        <5>2. [row EXCEPT !.received = @ + t.cases, !.bad = @ + t.bad] \in PurchaseRows
          BY <3>1, BookedIn
        <5>3. hqStock' \in Int
          BY <3>1, <5>1, Rows
        <5>4. QED
          BY <5>1, <5>2, <5>3
      <4>3. CASE ClosePurchase(c) \/ ReopenPurchase(c)
        <5>1. PICK status \in {"closed", "open"} : purchase' = [purchase EXCEPT ![t.id].status = status]
          BY <4>3 DEF ClosePurchase, ReopenPurchase
        <5>2. [row EXCEPT !.status = status] \in PurchaseRows
          BY <3>1 DEF PurchaseRows
        <5>3. UNCHANGED hqStock
          BY <4>3 DEF ClosePurchase, ReopenPurchase
        <5>4. QED
          BY <5>1, <5>2, <5>3, Rows
      <4>4. QED
        BY <2>9, <4>1, <4>2, <4>3
    <3>4. CASE ~Refused(c)
      <4>1. Done(c) /\ UNCHANGED <<restock, shipment, left, credited>>
        BY <2>9, <3>4 DEF Generate, Receive, ClosePurchase, ReopenPurchase
      <4>2. purchase' \in [Purchases -> PurchaseRows]
        BY <3>3, <3>4, Rows
      <4>3. QED
        BY <2>0, <2>9, <3>3, <3>4, <4>1, <4>2, Rows, DeskMoves DEF Done
    <3>5. QED
      BY <3>2, <3>4
  <2>10. QED
    BY <2>1, <2>2, <2>3, <2>4, <2>5, <2>6, <2>7, <2>8, <2>9
       DEF RestockNext, CampusDesk, ShippingDesk, BuyingDesk, Clerks
<1>3. RestockTyped => RestockTypeOK
  BY DEF RestockTyped
<1>4. QED
  BY <1>1, <1>2, <1>3, PTL DEF RestockSpec
=============================================================================
