------------------------------- MODULE Restock -------------------------------
(***************************************************************************)
(* Restocking of the campuses (AdminService): headquarters opens a batch   *)
(* with a time window, a campus orders cases within it, headquarters       *)
(* audits the orders, buys what was confirmed, books the supplier's goods  *)
(* into its store and ships each order, and the campus confirms receipt.   *)
(* Every request checks what it read first and writes later, so two clerks *)
(* may work from the same row.  One batch and one official product; HQ's   *)
(* rows of that product (two first arrivals may create two) are summed.    *)
(***************************************************************************)
EXTENDS Integers, FiniteSets

CONSTANTS
  RestockOrders,  \* rows of RestockOrder the campus may create
  Purchases,      \* rows of PurchaseOrder
  Buyers,         \* clerks who buy and book in
  Shippers,       \* clerks who audit orders and ship
  Receivers,      \* clerks of the ordering campus
  Cases           \* cases of one order, a case being one unit

ASSUME CasesAssumption == Cases \in Nat \ {0}
ASSUME OrdersFinite == IsFiniteSet(RestockOrders)
ASSUME DesksDiffer == /\ Buyers \cap Shippers = {} /\ Buyers \cap Receivers = {}
                      /\ Shippers \cap Receivers = {}

VARIABLES
  window,       \* where now lies with respect to startAt and endAt
  batchClosed,  \* RestockBatch.closedAt is set
  restock,      \* RestockOrder.status
  shipment,     \* the order's RestockShipment
  purchase,     \* PurchaseOrder with its one line
  hqStock,      \* Product.stock of headquarters
  left,         \* how often the order's goods left headquarters
  credited,     \* how often they were added to the campus's stock
  desk          \* what each clerk's request has read

restockVars == <<window, batchClosed, restock, shipment, purchase, hqStock, left, credited, desk>>

Clerks == Buyers \cup Shippers \cup Receivers
Windows == {"upcoming", "open", "ended"}
RestockStatuses == {"none", "submitted", "confirmed", "rejected", "shipped", "received", "deleted"}
NoPurchase == [status |-> "none", required |-> 0, received |-> 0, bad |-> 0]
AtRest == [op |-> "rest", id |-> "none", cases |-> 0, bad |-> 0]
Ops == {"rest", "order", "delete", "confirm", "reject", "revoke", "generate", "receive",
        "close", "reopen", "ship", "receipt"}

RestockTypeOK ==
  /\ window \in Windows /\ batchClosed \in BOOLEAN
  /\ restock \in [RestockOrders -> RestockStatuses]
  /\ shipment \in [RestockOrders -> {"none", "sent", "arrived"}]
  /\ purchase \in [Purchases -> [status : {"none", "open", "closed"}, required : Nat,
                                 received : Nat, bad : Nat]]
  /\ hqStock \in Int
  /\ left \in [RestockOrders -> Nat] /\ credited \in [RestockOrders -> Nat]
  /\ desk \in [Clerks -> [op : Ops, id : RestockOrders \cup Purchases \cup {"none"},
                          cases : Nat, bad : Nat]]

RestockInit ==
  /\ window \in {"upcoming", "open"} /\ batchClosed = FALSE
  /\ restock = [o \in RestockOrders |-> "none"]
  /\ shipment = [o \in RestockOrders |-> "none"]
  /\ purchase = [p \in Purchases |-> NoPurchase]
  /\ hqStock = 0
  /\ left = [o \in RestockOrders |-> 0]
  /\ credited = [o \in RestockOrders |-> 0]
  /\ desk = [c \in Clerks |-> AtRest]

-----------------------------------------------------------------------------
(* A request and its two halves *)

Takes(c, op, id) == /\ desk[c].op = "rest"
                    /\ desk' = [desk EXCEPT ![c] = [AtRest EXCEPT !.op = op, !.id = id]]
                    /\ UNCHANGED <<window, batchClosed, restock, shipment, purchase,
                                   hqStock, left, credited>>
Doing(c, op) == desk[c].op = op
Done(c) == desk' = [desk EXCEPT ![c] = AtRest]
\* The write of a request throws, or its transaction is rolled back.
Refused(c) == Done(c) /\ UNCHANGED <<restock, shipment, purchase, hqStock, left, credited>>

Moves(c, o, status) == /\ restock' = [restock EXCEPT ![o] = status]
                       /\ Done(c)
                       /\ UNCHANGED <<shipment, purchase, hqStock, left, credited>>

-----------------------------------------------------------------------------
(* The batch *)

\* restockPhase: a closed batch is closed whatever the time.
BatchOpen == ~batchClosed /\ window = "open"

TimePasses ==
  /\ \/ window = "upcoming" /\ window' = "open"
     \/ window = "open" /\ window' = "ended"
  /\ UNCHANGED <<batchClosed, restock, shipment, purchase, hqStock, left, credited, desk>>

\* updateRestockBatch: a batch that has not ended may get another window.
UpdateBatch ==
  /\ ~batchClosed /\ window # "ended"
  /\ window' \in Windows
  /\ UNCHANGED <<batchClosed, restock, shipment, purchase, hqStock, left, credited, desk>>

CloseBatch ==
  /\ batchClosed' = TRUE
  /\ UNCHANGED <<window, restock, shipment, purchase, hqStock, left, credited, desk>>

-----------------------------------------------------------------------------
(* The campus orders, withdraws *)

SaveRead(c, o) == BatchOpen /\ restock[o] = "none" /\ Takes(c, "order", o)
SaveOrder(c) ==
  /\ Doing(c, "order")
  /\ IF restock[desk[c].id] = "none" THEN Moves(c, desk[c].id, "submitted") ELSE Refused(c)

DeleteRead(c, o) == restock[o] = "submitted" /\ Takes(c, "delete", o)

\* The row goes without another look at its status, and its shipment with it
\* (onDelete: Cascade).
DeleteOrder(c) ==
  LET o == desk[c].id IN
  /\ Doing(c, "delete")
  /\ IF restock[o] = "deleted" THEN Refused(c)
     ELSE /\ restock' = [restock EXCEPT ![o] = "deleted"]
          /\ shipment' = [shipment EXCEPT ![o] = "none"]
          /\ Done(c)
          /\ UNCHANGED <<purchase, hqStock, left, credited>>

-----------------------------------------------------------------------------
(* auditRestockOrder *)

Bought == \E p \in Purchases : purchase[p].status # "none"

AuditRead(c, o) ==
  \/ \E op \in {"confirm", "reject"} : restock[o] = "submitted" /\ Takes(c, op, o)
  \/ restock[o] = "confirmed" /\ ~Bought /\ Takes(c, "revoke", o)

AuditWrite(c) ==
  \E verdict \in {<<"confirm", "confirmed">>, <<"reject", "rejected">>, <<"revoke", "submitted">>} :
    /\ Doing(c, verdict[1])
    /\ IF restock[desk[c].id] = "deleted" THEN Refused(c) ELSE Moves(c, desk[c].id, verdict[2])

-----------------------------------------------------------------------------
(* Purchase orders *)

Confirmed == {o \in RestockOrders : restock[o] = "confirmed"}
AnotherOpenUnread(p) == FALSE
AnotherOpen(p) == \E q \in Purchases \ {p} : purchase[q].status = "open"

\* createPurchaseOrder: none is open, and the confirmed orders are summed.
GenerateRead(c, p) ==
  /\ desk[c].op = "rest" /\ purchase[p].status = "none"
  /\ ~AnotherOpen(p) /\ Confirmed # {}
  /\ desk' = [desk EXCEPT ![c] = [AtRest EXCEPT !.op = "generate", !.id = p,
                                                !.cases = Cases * Cardinality(Confirmed)]]
  /\ UNCHANGED <<window, batchClosed, restock, shipment, purchase, hqStock, left, credited>>

Generate(c) ==
  /\ Doing(c, "generate")
  /\ IF purchase[desk[c].id].status = "none"
       THEN /\ purchase' = [purchase EXCEPT ![desk[c].id] =
                              [NoPurchase EXCEPT !.status = "open", !.required = desk[c].cases]]
            /\ Done(c) /\ UNCHANGED <<restock, shipment, hqStock, left, credited>>
       ELSE Refused(c)

ShortageAll(p) == purchase[p].required
Shortage(p) == purchase[p].required - purchase[p].received

\* receivePurchaseOrder: not more than is still missing, bad cases among them.
ReceiveRead(c, p) ==
  /\ desk[c].op = "rest" /\ purchase[p].status = "open"
  /\ \E n \in 1..Shortage(p) : \E bad \in 0..n :
       desk' = [desk EXCEPT ![c] = [op |-> "receive", id |-> p, cases |-> n, bad |-> bad]]
  /\ UNCHANGED <<window, batchClosed, restock, shipment, purchase, hqStock, left, credited>>

Receive(c) ==
  LET t == desk[c] IN
  /\ Doing(c, "receive")
  /\ purchase' = [purchase EXCEPT ![t.id].received = @ + t.cases, ![t.id].bad = @ + t.bad]
  /\ hqStock' = hqStock + t.cases - t.bad
  /\ Done(c)
  /\ UNCHANGED <<restock, shipment, left, credited>>

CloseRead(c, p) == purchase[p].status = "open" /\ Takes(c, "close", p)
ClosePurchase(c) ==
  /\ Doing(c, "close")
  /\ purchase' = [purchase EXCEPT ![desk[c].id].status = "closed"]
  /\ Done(c) /\ UNCHANGED <<restock, shipment, hqStock, left, credited>>

ReopenRead(c, p) == purchase[p].status = "closed" /\ ~AnotherOpen(p) /\ Takes(c, "reopen", p)
ReopenPurchase(c) ==
  /\ Doing(c, "reopen")
  /\ purchase' = [purchase EXCEPT ![desk[c].id].status = "open"]
  /\ Done(c) /\ UNCHANGED <<restock, shipment, hqStock, left, credited>>

-----------------------------------------------------------------------------
(* Shipment and receipt *)

ShipRead(c, o) == restock[o] = "confirmed" /\ shipment[o] = "none" /\ Takes(c, "ship", o)

\* RestockShipment.orderId is unique; the order's status is not looked at again.
ShippableOnStatus(o) == restock[o] # "deleted"
Shippable(o) == restock[o] # "deleted" /\ shipment[o] = "none"

ShipOrder(c) ==
  LET o == desk[c].id IN
  /\ Doing(c, "ship")
  /\ IF Shippable(o)
       THEN /\ shipment' = [shipment EXCEPT ![o] = "sent"]
            /\ hqStock' = hqStock - Cases
            /\ left' = [left EXCEPT ![o] = @ + 1]
            /\ restock' = [restock EXCEPT ![o] = "shipped"]
            /\ Done(c) /\ UNCHANGED <<purchase, credited>>
       ELSE Refused(c)

ReceiptRead(c, o) == shipment[o] # "none" /\ restock[o] = "shipped" /\ Takes(c, "receipt", o)

\* All goods shipped are credited, whether or not they have been already.
ConfirmReceipt(c) ==
  LET o == desk[c].id IN
  /\ Doing(c, "receipt")
  /\ IF shipment[o] # "none"
       THEN /\ credited' = [credited EXCEPT ![o] = @ + 1]
            /\ shipment' = [shipment EXCEPT ![o] = "arrived"]
            /\ restock' = [restock EXCEPT ![o] = "received"]
            /\ Done(c) /\ UNCHANGED <<purchase, hqStock, left>>
       ELSE Refused(c)

-----------------------------------------------------------------------------

CampusDesk(c) ==
  \/ \E o \in RestockOrders : SaveRead(c, o) \/ DeleteRead(c, o) \/ ReceiptRead(c, o)
  \/ SaveOrder(c) /\ UNCHANGED <<window, batchClosed>>
  \/ DeleteOrder(c) /\ UNCHANGED <<window, batchClosed>>
  \/ ConfirmReceipt(c) /\ UNCHANGED <<window, batchClosed>>

ShippingDesk(c) ==
  \/ \E o \in RestockOrders : AuditRead(c, o) \/ ShipRead(c, o)
  \/ AuditWrite(c) /\ UNCHANGED <<window, batchClosed>>
  \/ ShipOrder(c) /\ UNCHANGED <<window, batchClosed>>

BuyingDesk(c) ==
  \/ \E p \in Purchases : GenerateRead(c, p) \/ ReceiveRead(c, p) \/ CloseRead(c, p) \/ ReopenRead(c, p)
  \/ Generate(c) /\ UNCHANGED <<window, batchClosed>>
  \/ Receive(c) /\ UNCHANGED <<window, batchClosed>>
  \/ ClosePurchase(c) /\ UNCHANGED <<window, batchClosed>>
  \/ ReopenPurchase(c) /\ UNCHANGED <<window, batchClosed>>

RestockNext ==
  \/ TimePasses \/ UpdateBatch \/ CloseBatch
  \/ \E c \in Receivers : CampusDesk(c)
  \/ \E c \in Shippers : ShippingDesk(c)
  \/ \E c \in Buyers : BuyingDesk(c)

RestockSpec == RestockInit /\ [][RestockNext]_restockVars

-----------------------------------------------------------------------------
(* Properties *)

\* The goods of one order leave headquarters at most once, however many clerks
\* ship it, revoke it or confirm it again meanwhile (shipRestockOrder).
ShippedOnce == \A o \in RestockOrders : left[o] <= 1

\* With one buyer at work a purchase order is never overfilled, and a batch has
\* no two open ones, through any sequence of closing, reopening and buying the
\* rest (receivePurchaseOrder, createPurchaseOrder, reopenPurchaseOrder).
PurchasesInOrder ==
  /\ \A p \in Purchases : purchase[p].bad <= purchase[p].received
                          /\ purchase[p].received <= purchase[p].required
  /\ \A p, q \in Purchases : purchase[p].status = "open" /\ purchase[q].status = "open" => p = q

\* A confirmed receipt credits what was shipped, in full and once
\* (confirmRestockReceipt).  Two clerks who confirm the same receipt credit it
\* twice: the status is read before the transaction and not tested in it.
\* No run checks it.
CreditedAsShipped == \A o \in RestockOrders : credited[o] <= left[o]
=============================================================================
