----------------------------- MODULE Fulfillment -----------------------------
(***************************************************************************)
(* A paid order on its way to the dormitory: the warehouse (BusinessService*)
(* outbound and advance, the auto-outbound cron), the riders and building  *)
(* managers (FulfillmentService.updateTask and scanArrive), the desk       *)
(* (AdminService.orderAction and updateOrderStatus), the customer's        *)
(* receipt with the auto-complete cron, and the commission rows written on *)
(* delivery (CommissionService.recordForDelivered).                        *)
(*                                                                         *)
(* A handler that reads the order and writes it later is two steps of a    *)
(* request.  Handlers whose conditional update tests everything they read  *)
(* are one step: they have no effect unless what they read still holds.    *)
(***************************************************************************)
EXTENDS Integers, FiniteSets

CONSTANTS Orders, Riders, Managers,
          DeskTargets,    \* the statuses that the desk is seen to choose
          Requests,       \* requests that run at once
          NoRider, NoOrder

ASSUME StaffAssumption == /\ Riders \cap Managers = {}
                          /\ NoRider \notin Riders \cup Managers /\ NoOrder \notin Orders

VARIABLES
  staffed,     \* the orders of campuses whose own staff deliver (Organization.deliveryMode)
  status,      \* Order.status
  rider,       \* Order.riderId
  route,       \* Order.package.lastMileMode, fixed at outbound
  outRows,     \* how many times the order was written to InventoryTxn as 'out'
  commission,  \* Commission rows of kind 'commission': <<order, staff>>
  deliveredAt, \* age of the timeline's last-mile node: "none", "fresh", "old" (48 h)
  movedAt,     \* age of its latest 'transferred' node, which comes after it
  request      \* what each request has read and is about to write

vars == <<staffed, status, rider, route, outRows, commission, deliveredAt, movedAt, request>>
rowVars == <<staffed, status, rider, route, outRows, commission, deliveredAt, movedAt>>

InHands == {"arrived", "first-mile", "waiting-handover", "last-mile"}
Statuses == {"paid", "picking", "waiting-first-mile"} \cup InHands
            \cup {"delivered", "completed", "cancelled", "exception"}
ASSUME DeskAssumption == DeskTargets \subseteq Statuses

Ages == {"none", "fresh", "old"}
Staff == Riders \cup Managers
Acts == {"transfer", "depart", "arrive", "delivered", "receive", "absent", "refused"}

Idle == [act |-> "idle", by |-> NoRider, order |-> NoOrder, saw |-> "paid",
         carrier |-> NoRider, to |-> "paid"]

TypeOK ==
  /\ staffed \subseteq Orders
  /\ status \in [Orders -> Statuses]
  /\ rider \in [Orders -> Riders \cup {NoRider}]
  /\ route \in [Orders -> {"none", "building-manager", "customer-pickup"}]
  /\ outRows \in [Orders -> Nat]
  /\ commission \subseteq Orders \X Staff
  /\ deliveredAt \in [Orders -> Ages] /\ movedAt \in [Orders -> Ages]
  /\ request \in [Requests -> [act : Acts \cup {"idle", "desk"}, by : Staff \cup {NoRider},
                               order : Orders \cup {NoOrder}, saw : Statuses,
                               carrier : Riders \cup {NoRider}, to : Statuses]]

Init ==
  /\ staffed \in SUBSET Orders
  /\ status = [o \in Orders |-> "paid"]
  /\ rider = [o \in Orders |-> NoRider]
  /\ route = [o \in Orders |-> "none"]
  /\ outRows = [o \in Orders |-> 0]
  /\ commission = {}
  /\ deliveredAt = [o \in Orders |-> "none"] /\ movedAt = [o \in Orders |-> "none"]
  /\ request = [q \in Requests |-> Idle]

Move(o, to) == status' = [status EXCEPT ![o] = to]

\* markTimelineStep: a node that is done keeps its time.  (A status without a
\* node of its own leaves a time on the undone last node; a delivery overwrites
\* it, and nothing reads it before.)
MarkDelivered(o, to) ==
  deliveredAt' = IF to = "delivered" /\ deliveredAt[o] = "none"
                   THEN [deliveredAt EXCEPT ![o] = "fresh"] ELSE deliveredAt

-----------------------------------------------------------------------------
(* The warehouse *)

\* outbound, by staff or by the cron: one conditional update and its records.
ShippablePicked(o) == status[o] = "picking"
ShippableAgain(o) == status[o] \in {"paid", "picking", "waiting-first-mile"}
Shippable(o) == status[o] \in {"paid", "picking"}

Outbound(o) ==
  /\ Shippable(o)
  /\ Move(o, "waiting-first-mile")
  /\ \E r \in {"building-manager", "customer-pickup"} : route' = [route EXCEPT ![o] = r]
  /\ outRows' = [outRows EXCEPT ![o] = @ + 1]
  /\ UNCHANGED <<staffed, rider, commission, deliveredAt, movedAt, request>>

\* ADVANCE_MAP, the desk's single steps; nothing is recorded of them.
Advances == {<<"paid", "picking">>, <<"picking", "waiting-first-mile">>,
             <<"waiting-first-mile", "first-mile">>, <<"first-mile", "waiting-handover">>,
             <<"waiting-handover", "last-mile">>}

Advance(o) ==
  /\ \E step \in Advances : status[o] = step[1] /\ Move(o, step[2])
  /\ UNCHANGED <<staffed, rider, route, outRows, commission, deliveredAt, movedAt, request>>

-----------------------------------------------------------------------------
(* Riders and building managers *)

\* accept and grab: the update finds the order in the pool and without a rider.
InPoolClaimed(o) == status[o] = "waiting-first-mile"
InPool(o) == status[o] = "waiting-first-mile" /\ rider[o] = NoRider

Accept(s, o) ==
  /\ o \notin staffed
  /\ InPool(o)
  /\ rider' = [rider EXCEPT ![o] = s]
  /\ UNCHANGED <<staffed, status, route, outRows, commission, deliveredAt, movedAt, request>>

ScanArrive(s, o) ==
  /\ o \notin staffed
  /\ rider[o] = s /\ status[o] = "waiting-first-mile"
  /\ Move(o, "arrived")
  /\ UNCHANGED <<staffed, rider, route, outRows, commission, deliveredAt, movedAt, request>>

MoveOf(act, from, to) == [act |-> act, from |-> from, to |-> to]

\* The maps of updateTask ("handover" only stores a photograph).
RiderMoves(o) ==
  {MoveOf("transfer", {"waiting-first-mile", "first-mile", "waiting-handover"}, "waiting-first-mile"),
   MoveOf("depart", {"waiting-first-mile", "arrived"}, "first-mile"),
   MoveOf("arrive", {"waiting-first-mile"}, "arrived"),
   MoveOf("arrive", {"first-mile"}, "waiting-handover")}
  \cup {m \in {MoveOf("delivered", {"first-mile"}, "delivered")} : route[o] = "customer-pickup"}

ManagerMoves ==
  {MoveOf("receive", {"waiting-handover", "first-mile", "last-mile"}, "last-mile"),
   MoveOf("delivered", {"last-mile"}, "delivered"),
   MoveOf("absent", {"last-mile"}, "exception"),
   MoveOf("refused", {"last-mile"}, "exception")}

\* The order as a request reads it, and what it will try to make of it.
Reads(q, act, s, o, to) ==
  request' = [request EXCEPT ![q] = [act |-> act, by |-> s, order |-> o, saw |-> status[o],
                                     carrier |-> rider[o], to |-> to]]

\* The status allows the move, and no other rider has the order.
MayMake(s, o, m) ==
  /\ status[o] \in m.from
  /\ s \in Riders => rider[o] = s \/ (rider[o] = NoRider /\ m.act # "transfer")

TaskRead(q, s, o) ==
  /\ request[q] = Idle
  /\ o \notin staffed
  /\ \E m \in IF s \in Managers THEN ManagerMoves ELSE RiderMoves(o) :
       MayMake(s, o, m) /\ Reads(q, m.act, s, o, m.to)
  /\ UNCHANGED rowVars

\* The conditions of updateTask's update: the status it read, and for riders
\* that the order is theirs.
StillMineUnheld(r) == status[r.order] = r.saw
StillMineAnyStatus(r) == r.by \in Riders => rider[r.order] = r.by
StillMine(r) == status[r.order] = r.saw /\ (r.by \in Riders => rider[r.order] = r.by)

\* recordForDelivered: the rider of the order as it was read, and the manager
\* that the building has by now.
PayeesUnfiltered(r) == {r.carrier}
PayeesActor(r) == {r.by} \cap Riders
Payees(r) == {r.carrier} \ {NoRider}

Delivers(r) ==
  IF r.to \in {"delivered", "completed"}
    THEN \E ms \in {{}} \cup {{m} : m \in Managers} :
           commission' = commission \cup ({r.order} \X (Payees(r) \cup ms))
    ELSE UNCHANGED commission

\* A transfer returns the order to the pool; its last stretch is undone.
GiveBack(o) ==
  /\ Move(o, "waiting-first-mile")
  /\ rider' = [rider EXCEPT ![o] = NoRider]
  /\ movedAt' = [movedAt EXCEPT ![o] = "fresh"]
  /\ deliveredAt' = [deliveredAt EXCEPT ![o] = "none"]
  /\ UNCHANGED commission

Carry(r) ==
  /\ Move(r.order, r.to)
  /\ MarkDelivered(r.order, r.to)
  /\ Delivers(r)
  /\ UNCHANGED <<rider, movedAt>>

\* The conditional update, and then the messages that StaffMessages models.
TaskWrite(q) ==
  LET r == request[q]
  IN /\ r.act \in Acts
     /\ request' = [request EXCEPT ![q] = Idle]
     /\ \/ ~StillMine(r) /\ UNCHANGED rowVars
        \/ /\ StillMine(r)
           /\ IF r.act = "transfer" THEN GiveBack(r.order) ELSE Carry(r)
           /\ UNCHANGED <<staffed, route, outRows>>

-----------------------------------------------------------------------------
(* The desk *)

\* mark-exception overwrites whatever status there is.
MarkException(o) ==
  /\ Move(o, "exception")
  /\ UNCHANGED <<staffed, rider, route, outRows, commission, deliveredAt, movedAt, request>>

StaffDeliver(o) ==
  /\ o \in staffed
  /\ status[o] = "waiting-first-mile"
  /\ Move(o, "first-mile")
  /\ UNCHANGED <<staffed, rider, route, outRows, commission, deliveredAt, movedAt, request>>

StaffComplete(o) ==
  /\ o \in staffed
  /\ status[o] \in {"first-mile", "last-mile"}
  /\ Move(o, "delivered")
  /\ MarkDelivered(o, "delivered")
  /\ UNCHANGED <<staffed, rider, route, outRows, commission, movedAt, request>>

\* updateOrderStatus, which reads the order and then writes on its status.
DeskRead(q, o) ==
  /\ request[q] = Idle
  /\ status[o] \notin {"cancelled", "completed"}
  /\ \E to \in DeskTargets \ {status[o]} : Reads(q, "desk", NoRider, o, to)
  /\ UNCHANGED rowVars

DeskWrite(q) ==
  LET r == request[q]
  IN /\ r.act = "desk"
     /\ request' = [request EXCEPT ![q] = Idle]
     /\ IF status[r.order] # r.saw
          THEN UNCHANGED rowVars
          ELSE /\ Move(r.order, r.to)
               /\ MarkDelivered(r.order, r.to)
               /\ Delivers(r)
               /\ UNCHANGED <<staffed, rider, route, outRows, movedAt>>

-----------------------------------------------------------------------------
(* Receipt *)

ConfirmReceipt(o) ==
  /\ status[o] = "delivered"
  /\ Move(o, "completed")
  /\ UNCHANGED <<staffed, rider, route, outRows, commission, deliveredAt, movedAt, request>>

\* deliveredTimeOf: the last node of the timeline that has a time.
LastNodeMoved(o) == movedAt[o]
LastNode(o) == IF movedAt[o] # "none" THEN movedAt[o] ELSE deliveredAt[o]

AutoComplete(o) ==
  /\ status[o] = "delivered"
  /\ LastNode(o) = "old"
  /\ Move(o, "completed")
  /\ UNCHANGED <<staffed, rider, route, outRows, commission, deliveredAt, movedAt, request>>

\* Forty-eight hours pass for a node; a transfer precedes the delivery.
Ages48h(o) ==
  /\ \/ movedAt[o] = "fresh" /\ movedAt' = [movedAt EXCEPT ![o] = "old"] /\ UNCHANGED deliveredAt
     \/ /\ movedAt[o] # "fresh" /\ deliveredAt[o] = "fresh"
        /\ deliveredAt' = [deliveredAt EXCEPT ![o] = "old"] /\ UNCHANGED movedAt
  /\ UNCHANGED <<staffed, status, rider, route, outRows, commission, request>>

-----------------------------------------------------------------------------
OrderStep(o) == \/ Outbound(o) \/ Advance(o) \/ MarkException(o)
                \/ StaffDeliver(o) \/ StaffComplete(o)
                \/ ConfirmReceipt(o) \/ AutoComplete(o) \/ Ages48h(o)
                \/ \E s \in Riders : Accept(s, o) \/ ScanArrive(s, o)

RequestStep(q) == \/ \E o \in Orders : DeskRead(q, o) \/ \E s \in Staff : TaskRead(q, s, o)
                  \/ TaskWrite(q) \/ DeskWrite(q)

Next == \/ \E o \in Orders : OrderStep(o)
        \/ \E q \in Requests : RequestStep(q)

Safety == Init /\ [][Next]_vars

\* The crons come round (auto-outbound every 30 s at the campuses that switched
\* it on, auto-complete every ten minutes), and time passes.  Nobody else is
\* obliged to do anything.
Fairness == \A o \in Orders : WF_vars(Outbound(o)) /\ WF_vars(AutoComplete(o)) /\ WF_vars(Ages48h(o))

Spec == Safety /\ Fairness

-----------------------------------------------------------------------------
(* What must hold *)

\* Whoever carried a delivered order is paid for it, also after transfers and
\* with a second request in flight: the commission is written in the delivery's
\* transaction for the rider that the same transaction has read.
CarrierIsPaid ==
  \A o \in Orders \ staffed :
    status[o] \in {"delivered", "completed"} /\ rider[o] # NoRider => <<o, rider[o]>> \in commission

\* No order pays two riders, however often it changed hands on the way.
OneRiderPaid ==
  \A o \in Orders : \A s, t \in Riders : {<<o, s>>, <<o, t>>} \subseteq commission => s = t

\* Goods are booked out of the warehouse at most once, with staff and the
\* auto-outbound cron working on the same list.
BookedOutOnce == \A o \in Orders : outRows[o] <= 1

\* An order in a rider's name stays his until he himself gives it back, and
\* moves by a rider's request only while it is in that rider's name.
CarrierKeepsOrder ==
  [][\A o \in Orders :
       /\ rider[o] # NoRider /\ rider'[o] # rider[o] =>
            /\ rider'[o] = NoRider
            /\ \E q \in Requests : request[q].act = "transfer" /\ request[q].by = rider[o]
                                   /\ request[q].order = o /\ request'[q] = Idle
       /\ \A q \in Requests :
            request[q].by \in Riders /\ request[q].order = o /\ TaskWrite(q) /\ status'[o] # status[o]
              => rider[o] = request[q].by]_vars

\* What was delivered does not go back on the road: late requests of riders
\* and managers find the status they read gone.
DeliveredStays ==
  [][\A o \in Orders : status[o] \in {"delivered", "completed"} =>
       status'[o] \in {"delivered", "completed", "exception"}
       \/ \E q \in Requests : request[q].act = "desk" /\ DeskWrite(q)]_vars

\* A paid order does not wait in the warehouse for ever ...
PaidGoesOut == \A o \in Orders : status[o] = "paid" ~> status[o] # "paid"

\* ... nor a delivered one for a receipt that the customer never gives.
DeliveredCompletes == \A o \in Orders : status[o] = "delivered" ~> status[o] # "delivered"

\* The doc of AutoCompleteService: an order is completed for the customer 48
\* hours after its delivery.
CompletesAfter48h ==
  [][\A o \in Orders : AutoComplete(o) => deliveredAt[o] = "old"]_vars
=============================================================================
