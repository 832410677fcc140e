-------------------------- MODULE Fulfillment_proofs --------------------------
(***************************************************************************)
(* Proofs about Fulfillment, for any number of orders, riders, managers    *)
(* and requests: its types, that goods are booked out once, and who has an *)
(* order and is paid for it.                                               *)
(*                                                                         *)
(* All but the types rest on what a request may still do with an order it  *)
(* read earlier (Legal): the status that it will write follows from the    *)
(* one it saw, and it writes only if the order is in that status again.    *)
(***************************************************************************)
EXTENDS Fulfillment, TLAPS

USE StaffAssumption, DeskAssumption

Request == [act : Acts \cup {"idle", "desk"}, by : Staff \cup {NoRider},
            order : Orders \cup {NoOrder}, saw : Statuses,
            carrier : Riders \cup {NoRider}, to : Statuses]

LEMMA IdleIsRequest == Idle \in Request
BY DEF Idle, Request, Statuses, Staff

\* A delivery keeps the types of the commission and of the times.
LEMMA DeliveryTypes ==
  ASSUME TypeOK, NEW r \in Request, r.order \in Orders, MarkDelivered(r.order, r.to), Delivers(r)
  PROVE  deliveredAt' \in [Orders -> Ages] /\ commission' \subseteq Orders \X Staff
<1>1. deliveredAt' \in [Orders -> Ages]
  BY DEF MarkDelivered, TypeOK, Ages
<1>2. commission' \subseteq Orders \X Staff
  <2>1. Payees(r) \subseteq Staff
    BY DEF Payees, Request, Staff
  <2>2. CASE commission' = commission
    BY <2>2 DEF TypeOK
  <2>3. ASSUME NEW ms \in {{}} \cup {{m} : m \in Managers},
               commission' = commission \cup ({r.order} \X (Payees(r) \cup ms))
        PROVE  commission' \subseteq Orders \X Staff
    <3>1. ms \subseteq Staff
      BY <2>3 DEF Staff
    <3>2. QED
      BY <2>1, <2>3, <3>1 DEF TypeOK
  <2>4. QED
    BY <2>2, <2>3 DEF Delivers
<1>3. QED
  BY <1>1, <1>2

\* A request that writes has read an order; what it read is of the right type.
ReadsAnOrder == \A q \in Requests : request[q].act # "idle" => request[q].order \in Orders

Typed == TypeOK /\ ReadsAnOrder

LEMMA ReadsTypes ==
  ASSUME Typed, NEW q \in Requests, NEW act \in Acts \cup {"desk"}, NEW s \in Staff \cup {NoRider},
         NEW o \in Orders, NEW to \in Statuses, Reads(q, act, s, o, to), UNCHANGED rowVars
  PROVE  Typed'
<1>1. [act |-> act, by |-> s, order |-> o, saw |-> status[o], carrier |-> rider[o], to |-> to] \in Request
  BY DEF Typed, TypeOK, Request
<1>2. request' \in [Requests -> Request]
  BY <1>1 DEF Typed, TypeOK, Reads, Request
<1>3. ReadsAnOrder'
  BY DEF Typed, TypeOK, ReadsAnOrder, Reads
<1>4. QED
  BY <1>2, <1>3 DEF Typed, TypeOK, Request, rowVars

\* Requests end as they began.
LEMMA EndTypes ==
  ASSUME Typed, NEW q \in Requests, request' = [request EXCEPT ![q] = Idle]
  PROVE  request' \in [Requests -> Request] /\ ReadsAnOrder'
<1>1. request' \in [Requests -> Request]
  BY IdleIsRequest DEF Typed, TypeOK, Request
<1>2. ReadsAnOrder'
  BY DEF Typed, TypeOK, ReadsAnOrder, Idle
<1>3. QED
  BY <1>1, <1>2

\* Every step keeps the types.
LEMMA TypedSteps == Typed /\ [Next]_vars => Typed'
<1> SUFFICES ASSUME Typed, [Next]_vars PROVE Typed'
  OBVIOUS
<1> USE DEF Typed
<1>1. CASE UNCHANGED vars
  BY <1>1 DEF vars, TypeOK, ReadsAnOrder
<1>2. ASSUME NEW o \in Orders, OrderStep(o) PROVE Typed'
  <2>1. ReadsAnOrder' /\ UNCHANGED <<staffed, commission, request>>
    BY <1>2 DEF OrderStep, Outbound, Advance, MarkException, StaffDeliver, StaffComplete,
       ConfirmReceipt, AutoComplete, Ages48h, Accept, ScanArrive, ReadsAnOrder
  <2>2. status' \in [Orders -> Statuses]
    BY <1>2 DEF OrderStep, Outbound, Advance, Advances, MarkException, StaffDeliver, StaffComplete,
       ConfirmReceipt, AutoComplete, Ages48h, Accept, ScanArrive, Move, TypeOK, Statuses, InHands
  <2>3. rider' \in [Orders -> Riders \cup {NoRider}]
    BY <1>2 DEF OrderStep, Outbound, Advance, MarkException, StaffDeliver, StaffComplete,
       ConfirmReceipt, AutoComplete, Ages48h, Accept, ScanArrive, TypeOK
  <2>4. /\ route' \in [Orders -> {"none", "building-manager", "customer-pickup"}]
        /\ outRows' \in [Orders -> Nat]
    BY <1>2 DEF OrderStep, Outbound, Advance, MarkException, StaffDeliver, StaffComplete,
       ConfirmReceipt, AutoComplete, Ages48h, Accept, ScanArrive, TypeOK
  <2>5. deliveredAt' \in [Orders -> Ages] /\ movedAt' \in [Orders -> Ages]
    BY <1>2 DEF OrderStep, Outbound, Advance, MarkException, StaffDeliver, StaffComplete,
       ConfirmReceipt, AutoComplete, Ages48h, Accept, ScanArrive, MarkDelivered, TypeOK, Ages
  <2>6. QED
    BY <2>1, <2>2, <2>3, <2>4, <2>5 DEF TypeOK
<1>3. ASSUME NEW q \in Requests, RequestStep(q) PROVE Typed'
  <2>1. ASSUME NEW o \in Orders, DeskRead(q, o) PROVE Typed'
    BY <2>1, ReadsTypes DEF DeskRead
  <2>2. ASSUME NEW o \in Orders, NEW s \in Staff, TaskRead(q, s, o) PROVE Typed'
    <3>1. PICK m \in IF s \in Managers THEN ManagerMoves ELSE RiderMoves(o) :
            Reads(q, m.act, s, o, m.to)
      BY <2>2 DEF TaskRead
    <3>2. m.act \in Acts /\ m.to \in Statuses
      BY DEF ManagerMoves, RiderMoves, MoveOf, Acts, Statuses, InHands
    <3>3. QED
      BY <2>2, <3>1, <3>2, ReadsTypes DEF TaskRead
  <2>3. CASE TaskWrite(q)
    <3> DEFINE r == request[q]
    <3>1. r \in Request /\ r.order \in Orders
      BY <2>3 DEF TaskWrite, TypeOK, ReadsAnOrder, Request, Acts
    <3>2. request' \in [Requests -> Request] /\ ReadsAnOrder'
      BY <2>3, EndTypes DEF TaskWrite
    <3>3. CASE UNCHANGED rowVars
      BY <3>2, <3>3 DEF TypeOK, Request, rowVars
    <3>4. CASE GiveBack(r.order) /\ UNCHANGED <<staffed, route, outRows>>
      BY <3>1, <3>2, <3>4 DEF GiveBack, Move, TypeOK, Request, Statuses, Ages
    <3>5. CASE Carry(r) /\ UNCHANGED <<staffed, route, outRows>>
      <4>1. status' \in [Orders -> Statuses]
        BY <3>1, <3>5 DEF Carry, Move, TypeOK, Request
      <4>2. deliveredAt' \in [Orders -> Ages] /\ commission' \subseteq Orders \X Staff
        BY <3>1, <3>5, DeliveryTypes DEF Carry
      <4>3. QED
        BY <3>2, <3>5, <4>1, <4>2 DEF Carry, TypeOK, Request
    <3>6. QED
      BY <2>3, <3>3, <3>4, <3>5 DEF TaskWrite
  <2>4. CASE DeskWrite(q)
    <3> DEFINE r == request[q]
    <3>1. r \in Request /\ r.order \in Orders
      BY <2>4 DEF DeskWrite, TypeOK, ReadsAnOrder, Request
    <3>2. request' \in [Requests -> Request] /\ ReadsAnOrder'
      BY <2>4, EndTypes DEF DeskWrite
    <3>3. CASE UNCHANGED rowVars
      BY <3>2, <3>3 DEF TypeOK, Request, rowVars
    <3>4. CASE /\ Move(r.order, r.to) /\ MarkDelivered(r.order, r.to) /\ Delivers(r)
               /\ UNCHANGED <<staffed, rider, route, outRows, movedAt>>
      <4>1. status' \in [Orders -> Statuses]
        BY <3>1, <3>4 DEF Move, TypeOK, Request
      <4>2. deliveredAt' \in [Orders -> Ages] /\ commission' \subseteq Orders \X Staff
        BY <3>1, <3>4, DeliveryTypes
      <4>3. QED
        BY <3>2, <3>4, <4>1, <4>2 DEF TypeOK, Request
    <3>5. QED
      BY <2>4, <3>3, <3>4 DEF DeskWrite
  <2>5. QED
    BY <1>3, <2>1, <2>2, <2>3, <2>4 DEF RequestStep
<1>4. QED
  BY <1>1, <1>2, <1>3 DEF Next

\* Every variable keeps its type.
THEOREM TypesHold == Safety => []TypeOK
<1>1. Init => Typed
  BY IdleIsRequest DEF Init, Typed, TypeOK, ReadsAnOrder, Idle, Request, Statuses, Ages
<1>2. Typed /\ [Next]_vars => Typed'
  BY TypedSteps
<1>3. Typed => TypeOK
  BY DEF Typed
<1>4. QED
  BY <1>1, <1>2, <1>3, PTL DEF Safety

-----------------------------------------------------------------------------
(* What a request under way may do *)

OnTheRoad == {"waiting-first-mile"} \cup InHands
Over == {"delivered", "completed", "exception", "cancelled"}

Legal(r) ==
  r.act \in Acts =>
    /\ r.by \in Staff /\ r.saw \in OnTheRoad
    /\ r.act = "transfer" <=> r.to = "waiting-first-mile"
    /\ r.act = "transfer" => r.by \in Riders /\ r.saw # "last-mile"
    /\ r.to \in OnTheRoad \cup {"delivered", "exception"}
    /\ r.to = "arrived" => r.saw = "waiting-first-mile"
    /\ r.to = "first-mile" => r.saw \in {"waiting-first-mile", "arrived"}
    /\ r.saw = "last-mile" => r.to \in {"last-mile", "delivered", "exception"}
    /\ r.to = "delivered" => \/ r.by \in Riders /\ r.saw = "first-mile" /\ r.carrier \in {r.by, NoRider}
                             \/ r.by \in Managers /\ r.saw = "last-mile"

Lawful == Typed /\ \A q \in Requests : Legal(request[q])

\* Whatever updateTask lets a member of staff do with the order it has read.
LEMMA MovesAreLegal ==
  ASSUME Typed, NEW s \in Staff, NEW o \in Orders,
         NEW m \in IF s \in Managers THEN ManagerMoves ELSE RiderMoves(o), MayMake(s, o, m),
         NEW r, r = [act |-> m.act, by |-> s, order |-> o, saw |-> status[o], carrier |-> rider[o], to |-> m.to]
  PROVE  Legal(r)
<1>1. CASE s \in Managers
  BY <1>1 DEF MayMake, ManagerMoves, MoveOf, Legal, OnTheRoad, InHands, Acts, Staff
<1>2. CASE s \notin Managers
  <2>1. s \in Riders /\ m \in RiderMoves(o)
    BY <1>2 DEF Staff
  <2>2. QED
    BY <2>1, <1>2 DEF MayMake, RiderMoves, MoveOf, Legal, OnTheRoad, InHands, Acts, Staff
<1>3. QED
  BY <1>1, <1>2


LEMMA LawfulSteps == Lawful /\ [Next]_vars => Lawful'
<1> SUFFICES ASSUME Lawful, [Next]_vars PROVE Lawful'
  OBVIOUS
<1>1. Typed'
  BY TypedSteps DEF Lawful
<1>2. CASE UNCHANGED request
  BY <1>1, <1>2 DEF Lawful
<1>3. ASSUME NEW q \in Requests, NEW r, Legal(r), request' = [request EXCEPT ![q] = r]
      PROVE  Lawful'
  BY <1>1, <1>3 DEF Lawful, Typed, TypeOK
<1>4. ASSUME NEW q \in Requests, RequestStep(q) PROVE Lawful'
  <2>1. ASSUME NEW o \in Orders, DeskRead(q, o) PROVE Lawful'
    <3>1. PICK r : r.act = "desk" /\ request' = [request EXCEPT ![q] = r]
      BY <2>1 DEF DeskRead, Reads
    <3>2. Legal(r)
      BY <3>1 DEF Legal, Acts
    <3>3. QED
      BY <3>1, <3>2, <1>3
  <2>2. ASSUME NEW o \in Orders, NEW s \in Staff, TaskRead(q, s, o) PROVE Lawful'
    <3>1. PICK m \in IF s \in Managers THEN ManagerMoves ELSE RiderMoves(o) :
            MayMake(s, o, m) /\ Reads(q, m.act, s, o, m.to)
      BY <2>2 DEF TaskRead
    <3>2. PICK r : /\ r = [act |-> m.act, by |-> s, order |-> o, saw |-> status[o],
                           carrier |-> rider[o], to |-> m.to]
                   /\ request' = [request EXCEPT ![q] = r]
      BY <3>1 DEF Reads
    <3>3. Legal(r)
      BY <3>1, <3>2, MovesAreLegal DEF Lawful
    <3>4. QED
      BY <3>2, <3>3, <1>3
  <2>3. CASE TaskWrite(q) \/ DeskWrite(q)
    <3>1. Legal(Idle)
      BY DEF Legal, Idle, Acts
    <3>2. QED
      BY <2>3, <3>1, <1>3 DEF TaskWrite, DeskWrite
  <2>4. QED
    BY <1>4, <2>1, <2>2, <2>3 DEF RequestStep
<1>5. ASSUME NEW o \in Orders, OrderStep(o) PROVE UNCHANGED request
  BY <1>5 DEF OrderStep, Outbound, Advance, MarkException, StaffDeliver, StaffComplete,
     ConfirmReceipt, AutoComplete, Ages48h, Accept, ScanArrive
<1>6. QED
  BY <1>2, <1>4, <1>5 DEF Next, vars

LEMMA StartsLawful == Init => Lawful
<1>1. Init => Typed
  BY IdleIsRequest DEF Init, Typed, TypeOK, ReadsAnOrder, Idle, Request, Statuses, Ages
<1>2. Init => \A q \in Requests : Legal(request[q])
  BY DEF Init, Idle, Legal, Acts
<1>3. QED
  BY <1>1, <1>2 DEF Lawful

\* The types and the lawful requests, as a fact of every reachable state.
LEMMA AlwaysLawful == Safety => []Lawful
BY StartsLawful, LawfulSteps, PTL DEF Safety

-----------------------------------------------------------------------------
(* The warehouse *)

\* What is still to be booked out has not been.
Booked == /\ Lawful
          /\ \A o \in Orders : outRows[o] <= 1
          /\ \A o \in Orders : status[o] \in {"paid", "picking"} => outRows[o] = 0
          /\ \A q \in Requests : request[q].act # "idle" => request[q].to \notin {"paid", "picking"}

\* Goods leave the warehouse once, unless the desk sets an order back into it.
THEOREM GoodsLeaveOnce ==
  DeskTargets \cap {"paid", "picking"} = {} => (Safety => []BookedOutOnce)
<1> SUFFICES ASSUME DeskTargets \cap {"paid", "picking"} = {} PROVE Safety => []BookedOutOnce
  OBVIOUS
<1>1. Init => Booked
  BY StartsLawful DEF Init, Booked, Idle
<1>2. Booked /\ [Next]_vars => Booked'
  <2> SUFFICES ASSUME Booked, [Next]_vars PROVE Booked'
    OBVIOUS
  <2>1. Lawful'
    BY LawfulSteps DEF Booked
  <2>2. CASE UNCHANGED vars
    BY <2>1, <2>2 DEF Booked, vars
  <2>3. ASSUME NEW o \in Orders, OrderStep(o) PROVE Booked'
    <3>1. CASE Outbound(o)
      BY <2>1, <3>1 DEF Outbound, Shippable, Move, Booked, Lawful, Typed, TypeOK
    <3>2. CASE ~Outbound(o)
      <4>1. UNCHANGED <<outRows, request>>
        BY <2>3, <3>2 DEF OrderStep, Advance, MarkException, StaffDeliver, StaffComplete,
           ConfirmReceipt, AutoComplete, Ages48h, Accept, ScanArrive
      <4>2. \A p \in Orders : status'[p] \in {"paid", "picking"} => status[p] \in {"paid", "picking"}
        BY <2>3, <3>2 DEF OrderStep, Advance, Advances, MarkException, StaffDeliver, StaffComplete,
           ConfirmReceipt, AutoComplete, Ages48h, Accept, ScanArrive, Move, Booked, Lawful, Typed, TypeOK
      <4>3. QED
        BY <2>1, <4>1, <4>2 DEF Booked
    <3>3. QED
      BY <3>1, <3>2
  <2>4. ASSUME NEW q \in Requests, RequestStep(q) PROVE Booked'
    <3>1. ASSUME NEW o \in Orders, DeskRead(q, o) PROVE Booked'
      <4>1. \A p \in Requests : request'[p].act # "idle" => request'[p].to \notin {"paid", "picking"}
        BY <3>1 DEF DeskRead, Reads, Booked, Lawful, Typed, TypeOK
      <4>2. QED
        BY <2>1, <3>1, <4>1 DEF DeskRead, rowVars, Booked
    <3>2. ASSUME NEW o \in Orders, NEW s \in Staff, TaskRead(q, s, o) PROVE Booked'
      <4>1. PICK m \in IF s \in Managers THEN ManagerMoves ELSE RiderMoves(o) :
              Reads(q, m.act, s, o, m.to)
        BY <3>2 DEF TaskRead
      <4>2. m.to \notin {"paid", "picking"}
        BY DEF ManagerMoves, RiderMoves, MoveOf
      <4>3. \A p \in Requests : request'[p].act # "idle" => request'[p].to \notin {"paid", "picking"}
        BY <4>1, <4>2 DEF Reads, Booked, Lawful, Typed, TypeOK
      <4>4. QED
        BY <2>1, <3>2, <4>3 DEF TaskRead, rowVars, Booked
    <3>3. CASE TaskWrite(q) \/ DeskWrite(q)
      <4>1. /\ outRows' = outRows
            /\ \A p \in Requests : request'[p].act # "idle" => request'[p].to \notin {"paid", "picking"}
        BY <3>3 DEF TaskWrite, DeskWrite, rowVars, Idle, Booked, Lawful, Typed, TypeOK
      <4>2. request[q].to \notin {"paid", "picking"}
        BY <3>3 DEF TaskWrite, DeskWrite, Booked, Acts
      <4>3. \A p \in Orders : status'[p] \in {"paid", "picking"} => status[p] \in {"paid", "picking"}
        BY <3>3, <4>2 DEF TaskWrite, DeskWrite, GiveBack, Carry, Move, rowVars,
           Booked, Lawful, Typed, TypeOK
      <4>4. QED
        BY <2>1, <4>1, <4>3 DEF Booked
    <3>4. QED
      BY <2>4, <3>1, <3>2, <3>3 DEF RequestStep
  <2>5. QED
    BY <2>2, <2>3, <2>4 DEF Next
<1>3. Booked => BookedOutOnce
  BY DEF Booked, BookedOutOnce
<1>4. QED
  BY <1>1, <1>2, <1>3, PTL DEF Safety

-----------------------------------------------------------------------------
(* Who has the order *)

\* A late request does not put a delivered order back on the road.
THEOREM DeliveredOrdersStay == Safety => DeliveredStays
<1>1. Lawful /\ [Next]_vars =>
        [\A o \in Orders : status[o] \in {"delivered", "completed"} =>
           status'[o] \in {"delivered", "completed", "exception"}
           \/ \E q \in Requests : request[q].act = "desk" /\ DeskWrite(q)]_vars
  <2> SUFFICES ASSUME Lawful, Next, NEW o \in Orders, status[o] \in {"delivered", "completed"},
                      ~\E q \in Requests : request[q].act = "desk" /\ DeskWrite(q)
               PROVE  status'[o] \in {"delivered", "completed", "exception"}
    OBVIOUS
  <2>1. ASSUME NEW p \in Orders, OrderStep(p)
        PROVE  status'[o] \in {"delivered", "completed", "exception"}
    BY <2>1 DEF OrderStep, Outbound, Shippable, Advance, Advances, MarkException, StaffDeliver,
       StaffComplete, ConfirmReceipt, AutoComplete, Ages48h, Accept, ScanArrive, Move,
       Lawful, Typed, TypeOK
  <2>2. ASSUME NEW q \in Requests, RequestStep(q) PROVE status'[o] = status[o]
    <3>1. CASE TaskWrite(q)
      <4>1. request[q].saw \in OnTheRoad
        BY <3>1 DEF TaskWrite, Lawful, Legal
      <4>2. QED
        BY <3>1, <4>1 DEF TaskWrite, StillMine, GiveBack, Carry, Move, rowVars, OnTheRoad, InHands,
           Lawful, Typed, TypeOK
    <3>2. CASE ~TaskWrite(q)
      BY <2>2, <3>2 DEF RequestStep, DeskRead, TaskRead, DeskWrite, rowVars
    <3>3. QED
      BY <3>1, <3>2
  <2>3. QED
    BY <2>1, <2>2 DEF Next
<1>2. QED
  BY <1>1, AlwaysLawful, PTL DEF Safety, DeliveredStays

\* An order leaves a rider's name, and moves by a rider's request, only by his own.
THEOREM CarriersKeepOrders == Safety => CarrierKeepsOrder
<1>1. Lawful /\ [Next]_vars =>
        [\A o \in Orders :
           /\ rider[o] # NoRider /\ rider'[o] # rider[o] =>
                /\ rider'[o] = NoRider
                /\ \E q \in Requests : request[q].act = "transfer" /\ request[q].by = rider[o]
                                       /\ request[q].order = o /\ request'[q] = Idle
           /\ \A q \in Requests :
                request[q].by \in Riders /\ request[q].order = o /\ TaskWrite(q) /\ status'[o] # status[o]
                  => rider[o] = request[q].by]_vars
  <2> SUFFICES ASSUME Lawful, Next, NEW o \in Orders
               PROVE /\ rider[o] # NoRider /\ rider'[o] # rider[o] =>
                          /\ rider'[o] = NoRider
                          /\ \E q \in Requests : request[q].act = "transfer" /\ request[q].by = rider[o]
                                                 /\ request[q].order = o /\ request'[q] = Idle
                     /\ \A q \in Requests :
                          request[q].by \in Riders /\ request[q].order = o /\ TaskWrite(q)
                          /\ status'[o] # status[o] => rider[o] = request[q].by
    OBVIOUS
  <2>1. ASSUME NEW q \in Requests, request[q].by \in Riders, request[q].order = o, TaskWrite(q),
               status'[o] # status[o]
        PROVE  rider[o] = request[q].by
    BY <2>1 DEF TaskWrite, StillMine, rowVars
  <2>2. ASSUME rider[o] # NoRider, rider'[o] # rider[o]
        PROVE  /\ rider'[o] = NoRider
               /\ \E q \in Requests : request[q].act = "transfer" /\ request[q].by = rider[o]
                                      /\ request[q].order = o /\ request'[q] = Idle
    <3>1. ~\E p \in Orders : OrderStep(p)
      BY <2>2 DEF OrderStep, Outbound, Advance, MarkException, StaffDeliver, StaffComplete,
         ConfirmReceipt, AutoComplete, Ages48h, Accept, InPool, ScanArrive, Lawful, Typed, TypeOK
    <3>2. PICK q \in Requests : RequestStep(q)
      BY <3>1 DEF Next
    <3>3. TaskWrite(q) /\ ~UNCHANGED rider
      BY <2>2, <3>2 DEF RequestStep, DeskRead, TaskRead, DeskWrite, rowVars
    <3>4. /\ request[q].act = "transfer" /\ StillMine(request[q])
          /\ rider' = [rider EXCEPT ![request[q].order] = NoRider]
      BY <3>3 DEF TaskWrite, GiveBack, Carry, rowVars
    <3>5. request[q].by \in Riders
      BY <3>4 DEF Lawful, Legal, Acts
    <3>6. request[q].order = o /\ rider'[o] = NoRider
      BY <2>2, <3>4 DEF Lawful, Typed, TypeOK
    <3>7. request'[q] = Idle
      BY <3>3 DEF TaskWrite, Lawful, Typed, TypeOK
    <3>8. QED
      BY <3>4, <3>5, <3>6, <3>7 DEF StillMine
  <2>3. QED
    BY <2>1, <2>2
<1>2. QED
  BY <1>1, AlwaysLawful, PTL DEF Safety, CarrierKeepsOrder

-----------------------------------------------------------------------------
(* Who is paid *)

\* The desk ends orders and does nothing else with them.
DeskEndsOnly == DeskTargets \subseteq {"exception", "cancelled"}

\* What follows the first mile as long as nobody gives the order back.
Onward == {"first-mile", "waiting-handover", "last-mile"} \cup Over

\* An order's rider is settled from the last stretch on, and once it was
\* carried without one.
Settled(o) == status[o] \in {"last-mile"} \cup Over \/ (status[o] \in Onward /\ rider[o] = NoRider)

\* The rider whom a delivery under way will pay is the one who has the order,
\* if the delivery still finds the order as it read it.
WillPayCarrier(r) ==
  /\ r.act = "desk" => r.to \in {"exception", "cancelled"}
  /\ r.act \in Acts /\ r.to = "delivered" /\ (r.by \in Managers \/ r.carrier = NoRider)
       => Settled(r.order) /\ rider[r.order] = r.carrier

PaidRiders == \A o \in Orders : \A s \in Riders :
                <<o, s>> \in commission => status[o] \in Over /\ rider[o] = s

Custody == Lawful /\ CarrierIsPaid /\ PaidRiders /\ \A q \in Requests : WillPayCarrier(request[q])

\* Settled orders stay settled with the same rider, ended ones ended, in a step
\* that is no write of the desk's.
LEMMA SettledStays ==
  ASSUME Custody, DeskEndsOnly, [Next]_vars, NEW o \in Orders
  PROVE  /\ Settled(o) => Settled(o)' /\ rider'[o] = rider[o]
         /\ status[o] \in Over => status'[o] \in Over /\ rider'[o] = rider[o]
<1>1. CASE UNCHANGED vars
  BY <1>1 DEF vars, Settled
<1>2. ASSUME NEW p \in Orders, OrderStep(p) PROVE
         /\ Settled(o) => Settled(o)' /\ rider'[o] = rider[o]
         /\ status[o] \in Over => status'[o] \in Over /\ rider'[o] = rider[o]
  BY <1>2 DEF OrderStep, Outbound, Shippable, Advance, Advances, MarkException, StaffDeliver,
     StaffComplete, ConfirmReceipt, AutoComplete, Ages48h, Accept, InPool, ScanArrive, Move,
     Custody, Lawful, Typed, TypeOK, Settled, Onward, Over
<1>3. ASSUME NEW q \in Requests, RequestStep(q) PROVE
         /\ Settled(o) => Settled(o)' /\ rider'[o] = rider[o]
         /\ status[o] \in Over => status'[o] \in Over /\ rider'[o] = rider[o]
  <2>1. CASE UNCHANGED rowVars
    BY <2>1 DEF rowVars, Settled
  <2> DEFINE r == request[q]
  <2>2. CASE DeskWrite(q) /\ ~UNCHANGED rowVars
    <3>1. r.to \in {"exception", "cancelled"} /\ r.order \in Orders
      BY <2>2 DEF DeskWrite, Custody, WillPayCarrier, Lawful, Typed, ReadsAnOrder
    <3>2. QED
      BY <2>2, <3>1 DEF DeskWrite, Move, Custody, Lawful, Typed, TypeOK, Settled, Onward, Over
  <2>3. CASE TaskWrite(q) /\ ~UNCHANGED rowVars
    <3>1. StillMine(r) /\ r.act \in Acts /\ r.order \in Orders /\ Legal(r)
      BY <2>3 DEF TaskWrite, Custody, Lawful, Typed, ReadsAnOrder, Acts
    <3>2. CASE r.act = "transfer"
      <4>1. r.by \in Riders /\ rider[r.order] = r.by /\ status[r.order] = r.saw
            /\ r.saw \in OnTheRoad \ {"last-mile"}
        BY <3>1, <3>2 DEF Legal, StillMine
      <4>2. r.by # NoRider
        BY <4>1
      <4>3. GiveBack(r.order)
        BY <2>3, <3>2 DEF TaskWrite
      <4>4. QED
        BY <3>1, <4>1, <4>2, <4>3 DEF GiveBack, Move, Custody, Lawful, Typed, TypeOK,
           Settled, Onward, Over, OnTheRoad, InHands
    <3>3. CASE r.act # "transfer"
      <4>1. Carry(r) /\ status[r.order] = r.saw
        BY <2>3, <3>1, <3>3 DEF TaskWrite, StillMine
      <4>2. r.saw \in OnTheRoad /\ r.to \in (OnTheRoad \ {"waiting-first-mile"}) \cup {"delivered", "exception"}
        BY <3>1, <3>3 DEF Legal
      <4>3. /\ r.to = "arrived" => r.saw = "waiting-first-mile"
            /\ r.to = "first-mile" => r.saw \in {"waiting-first-mile", "arrived"}
            /\ r.saw = "last-mile" => r.to \in {"last-mile", "delivered", "exception"}
        BY <3>1 DEF Legal
      <4>4. QED
        BY <3>1, <4>1, <4>2, <4>3 DEF Carry, Move, Custody, Lawful, Typed, TypeOK,
           Settled, Onward, Over, OnTheRoad, InHands
    <3>4. QED
      BY <3>2, <3>3
  <2>4. QED
    BY <1>3, <2>1, <2>2, <2>3 DEF RequestStep, DeskRead, TaskRead
<1>4. QED
  BY <1>1, <1>2, <1>3 DEF Next

\* A delivery finds the order with the rider it read.
LEMMA DeliveryPaysCarrier ==
  ASSUME Custody, NEW q \in Requests, TaskWrite(q), StillMine(request[q]), request[q].to = "delivered"
  PROVE  rider[request[q].order] = request[q].carrier
<1> DEFINE r == request[q]
<1>1. r.act \in Acts /\ Legal(r) /\ WillPayCarrier(r)
  BY DEF TaskWrite, Custody, Lawful
<1>2. CASE r.by \in Managers \/ r.carrier = NoRider
  BY <1>1, <1>2 DEF WillPayCarrier
<1>3. CASE r.by \in Riders /\ r.carrier = r.by
  BY <1>3 DEF StillMine
<1>4. QED
  BY <1>1, <1>2, <1>3 DEF Legal

\* What a step adds to the commissions: those of one delivery, to its rider and
\* a manager.
LEMMA NewCommissions ==
  ASSUME Custody, DeskEndsOnly, [Next]_vars, NEW o \in Orders
  PROVE  /\ commission \subseteq commission'
         /\ staffed' = staffed
         /\ \A s \in Riders : <<o, s>> \in commission' /\ <<o, s>> \notin commission =>
              status'[o] = "delivered" /\ rider'[o] = s
         /\ o \notin staffed /\ status'[o] \in {"delivered", "completed"}
            /\ status[o] \notin {"delivered", "completed"} /\ rider'[o] # NoRider
              => <<o, rider'[o]>> \in commission'
<1>1. CASE UNCHANGED vars
  BY <1>1 DEF vars
<1>2. ASSUME NEW p \in Orders, OrderStep(p)
      PROVE  /\ commission' = commission /\ staffed' = staffed
             /\ o \notin staffed /\ status'[o] \in {"delivered", "completed"}
                => status[o] \in {"delivered", "completed"}
  BY <1>2 DEF OrderStep, Outbound, Advance, Advances, MarkException, StaffDeliver,
     StaffComplete, ConfirmReceipt, AutoComplete, Ages48h, Accept, ScanArrive, Move,
     Custody, Lawful, Typed, TypeOK
<1>3. ASSUME NEW q \in Requests, DeskWrite(q)
      PROVE  /\ commission' = commission /\ staffed' = staffed
             /\ status'[o] \in {"delivered", "completed"} => status[o] \in {"delivered", "completed"}
  <2>1. request[q].to \in {"exception", "cancelled"}
    BY <1>3 DEF DeskWrite, Custody, WillPayCarrier
  <2>2. QED
    BY <1>3, <2>1 DEF DeskWrite, Delivers, Move, rowVars, Custody, Lawful, Typed, TypeOK
<1>4. ASSUME NEW q \in Requests, TaskWrite(q), ~UNCHANGED rowVars, request[q].to = "delivered"
      PROVE  /\ commission \subseteq commission' /\ staffed' = staffed
             /\ \A s \in Riders : <<o, s>> \in commission' /\ <<o, s>> \notin commission =>
                  status'[o] = "delivered" /\ rider'[o] = s
             /\ status'[o] # status[o] /\ rider'[o] # NoRider => <<o, rider'[o]>> \in commission'
  <2> DEFINE r == request[q]
  <2>1. StillMine(r) /\ r.act \in Acts /\ r.order \in Orders /\ Legal(r)
    BY <1>4 DEF TaskWrite, Custody, Lawful, Typed, ReadsAnOrder, Acts
  <2>2. Carry(r) /\ staffed' = staffed
    BY <1>4, <2>1 DEF TaskWrite, Legal
  <2>3. rider[r.order] = r.carrier
    BY <1>4, <2>1, DeliveryPaysCarrier
  <2>4. PICK ms \in {{}} \cup {{m} : m \in Managers} :
          commission' = commission \cup ({r.order} \X (Payees(r) \cup ms))
    BY <1>4, <2>2 DEF Carry, Delivers
  <2>5. ms \cap Riders = {}
    BY <2>4
  <2>6. /\ rider' = rider /\ status'[r.order] = "delivered"
        /\ \A p \in Orders \ {r.order} : status'[p] = status[p]
    BY <1>4, <2>1, <2>2 DEF Carry, Move, Custody, Lawful, Typed, TypeOK
  <2>7. \A s \in Riders : <<o, s>> \in commission' /\ <<o, s>> \notin commission =>
          o = r.order /\ s = r.carrier
    BY <2>4, <2>5 DEF Payees
  <2>8. r.carrier # NoRider => <<r.order, r.carrier>> \in commission'
    BY <2>4 DEF Payees
  <2>9. QED
    BY <2>2, <2>3, <2>4, <2>6, <2>7, <2>8
<1>5. ASSUME NEW q \in Requests, TaskWrite(q), request[q].to # "delivered" \/ UNCHANGED rowVars
      PROVE  /\ commission' = commission /\ staffed' = staffed
             /\ status'[o] \in {"delivered", "completed"} => status[o] \in {"delivered", "completed"}
  <2>1. CASE UNCHANGED rowVars
    BY <2>1 DEF rowVars
  <2>2. CASE ~UNCHANGED rowVars
    <3>1. request[q].to \notin {"delivered", "completed"}
      BY <1>5, <2>2 DEF TaskWrite, Custody, Lawful, Legal, OnTheRoad, InHands
    <3>2. QED
      BY <1>5, <2>2, <3>1 DEF TaskWrite, GiveBack, Carry, Delivers, Move, Custody, Lawful, Typed, TypeOK
  <2>3. QED
    BY <2>1, <2>2
<1>6. ASSUME NEW q \in Requests, NEW p \in Orders,
             DeskRead(q, p) \/ \E s \in Staff : TaskRead(q, s, p)
      PROVE  UNCHANGED rowVars
  BY <1>6 DEF DeskRead, TaskRead
<1>7. CASE \E q \in Requests : TaskWrite(q)
  <2>1. PICK q \in Requests : TaskWrite(q)
    BY <1>7
  <2>2. CASE request[q].to = "delivered" /\ ~UNCHANGED rowVars
    BY <1>4, <2>1, <2>2
  <2>3. CASE ~(request[q].to = "delivered" /\ ~UNCHANGED rowVars)
    BY <1>5, <2>1, <2>3
  <2>4. QED
    BY <2>2, <2>3
<1>8. CASE UNCHANGED rowVars
  BY <1>8 DEF rowVars
<1>9. QED
  BY <1>1, <1>2, <1>3, <1>6, <1>7, <1>8 DEF Next, RequestStep

\* Custody is inductive when the desk only ends orders.
LEMMA CustodySteps == ASSUME DeskEndsOnly, Custody, [Next]_vars PROVE Custody'
<1>1. Lawful'
  BY LawfulSteps DEF Custody
<1>2. CarrierIsPaid'
  BY SettledStays, NewCommissions DEF Custody, CarrierIsPaid, Over
<1>3. PaidRiders'
  BY SettledStays, NewCommissions DEF Custody, PaidRiders, Over
<1>4. ASSUME NEW q \in Requests PROVE WillPayCarrier(request[q])'
  <2>1. CASE request'[q] = request[q]
    <3>1. CASE request[q].act \in Acts
      <4>1. PICK o \in Orders : o = request[q].order
        BY <3>1 DEF Custody, Lawful, Typed, ReadsAnOrder, Acts
      <4>2. Settled(o) => Settled(o)' /\ rider'[o] = rider[o]
        BY <4>1, SettledStays
      <4>3. WillPayCarrier(request[q])
        BY DEF Custody
      <4>4. QED
        BY <2>1, <4>1, <4>2, <4>3 DEF WillPayCarrier, Settled
    <3>2. CASE request[q].act \notin Acts
      BY <2>1, <3>2 DEF Custody, WillPayCarrier
    <3>3. QED
      BY <3>1, <3>2
  <2>2. CASE request'[q] = Idle
    BY <2>2 DEF WillPayCarrier, Idle, Acts
  <2>3. ASSUME NEW o \in Orders, DeskRead(q, o) PROVE WillPayCarrier(request[q])'
    <3>1. request'[q].act = "desk" /\ request'[q].to \in DeskTargets
      BY <2>3 DEF DeskRead, Reads, Custody, Lawful, Typed, TypeOK
    <3>2. QED
      BY <3>1 DEF DeskEndsOnly, WillPayCarrier, Acts
  <2>4. ASSUME NEW o \in Orders, NEW s \in Staff, TaskRead(q, s, o) PROVE WillPayCarrier(request[q])'
    <3>1. /\ request'[q].order = o /\ request'[q].saw = status[o] /\ request'[q].carrier = rider[o]
          /\ request'[q].act # "desk"
      BY <2>4 DEF TaskRead, Reads, ManagerMoves, RiderMoves, MoveOf, Custody, Lawful, Typed, TypeOK
    <3>2. Legal(request[q])'
      BY <1>1 DEF Lawful
    <3>3. UNCHANGED <<status, rider>>
      BY <2>4 DEF TaskRead, rowVars
    <3>4. QED
      BY <3>1, <3>2, <3>3 DEF Legal, WillPayCarrier, Settled, Onward
  <2>5. CASE \A o \in Orders : ~DeskRead(q, o) /\ \A s \in Staff : ~TaskRead(q, s, o)
    <3>1. request'[q] = request[q] \/ request'[q] = Idle
      BY <2>5 DEF Next, vars, OrderStep, Outbound, Advance, MarkException, StaffDeliver, StaffComplete,
         ConfirmReceipt, AutoComplete, Ages48h, Accept, ScanArrive, RequestStep, DeskRead, TaskRead,
         Reads, TaskWrite, DeskWrite, Custody, Lawful, Typed, TypeOK
    <3>2. QED
      BY <2>1, <2>2, <3>1
  <2>6. QED
    BY <2>3, <2>4, <2>5
<1>5. QED
  BY <1>1, <1>2, <1>3, <1>4 DEF Custody

LEMMA AlwaysCustody == DeskEndsOnly => (Safety => []Custody)
<1> SUFFICES ASSUME DeskEndsOnly PROVE Safety => []Custody
  OBVIOUS
<1>1. Init => Custody
  BY StartsLawful DEF Init, Custody, CarrierIsPaid, PaidRiders, WillPayCarrier, Idle, Acts
<1>2. Custody /\ [Next]_vars => Custody'
  BY CustodySteps
<1>3. QED
  BY <1>1, <1>2, PTL DEF Safety

\* Whoever had a delivered order is paid for it ...
THEOREM CarriersArePaid == DeskEndsOnly => (Safety => []CarrierIsPaid)
<1>1. Custody => CarrierIsPaid
  BY DEF Custody
<1>2. QED
  BY <1>1, AlwaysCustody, PTL

\* ... and no other rider is, through any number of transfers and late requests.
THEOREM OneRiderIsPaid == DeskEndsOnly => (Safety => []OneRiderPaid)
<1>1. Custody => OneRiderPaid
  BY DEF Custody, PaidRiders, OneRiderPaid
<1>2. QED
  BY <1>1, AlwaysCustody, PTL
=============================================================================
