------------------------- MODULE OrderPayment_proofs -------------------------
(***************************************************************************)
(* Proofs about OrderPayment, for any orders, coupons, products, stock and *)
(* number of concurrent requests.                                          *)
(*                                                                         *)
(* CouponExclusive is not inductive alone: a release or a consumption is   *)
(* safe only because the coupon's status agrees with the order that holds  *)
(* it, and AckedIsSettled only because a request that is done has settled  *)
(* its order.  IInv joins them.                                            *)
(***************************************************************************)
EXTENDS OrderPayment, Sums, TLAPS

\* Only orders that left the pending state for good have been paid.
PaidRows ==
  \A o \in Orders : paidAt[o] => status[o] \in {"paid", "picking", "waiting-first-mile"}

\* WeChat knows an order only after its row exists.
TradeRows == \A o \in Orders : trade[o] # "none" => status[o] # "none"

Settled(o) == status[o] \notin {"none", "pending-payment", "cancelled"}

\* Past the query a request works on an order that WeChat has charged; when
\* it is done, on one that is paid or frozen.
TaskOrders ==
  \A h \in Handlers :
    /\ task[h].pc \in {"apply", "reserve", "failed", "done"} => trade[task[h].order] = "SUCCESS"
    /\ task[h].pc = "done" => Settled(task[h].order)

IInv == /\ TypeOK
        /\ PaidRows
        /\ TradeRows
        /\ TaskOrders
        /\ CouponExclusive
        /\ CouponFollowsOrder
        /\ AckedIsSettled

USE QtyAssumption, StockAssumption, CrashAssumption, NoneAssumption

\* A conditional update of coupons keeps their type, ...
LEMMA MoveCouponsType ==
  ASSUME TypeOK, NEW cs, NEW from, NEW to \in CouponStates, MoveCoupons(cs, from, to)
  PROVE  couponState' \in [Coupons -> CouponStates]
BY DEF TypeOK, MoveCoupons

\* ... and a request that moves to another step keeps its own.
LEMMA GotoType ==
  ASSUME TypeOK, NEW h \in Handlers, task[h].pc # "idle",
         NEW pc \in TaskSteps \ {"idle"}, Goto(h, pc)
  PROVE  task' \in [Handlers -> Tasks]
<1>1. task[h] \in [pc : TaskSteps \ {"idle"}, order : Orders, from : {"notify", "status"}]
  BY DEF TypeOK, Tasks, Idle
<1>2. [task[h] EXCEPT !.pc = pc] \in Tasks
  BY <1>1 DEF Tasks
<1>3. QED
  BY <1>2 DEF TypeOK, Goto

\* Goto moves one request and changes nothing else of it.
LEMMA GotoEffect ==
  ASSUME TypeOK, NEW h \in Handlers, NEW pc, Goto(h, pc)
  PROVE  /\ task'[h].pc = pc
         /\ task'[h].order = task[h].order
         /\ task'[h].from = task[h].from
         /\ \A g \in Handlers : g # h => task'[g] = task[g]
<1>1. task[h] \in [pc : TaskSteps, order : Orders \cup {NoOrder}, from : {"none", "notify", "status"}]
  BY DEF TypeOK, Tasks, Idle, TaskSteps
<1>2. QED
  BY <1>1 DEF TypeOK, Goto

\* Every variable keeps its type; in particular no interleaving of payments
\* takes Product.stock below zero.
LEMMA TypeCorrect == Safety => []TypeOK
<1>1. Init => TypeOK
  BY DEF Init, TypeOK, Tasks, Idle, Statuses, CouponStates, TaskSteps
<1>2. TypeOK /\ [Next]_vars => TypeOK'
  <2> SUFFICES ASSUME TypeOK, [Next]_vars PROVE TypeOK'
    OBVIOUS
  <2> USE DEF TypeOK, CouponStates, TaskSteps
  <2>1. ASSUME NEW o \in Orders, Customer(o) PROVE TypeOK'
    <3>1. ASSUME NEW c \in Coupons \cup {NoCoupon}, CreateOrder(o, c) PROVE TypeOK'
      <4>1. couponState' \in [Coupons -> CouponStates]
        BY <3>1, MoveCouponsType DEF CreateOrder
      <4>2. QED
        BY <3>1, <4>1 DEF CreateOrder, Statuses
    <3>2. CASE Cancel(o)
      <4>1. couponState' \in [Coupons -> CouponStates]
        BY <3>2, MoveCouponsType DEF Cancel
      <4>2. QED
        BY <3>2, <4>1 DEF Cancel, Statuses
    <3>3. CASE Prepay(o) \/ WechatCharges(o) \/ WindowCloses(o)
      BY <3>3 DEF Prepay, WechatCharges, WindowCloses, dbVars
    <3>4. QED
      BY <2>1, <3>1, <3>2, <3>3 DEF Customer
  <2>2. ASSUME NEW o \in Orders, Advance(o) \/ Outbound(o) PROVE TypeOK'
    BY <2>2 DEF Advance, Outbound, Statuses
  <2>3. ASSUME NEW h \in Handlers, NEW o \in Orders, Notify(h, o) \/ StatusRead(h, o) PROVE TypeOK'
    BY <2>3 DEF Notify, StatusRead, At, dbVars, Tasks, Idle
  <2>4. ASSUME NEW h \in Handlers, StatusQuery(h) PROVE TypeOK'
    <3>1. Goto(h, "apply") \/ task' = [task EXCEPT ![h] = Idle]
      BY <2>4 DEF StatusQuery
    <3>2. task' \in [Handlers -> Tasks]
      <4>1. CASE Goto(h, "apply")
        BY <2>4, <4>1, GotoType DEF StatusQuery, At
      <4>2. CASE task' = [task EXCEPT ![h] = Idle]
        BY <4>2 DEF Tasks, Idle
      <4>3. QED
        BY <3>1, <4>1, <4>2
    <3>3. QED
      BY <2>4, <3>2 DEF StatusQuery, dbVars
  <2>5. ASSUME NEW h \in Handlers, PayRead(h) \/ PayAborts(h) PROVE TypeOK'
    <3>1. task' \in [Handlers -> Tasks]
      BY <2>5, GotoType DEF At, PayRead, PayAborts
    <3>2. QED
      BY <2>5, <3>1 DEF PayRead, PayAborts, dbVars
  <2>6. ASSUME NEW h \in Handlers, PayCommit(h) PROVE TypeOK'
    <3>1. task' \in [Handlers -> Tasks]
      <4>1. Goto(h, "done") \/ Goto(h, "failed")
        BY <2>6 DEF PayCommit
      <4>2. QED
        BY <2>6, <4>1, GotoType DEF PayCommit, At
    <3>2. couponState' \in [Coupons -> CouponStates]
      BY <2>6, MoveCouponsType DEF PayCommit
    <3>3. stock' \in [Products -> Nat]
      <4> DEFINE o == task[h].order
      <4>1. CASE UNCHANGED stock
        BY <4>1
      <4>2. CASE Payable(o) /\ stock' = [p \in Products |-> stock[p] - Qty[o][p]]
        <5>1. \A p \in Products : stock[p] >= Qty[o][p]
          BY <4>2 DEF Payable, InStock
        <5>2. o \in Orders
          BY <2>6, <4>2 DEF PayCommit, Payable, At, Tasks, Idle
        <5>3. QED
          BY <4>2, <5>1, <5>2
      <4>3. QED
        BY <2>6, <4>1, <4>2 DEF PayCommit
    <3>4. QED
      BY <2>6, <3>1, <3>2, <3>3 DEF PayCommit, At, Statuses
  <2>7. ASSUME NEW h \in Handlers, Freeze(h) PROVE TypeOK'
    <3>1. task' \in [Handlers -> Tasks]
      BY <2>7, GotoType DEF At, Freeze
    <3>2. QED
      BY <2>7, <3>1 DEF Freeze, Statuses
  <2>8. ASSUME NEW h \in Handlers, Answer(h) PROVE TypeOK'
    BY <2>8 DEF Answer, dbVars, Tasks, Idle
  <2>9. CASE SweepRead
    BY <2>9 DEF SweepRead, Overdue, dbVars
  <2>10. CASE SweepClose
    <3>1. couponState' \in [Coupons -> CouponStates]
      BY <2>10, MoveCouponsType DEF SweepClose
    <3>2. QED
      BY <2>10, <3>1 DEF SweepClose, Closing, Statuses
  <2>11. CASE Crash
    BY <2>11 DEF Crash, dbVars, Tasks, Idle
  <2>12. CASE UNCHANGED vars
    BY <2>12 DEF vars
  <2>13. QED
    BY <2>1, <2>2, <2>3, <2>4, <2>5, <2>6, <2>7, <2>8, <2>9, <2>10, <2>11, <2>12
       DEF Next, Request, Working
<1>3. QED
  BY <1>1, <1>2, PTL DEF Safety

-----------------------------------------------------------------------------
\* What no step takes back: a settled order stays settled, a successful trade
\* stays successful, paid rows stay past payment and known rows exist.
LEMMA RowsStep ==
  ASSUME TypeOK, PaidRows, TradeRows, [Next]_vars
  PROVE  /\ PaidRows' /\ TradeRows'
         /\ \A o \in Orders : Settled(o) => Settled(o)'
         /\ \A o \in Orders : trade[o] = "SUCCESS" => trade'[o] = "SUCCESS"
<1> DEFINE Goal == /\ PaidRows' /\ TradeRows'
                   /\ \A o \in Orders : Settled(o) => Settled(o)'
                   /\ \A o \in Orders : trade[o] = "SUCCESS" => trade'[o] = "SUCCESS"
<1> USE DEF TypeOK, PaidRows, TradeRows, Settled
<1>1. CASE UNCHANGED <<status, paidAt, trade>>
  BY <1>1
<1>2. ASSUME NEW o \in Orders, NEW c \in Coupons \cup {NoCoupon}, CreateOrder(o, c) PROVE Goal
  BY <1>2 DEF CreateOrder
<1>3. ASSUME NEW o \in Orders, Cancel(o) PROVE Goal
  BY <1>3 DEF Cancel
<1>4. ASSUME NEW o \in Orders, Prepay(o) \/ WechatCharges(o) PROVE Goal
  BY <1>4 DEF Prepay, WechatCharges, dbVars
<1>5. ASSUME NEW o \in Orders, Advance(o) \/ Outbound(o) PROVE Goal
  BY <1>5 DEF Advance, Outbound
<1>6. ASSUME NEW h \in Handlers, PayCommit(h) PROVE Goal
  BY <1>6 DEF PayCommit, Payable
<1>7. ASSUME NEW h \in Handlers, Freeze(h) PROVE Goal
  BY <1>7 DEF Freeze, Freezable
<1>8. CASE SweepClose
  BY <1>8 DEF SweepClose, Closing
<1>9. ASSUME NEW o \in Orders, WindowCloses(o) PROVE UNCHANGED <<status, paidAt, trade>>
  BY <1>9 DEF WindowCloses, dbVars
<1>10. ASSUME NEW h \in Handlers,
              \/ \E o \in Orders : Notify(h, o) \/ StatusRead(h, o)
              \/ StatusQuery(h) \/ PayRead(h) \/ PayAborts(h) \/ Answer(h)
       PROVE  UNCHANGED <<status, paidAt, trade>>
  BY <1>10 DEF Notify, StatusRead, StatusQuery, PayRead, PayAborts, Answer, dbVars
<1>11. ASSUME SweepRead \/ Crash \/ UNCHANGED vars PROVE UNCHANGED <<status, paidAt, trade>>
  BY <1>11 DEF SweepRead, Crash, vars, dbVars
<1>12. QED
  BY <1>1, <1>2, <1>3, <1>4, <1>5, <1>6, <1>7, <1>8, <1>9, <1>10, <1>11
     DEF Next, Customer, Request, Working

\* A request reaches the end of applyPayment only past a paid or frozen order.
LEMMA TaskStep ==
  ASSUME TypeOK, PaidRows, TradeRows, TaskOrders, [Next]_vars
  PROVE  TaskOrders'
<1>0. /\ TradeRows
      /\ \A o \in Orders : Settled(o) => Settled(o)'
      /\ \A o \in Orders : trade[o] = "SUCCESS" => trade'[o] = "SUCCESS"
  BY RowsStep
<1> DEFINE Fine(t) == /\ t.pc \in {"apply", "reserve", "failed", "done"} => trade[t.order] = "SUCCESS"
                      /\ t.pc = "done" => Settled(t.order)
\* What is fine before the step is fine after it.
<1>1. ASSUME NEW g \in Handlers, task'[g] = task[g] PROVE Fine(task[g])'
  <2>1. task[g] = Idle \/ task[g].order \in Orders
    BY DEF TypeOK, Tasks
  <2>2. QED
    BY <1>0, <1>1, <2>1 DEF TaskOrders, Idle
<1>2. CASE UNCHANGED task
  BY <1>1, <1>2 DEF TaskOrders
<1>3. ASSUME NEW h \in Handlers, NEW o \in Orders, Notify(h, o) \/ StatusRead(h, o) PROVE TaskOrders'
  BY <1>3, <1>1 DEF Notify, StatusRead, TypeOK, TaskOrders, dbVars
<1>4. ASSUME NEW h \in Handlers, StatusQuery(h) PROVE TaskOrders'
  BY <1>4, <1>1 DEF StatusQuery, At, Goto, TypeOK, TaskOrders, Idle, Tasks, dbVars
<1>5. ASSUME NEW h \in Handlers, PayRead(h) PROVE TaskOrders'
  <2>1. \A g \in Handlers : g # h => task'[g] = task[g]
    BY <1>5 DEF PayRead, Goto, TypeOK
  <2>2. task[h].pc = "apply" /\ trade[task[h].order] = "SUCCESS" /\ UNCHANGED <<status, trade>>
    BY <1>5 DEF PayRead, At, TaskOrders, dbVars
  <2>3. \E pc \in TaskSteps : Goto(h, pc) /\ (pc = "done" => status[task[h].order] = "paid")
    BY <1>5 DEF PayRead, TaskSteps
  <2>4. Fine(task[h])'
    BY <2>2, <2>3, GotoEffect DEF Settled
  <2>5. QED
    BY <1>1, <2>1, <2>4 DEF TaskOrders
<1>6. ASSUME NEW h \in Handlers, PayCommit(h) PROVE TaskOrders'
  <2>1. \A g \in Handlers : g # h => task'[g] = task[g]
    BY <1>6 DEF PayCommit, Goto, TypeOK
  <2>2. task[h] \in Tasks /\ task[h].pc = "reserve" /\ trade[task[h].order] = "SUCCESS" /\ UNCHANGED trade
    BY <1>6 DEF PayCommit, At, TaskOrders, TypeOK
  <2>3. task[h].order \in Orders
    BY <2>2 DEF Tasks, Idle
  <2>4. \/ Goto(h, "done") /\ status'[task[h].order] = "paid"
        \/ Goto(h, "failed")
    BY <1>6, <2>3 DEF PayCommit, TypeOK
  <2>5. Fine(task[h])'
    BY <2>2, <2>4, GotoEffect DEF Settled
  <2>6. QED
    BY <1>1, <2>1, <2>5 DEF TaskOrders
<1>7. ASSUME NEW h \in Handlers, PayAborts(h) PROVE TaskOrders'
  BY <1>7, <1>1 DEF PayAborts, Goto, TypeOK, TaskOrders, Idle, Tasks, dbVars
<1>8. ASSUME NEW h \in Handlers, Freeze(h) PROVE TaskOrders'
  BY <1>8, <1>0, <1>1 DEF Freeze, Freezable, At, Goto, TypeOK, TaskOrders, Idle, Tasks, Settled, TradeRows
<1>9. ASSUME NEW h \in Handlers, Answer(h) PROVE TaskOrders'
  BY <1>9, <1>1 DEF Answer, TypeOK, TaskOrders, Idle, dbVars
<1>10. CASE Crash
  BY <1>10 DEF Crash, TaskOrders, Idle
<1>11. ASSUME NEW o \in Orders, Customer(o) \/ Advance(o) \/ Outbound(o) PROVE UNCHANGED task
  BY <1>11 DEF Customer, CreateOrder, Cancel, Prepay, WechatCharges, WindowCloses, Advance, Outbound
<1>12. ASSUME SweepRead \/ SweepClose \/ UNCHANGED vars PROVE UNCHANGED task
  BY <1>12 DEF SweepRead, SweepClose, vars
<1>13. QED
  BY <1>2, <1>3, <1>4, <1>5, <1>6, <1>7, <1>8, <1>9, <1>10, <1>11, <1>12
     DEF Next, Request, Working

-----------------------------------------------------------------------------
\* The coupon arguments: who uses a coupon before a step, and what the step
\* does to it.
CouponInv == CouponExclusive /\ CouponFollowsOrder

\* An order that no step makes pending, and that only leaves the states which
\* account for a lock when it was in neither, disturbs no coupon.
KeepsLocks ==
  /\ UNCHANGED <<couponOf, paidAt, couponState>>
  /\ \A x \in Orders :
       /\ status'[x] = "pending-payment" => status[x] = "pending-payment"
       /\ status[x] \in {"pending-payment", "exception"} =>
            status'[x] \in {"pending-payment", "exception"}

LEMMA CouponsKept == ASSUME CouponInv, KeepsLocks PROVE CouponInv'
<1>1. \A x \in Orders : UsesCoupon(x)' => UsesCoupon(x)
  BY DEF KeepsLocks, UsesCoupon
<1>2. CouponExclusive'
  BY <1>1 DEF KeepsLocks, CouponInv, CouponExclusive
<1>3. CouponFollowsOrder'
  BY <1>1 DEF KeepsLocks, CouponInv, CouponFollowsOrder
<1>4. QED
  BY <1>2, <1>3 DEF CouponInv

LEMMA FreezeMoves == ASSUME TypeOK, NEW h \in Handlers, Freeze(h) PROVE KeepsLocks
<1>1. UNCHANGED <<couponOf, paidAt, couponState>>
  BY DEF Freeze
<1>2. CASE UNCHANGED status
  BY <1>1, <1>2 DEF KeepsLocks
<1>3. CASE Freezable(task[h].order) /\ status' = [status EXCEPT ![task[h].order] = "exception"]
  BY <1>1, <1>3 DEF KeepsLocks, Freezable, TypeOK
<1>4. QED
  BY <1>2, <1>3 DEF Freeze

LEMMA WarehouseMoves ==
  ASSUME TypeOK, NEW o \in Orders, Advance(o) \/ Outbound(o) PROVE KeepsLocks
BY DEF Advance, Outbound, KeepsLocks, TypeOK

LEMMA CouponStep ==
  ASSUME TypeOK, PaidRows, CouponInv, [Next]_vars
  PROVE  CouponInv'
<1> USE DEF CouponInv, CouponExclusive, CouponFollowsOrder, UsesCoupon, TypeOK, PaidRows
<1>1. CASE UNCHANGED <<status, paidAt, couponOf, couponState>>
  BY <1>1
\* The coupon is free, so no order uses it, and the new order takes it.
<1>2. ASSUME NEW o \in Orders, NEW c \in Coupons \cup {NoCoupon}, CreateOrder(o, c) PROVE CouponInv'
  <2>1. /\ status[o] = "none" /\ status' = [status EXCEPT ![o] = "pending-payment"]
        /\ couponOf' = [couponOf EXCEPT ![o] = c] /\ UNCHANGED paidAt
        /\ \A d \in Coupons : couponState'[d] = IF d = c THEN "locked" ELSE couponState[d]
    BY <1>2 DEF CreateOrder, MoveCoupons
  <2>2. c # NoCoupon => couponState[c] \in {"claimed", "released"}
    BY <1>2 DEF CreateOrder, Selectable
  <2>3. \A x \in Orders : x # o /\ UsesCoupon(x) => couponOf[x] # c
    BY <2>2
  <2>4. \A x \in Orders : x # o => UsesCoupon(x)' = UsesCoupon(x) /\ couponOf'[x] = couponOf[x]
    BY <2>1
  <2>5. ~paidAt[o]
    BY <2>1
  <2>6. CouponExclusive'
    BY <2>1, <2>3, <2>4
  <2>7. CouponFollowsOrder'
    BY <2>1, <2>3, <2>4, <2>5
  <2>8. QED
    BY <2>6, <2>7
\* Only the coupon of the cancelled order moves, and no other order uses it.
<1>3. ASSUME NEW o \in Orders, Cancel(o) PROVE CouponInv'
  <2>1. /\ status[o] = "pending-payment" /\ status' = [status EXCEPT ![o] = "cancelled"]
        /\ UNCHANGED <<couponOf, paidAt>> /\ ~paidAt[o]
    BY <1>3 DEF Cancel
  <2>2. \A c \in Coupons : couponState'[c] =
          IF c = couponOf[o] /\ couponState[c] \in {"locked", "used"} THEN "released" ELSE couponState[c]
    BY <1>3 DEF Cancel, MoveCoupons
  <2>3. \A x \in Orders : UsesCoupon(x)' => UsesCoupon(x) /\ couponOf[x] # couponOf[o]
    BY <2>1
  <2>4. CouponExclusive'
    BY <2>1, <2>3
  <2>5. CouponFollowsOrder'
    BY <2>1, <2>2, <2>3
  <2>6. QED
    BY <2>4, <2>5
\* The sweep does the same to all the orders it closes.
<1>4. CASE SweepClose
  <2>1. /\ status' = [x \in Orders |-> IF x \in Closing THEN "cancelled" ELSE status[x]]
        /\ UNCHANGED <<couponOf, paidAt>>
        /\ \A x \in Closing : x \in Orders /\ status[x] = "pending-payment"
    BY <1>4 DEF SweepClose, Closing
  <2>2. \A c \in Coupons : couponState'[c] =
          IF (\E x \in Closing : c = couponOf[x]) /\ couponState[c] = "locked"
            THEN "released" ELSE couponState[c]
    BY <1>4 DEF SweepClose, MoveCoupons
  <2>3. ASSUME NEW x \in Orders, UsesCoupon(x)'
        PROVE  UsesCoupon(x) /\ \A y \in Closing : couponOf[x] # couponOf[y]
    <3>1. UsesCoupon(x) /\ x \notin Closing
      BY <2>1, <2>3
    <3>2. ASSUME NEW y \in Closing, couponOf[x] = couponOf[y] PROVE FALSE
      BY <2>1, <3>1, <3>2
    <3>3. QED
      BY <3>1, <3>2
  <2>4. CouponExclusive'
    BY <2>1, <2>3
  <2>5. CouponFollowsOrder'
    BY <2>1, <2>2, <2>3
  <2>6. QED
    BY <2>4, <2>5
\* Payment turns the lock of the order's coupon into use.
<1>5. ASSUME NEW h \in Handlers, PayCommit(h) PROVE CouponInv'
  <2> DEFINE o == task[h].order
  <2>1. CASE UNCHANGED <<status, paidAt, couponState>>
    BY <1>1, <1>5, <2>1 DEF PayCommit
  <2>2. CASE /\ status[o] = "pending-payment" /\ status' = [status EXCEPT ![o] = "paid"]
             /\ paidAt' = [paidAt EXCEPT ![o] = TRUE]
             /\ MoveCoupons({couponOf[o]}, {"locked"}, "used")
    <3>1. o \in Orders /\ UNCHANGED couponOf
      BY <1>5, <2>2 DEF PayCommit, At, Tasks, Idle
    <3>2. \A c \in Coupons : couponState'[c] =
            IF c = couponOf[o] /\ couponState[c] = "locked" THEN "used" ELSE couponState[c]
      BY <2>2 DEF MoveCoupons
    <3>3. \A x \in Orders : UsesCoupon(x)' <=> UsesCoupon(x)
      BY <2>2, <3>1
    <3>4. CouponExclusive'
      BY <3>1, <3>3
    <3>5. CouponFollowsOrder'
      BY <2>2, <3>1, <3>2, <3>3
    <3>6. QED
      BY <3>4, <3>5
  <2>3. QED
    BY <1>5, <2>1, <2>2 DEF PayCommit, Payable
<1>6. ASSUME NEW h \in Handlers, Freeze(h) PROVE CouponInv'
  BY <1>6, FreezeMoves, CouponsKept
<1>7. ASSUME NEW o \in Orders, Advance(o) \/ Outbound(o) PROVE CouponInv'
  BY <1>7, WarehouseMoves, CouponsKept
<1>8. ASSUME NEW o \in Orders, Prepay(o) \/ WechatCharges(o) \/ WindowCloses(o)
      PROVE  UNCHANGED <<status, paidAt, couponOf, couponState>>
  BY <1>8 DEF Prepay, WechatCharges, WindowCloses, dbVars
<1>9. ASSUME NEW h \in Handlers,
             \/ \E o \in Orders : Notify(h, o) \/ StatusRead(h, o)
             \/ StatusQuery(h) \/ PayRead(h) \/ PayAborts(h) \/ Answer(h)
      PROVE  UNCHANGED <<status, paidAt, couponOf, couponState>>
  BY <1>9 DEF Notify, StatusRead, StatusQuery, PayRead, PayAborts, Answer, dbVars
<1>10. ASSUME SweepRead \/ Crash \/ UNCHANGED vars
       PROVE  UNCHANGED <<status, paidAt, couponOf, couponState>>
  BY <1>10 DEF SweepRead, Crash, vars, dbVars
<1>11. QED
  BY <1>1, <1>2, <1>3, <1>4, <1>5, <1>6, <1>7, <1>8, <1>9, <1>10
     DEF Next, Customer, Request, Working

-----------------------------------------------------------------------------
\* The inductive invariant holds in every reachable state.
LEMMA Inductive == Safety => []IInv
<1>1. Init => IInv
  <2> SUFFICES ASSUME Init PROVE IInv
    OBVIOUS
  <2>1. TypeOK
    BY DEF Init, TypeOK, Tasks, Idle, Statuses, CouponStates, TaskSteps
  <2>2. PaidRows /\ TradeRows /\ TaskOrders /\ AckedIsSettled
    BY DEF Init, PaidRows, TradeRows, TaskOrders, AckedIsSettled, Idle
  <2>3. CouponExclusive /\ CouponFollowsOrder
    BY DEF Init, CouponExclusive, CouponFollowsOrder, UsesCoupon
  <2>4. QED
    BY <2>1, <2>2, <2>3 DEF IInv
<1>2. TypeOK /\ TypeOK' /\ IInv /\ [Next]_vars => IInv'
  <2> SUFFICES ASSUME TypeOK', IInv, [Next]_vars PROVE IInv'
    OBVIOUS
  <2>1. PaidRows' /\ TradeRows' /\ \A o \in Orders : Settled(o) => Settled(o)'
    BY RowsStep DEF IInv
  <2>2. TaskOrders'
    BY TaskStep DEF IInv
  <2>3. CouponExclusive' /\ CouponFollowsOrder'
    BY CouponStep DEF IInv, CouponInv
  <2>4. AckedIsSettled'
    <3>1. ASSUME NEW h \in Handlers, Answer(h) PROVE AckedIsSettled'
      <4>1. task[h].pc = "done" /\ Settled(task[h].order)
        BY <3>1 DEF Answer, At, IInv, TaskOrders
      <4>2. QED
        BY <2>1, <3>1, <4>1 DEF Answer, IInv, TypeOK, AckedIsSettled, Settled
    <3>2. ASSUME UNCHANGED acked PROVE AckedIsSettled'
      BY <2>1, <3>2 DEF IInv, AckedIsSettled, Settled
    <3>3. UNCHANGED acked \/ \E h \in Handlers : Answer(h)
      BY DEF Next, Customer, CreateOrder, Cancel, Prepay, WechatCharges, WindowCloses, Advance,
             Outbound, Request, Notify, StatusRead, Working, StatusQuery, PayRead, PayCommit,
             PayAborts, Freeze, SweepRead, SweepClose, Crash, vars
    <3>4. QED
      BY <3>1, <3>2, <3>3
  <2>5. QED
    BY <2>1, <2>2, <2>3, <2>4 DEF IInv
<1>3. QED
  BY <1>1, <1>2, TypeCorrect, PTL DEF Safety

\* A coupon discounts at most one order.
THEOREM CouponIsExclusive == Safety => []CouponExclusive
BY Inductive, PTL DEF IInv

\* The coupon's status agrees with the orders that carry it.
THEOREM CouponAgrees == Safety => []CouponFollowsOrder
BY Inductive, PTL DEF IInv

\* A payment acknowledged to WeChat belongs to a paid or frozen order.
THEOREM AckedPaymentIsSettled == Safety => []AckedIsSettled
BY Inductive, PTL DEF IInv

\* Stock, like everything else, keeps its type: it never goes below zero.
THEOREM StockNeverNegative == Safety => []TypeOK
BY TypeCorrect

\* A closed order is not revived, a paid one neither closed nor frozen.
THEOREM ClosedOrPaidStays == Safety => ClosedOrPaidForGood
<1> DEFINE Kept(o) ==
      /\ status[o] = "cancelled" => status'[o] \in {"cancelled", "exception"}
      /\ paidAt[o] => paidAt'[o] /\ status'[o] \notin {"pending-payment", "cancelled", "exception"}
<1>1. IInv /\ [Next]_vars => \A o \in Orders : Kept(o)
  <2> SUFFICES ASSUME IInv, [Next]_vars, NEW o \in Orders PROVE Kept(o)
    OBVIOUS
  <2> USE DEF IInv, TypeOK, PaidRows
  <2>1. CASE UNCHANGED <<status, paidAt>>
    BY <2>1
  <2>2. ASSUME NEW x \in Orders, Customer(x) PROVE Kept(o)
    BY <2>2 DEF Customer, CreateOrder, Cancel, Prepay, WechatCharges, WindowCloses, dbVars
  <2>3. ASSUME NEW x \in Orders, Advance(x) \/ Outbound(x) PROVE Kept(o)
    BY <2>3 DEF Advance, Outbound
  <2>4. ASSUME NEW h \in Handlers, PayCommit(h) PROVE Kept(o)
    BY <2>4 DEF PayCommit, Payable
  <2>5. ASSUME NEW h \in Handlers, Freeze(h) PROVE Kept(o)
    BY <2>5 DEF Freeze, Freezable
  <2>6. CASE SweepClose
    BY <2>6 DEF SweepClose, Closing
  <2>7. ASSUME NEW h \in Handlers,
               \/ \E x \in Orders : Notify(h, x) \/ StatusRead(h, x)
               \/ StatusQuery(h) \/ PayRead(h) \/ PayAborts(h) \/ Answer(h)
        PROVE  UNCHANGED <<status, paidAt>>
    BY <2>7 DEF Notify, StatusRead, StatusQuery, PayRead, PayAborts, Answer, dbVars
  <2>8. ASSUME SweepRead \/ Crash \/ UNCHANGED vars PROVE UNCHANGED <<status, paidAt>>
    BY <2>8 DEF SweepRead, Crash, vars, dbVars
  <2>9. QED
    BY <2>1, <2>2, <2>3, <2>4, <2>5, <2>6, <2>7, <2>8 DEF Next, Request, Working
<1>2. QED
  BY <1>1, Inductive, PTL DEF Safety, ClosedOrPaidForGood

-----------------------------------------------------------------------------
(* The stock.  It is deducted in the step that sets paidAt, so the goods of *)
(* the orders that are paid never leave the sum.                           *)

Paid == {o \in Orders : paidAt[o]}
Taken(p) == SumFunctionOnSet([o \in Orders |-> Qty[o][p]], Paid)
StockInv == IsFiniteSet(Paid) /\ StockAccounted

\* What any step does to the stock: nothing, or it pays one order for good.
LEMMA StockMoves ==
  ASSUME IInv, [Next]_vars
  PROVE  \/ UNCHANGED <<stock, paidAt>>
         \/ \E o \in Orders : /\ ~paidAt[o]
                              /\ paidAt' = [paidAt EXCEPT ![o] = TRUE]
                              /\ stock' = [p \in Products |-> stock[p] - Qty[o][p]]
<1>1. ASSUME NEW x \in Orders, Customer(x) \/ Advance(x) \/ Outbound(x)
      PROVE  UNCHANGED <<stock, paidAt>>
  BY <1>1 DEF Customer, CreateOrder, Cancel, Prepay, WechatCharges, WindowCloses, Advance, Outbound, dbVars
<1>2. ASSUME NEW h \in Handlers, PayCommit(h), stock' # stock \/ paidAt' # paidAt
      PROVE  LET o == task[h].order
             IN /\ o \in Orders /\ ~paidAt[o]
                /\ paidAt' = [paidAt EXCEPT ![o] = TRUE]
                /\ stock' = [p \in Products |-> stock[p] - Qty[o][p]]
  <2>1. task[h].order \in Orders
    BY <1>2 DEF PayCommit, At, IInv, TypeOK, Tasks, Idle
  <2>2. ~paidAt[task[h].order]
    BY <1>2, <2>1 DEF PayCommit, Payable, IInv, PaidRows
  <2>3. QED
    BY <1>2, <2>1, <2>2 DEF PayCommit
<1>3. ASSUME NEW h \in Handlers,
             \/ \E x \in Orders : Notify(h, x) \/ StatusRead(h, x)
             \/ StatusQuery(h) \/ PayRead(h) \/ PayAborts(h) \/ Freeze(h) \/ Answer(h)
      PROVE  UNCHANGED <<stock, paidAt>>
  BY <1>3 DEF Notify, StatusRead, StatusQuery, PayRead, PayAborts, Freeze, Answer, dbVars
<1>4. ASSUME SweepRead \/ SweepClose \/ Crash \/ UNCHANGED vars
      PROVE  UNCHANGED <<stock, paidAt>>
  BY <1>4 DEF SweepRead, SweepClose, Crash, vars, dbVars
<1>5. QED
  BY <1>1, <1>2, <1>3, <1>4 DEF Next, Request, Working

\* The stock left and the goods of the paid orders add up to the stock there
\* was, for any number of orders and products and whatever happens at once.
THEOREM StockAdds == Safety => []StockAccounted
<1>1. Init => StockInv
  <2> SUFFICES ASSUME Init PROVE StockInv
    OBVIOUS
  <2>1. Paid = {}
    BY DEF Init, Paid
  <2>2. \A p \in Products : Taken(p) = 0
    BY <2>1, SumEmpty DEF Taken
  <2>3. \A p \in Products : stock[p] + Taken(p) = InitialStock[p]
    BY <2>2 DEF Init
  <2>4. QED
    BY <2>1, <2>3, FS_EmptySet DEF StockInv, StockAccounted, Taken, Paid
<1>2. StockInv /\ IInv /\ [Next]_vars => StockInv'
  <2> SUFFICES ASSUME StockInv, IInv, [Next]_vars PROVE StockInv'
    OBVIOUS
  <2>1. CASE UNCHANGED <<stock, paidAt>>
    BY <2>1 DEF StockInv, StockAccounted, Paid
  <2>2. ASSUME NEW o \in Orders, ~paidAt[o], paidAt' = [paidAt EXCEPT ![o] = TRUE],
               stock' = [p \in Products |-> stock[p] - Qty[o][p]]
        PROVE  StockInv'
    <3>1. Paid' = Paid \cup {o} /\ o \notin Paid /\ IsFiniteSet(Paid)
      BY <2>2 DEF Paid, StockInv, IInv, TypeOK
    <3>2. ASSUME NEW p \in Products PROVE stock'[p] + Taken(p)' = InitialStock[p]
      <4> DEFINE f == [x \in Orders |-> Qty[x][p]]
      <4>1. \A x \in Paid \cup {o} : f[x] \in Nat
        BY <2>2 DEF Paid
      <4>2. Taken(p)' = f[o] + Taken(p)
        BY <3>1, <4>1, SumWith DEF Taken
      <4>3. Taken(p) \in Nat
        BY <3>1, <4>1, SumType DEF Taken
      <4>4. stock[p] + Taken(p) = InitialStock[p]
        BY DEF StockInv, StockAccounted, Taken, Paid
      <4>5. stock[p] \in Nat /\ stock'[p] = stock[p] - f[o] /\ f[o] \in Nat
        BY <2>2, <4>1 DEF IInv, TypeOK
      <4>6. QED
        BY <4>2, <4>3, <4>4, <4>5
    <3>3. IsFiniteSet(Paid')
      BY <3>1, FS_AddElement
    <3>4. QED
      BY <3>2, <3>3 DEF StockInv, StockAccounted, Taken, Paid
  <2>3. QED
    BY <2>1, <2>2, StockMoves
<1>3. QED
  BY <1>1, <1>2, Inductive, PTL DEF Safety, StockInv

-----------------------------------------------------------------------------
\* The detailed checkout implements the promise's safety part: no order gets
\* goods or is frozen without a charge, and none leaves "closed" but for
\* "frozen", whatever the interleaving of callbacks, polls, sweep and crashes.
THEOREM PromiseSafetyKept == Safety => Promise!Safety
<1>1. Init => Promise!Init
  BY DEF Init, Promise!Init
<1>2. IInv /\ [Next]_vars => [Promise!Next]_Promise!vars
  <2> SUFFICES ASSUME IInv, [Next]_vars PROVE [Promise!Next]_Promise!vars
    OBVIOUS
  <2> USE DEF IInv, TypeOK
  <2>1. CASE UNCHANGED <<status, trade>>
    BY <2>1 DEF Promise!vars
  <2>2. ASSUME NEW o \in Orders, NEW c \in Coupons \cup {NoCoupon}, CreateOrder(o, c)
        PROVE  UNCHANGED Promise!vars
    BY <2>2 DEF CreateOrder, Promise!vars
  <2>3. ASSUME NEW o \in Orders, Cancel(o) PROVE Promise!Close({o})
    BY <2>3 DEF Cancel, Promise!Close
  <2>4. ASSUME NEW o \in Orders, Prepay(o) PROVE UNCHANGED Promise!vars
    BY <2>4 DEF Prepay, Promise!vars, dbVars
  <2>5. ASSUME NEW o \in Orders, WechatCharges(o) PROVE Promise!Charge(o)
    BY <2>5 DEF WechatCharges, Promise!Charge, dbVars
  <2>6. ASSUME NEW o \in Orders, Advance(o) \/ Outbound(o) PROVE UNCHANGED Promise!vars
    <3>1. UNCHANGED trade
      BY <2>6 DEF Advance, Outbound
    <3>2. \A x \in Orders : \/ status'[x] = status[x]
                           \/ /\ status[x] \in {"paid", "picking"}
                              /\ status'[x] \in {"picking", "waiting-first-mile"}
      BY <2>6 DEF Advance, Outbound
    <3>3. QED
      BY <3>1, <3>2 DEF Promise!vars
  <2>7. ASSUME NEW h \in Handlers, PayCommit(h)
        PROVE  UNCHANGED Promise!vars \/ \E o \in Orders : Promise!Fulfil(o)
    <3>0. PICK o \in Orders : o = task[h].order /\ trade[o] = "SUCCESS"
      BY <2>7 DEF PayCommit, At, Tasks, Idle, TaskOrders
    <3>1. CASE UNCHANGED status
      BY <2>7, <3>1 DEF PayCommit, Promise!vars
    <3>2. CASE Payable(o) /\ status' = [status EXCEPT ![o] = "paid"]
      <4>1. Promise!Fulfil(o)
        BY <2>7, <3>0, <3>2 DEF PayCommit, Payable, Promise!Fulfil
      <4>2. QED
        BY <4>1
    <3>3. QED
      BY <2>7, <3>0, <3>1, <3>2 DEF PayCommit
  <2>8. ASSUME NEW h \in Handlers, Freeze(h)
        PROVE  UNCHANGED Promise!vars \/ \E o \in Orders : Promise!Freeze(o)
    <3>0. PICK o \in Orders : o = task[h].order /\ trade[o] = "SUCCESS"
      BY <2>8 DEF Freeze, At, Tasks, Idle, TaskOrders
    <3>1. CASE UNCHANGED status
      BY <2>8, <3>1 DEF Freeze, Promise!vars
    <3>2. CASE Freezable(o) /\ status' = [status EXCEPT ![o] = "exception"]
      <4>1. Promise!Freeze(o)
        <5>1. status[o] \in {"pending-payment", "cancelled"} /\ UNCHANGED trade
          BY <2>8, <3>2 DEF Freeze, Freezable
        <5>2. status'[o] = "exception" /\ \A x \in Orders \ {o} : status'[x] = status[x]
          BY <3>2
        <5>3. QED
          BY <3>0, <5>1, <5>2 DEF Promise!Freeze
      <4>2. QED
        BY <4>1
    <3>3. QED
      BY <2>8, <3>0, <3>1, <3>2 DEF Freeze
  <2>9. CASE SweepClose
    <3>1. CASE Closing = {}
      BY <2>9, <3>1 DEF SweepClose, Promise!vars
    <3>2. CASE Closing # {}
      <4>1. PICK S \in SUBSET Orders : S = Closing
        BY DEF Closing
      <4>2. Promise!Close(S)
        BY <2>9, <3>2, <4>1 DEF SweepClose, Closing, Promise!Close
      <4>3. QED
        BY <4>2 DEF Promise!Next
    <3>3. QED
      BY <3>1, <3>2
  <2>10. ASSUME NEW o \in Orders, WindowCloses(o) PROVE UNCHANGED <<status, trade>>
    BY <2>10 DEF WindowCloses, dbVars
  <2>11. ASSUME NEW h \in Handlers,
                \/ \E x \in Orders : Notify(h, x) \/ StatusRead(h, x)
                \/ StatusQuery(h) \/ PayRead(h) \/ PayAborts(h) \/ Answer(h)
         PROVE  UNCHANGED <<status, trade>>
    BY <2>11 DEF Notify, StatusRead, StatusQuery, PayRead, PayAborts, Answer, dbVars
  <2>12. ASSUME SweepRead \/ Crash \/ UNCHANGED vars PROVE UNCHANGED <<status, trade>>
    BY <2>12 DEF SweepRead, Crash, vars, dbVars
  <2> HIDE DEF IInv, TypeOK
  <2>13. ASSUME NEW o \in Orders, Customer(o) \/ Advance(o) \/ Outbound(o)
         PROVE  [Promise!Next]_Promise!vars
    BY <2>1, <2>2, <2>3, <2>4, <2>5, <2>6, <2>10, <2>13 DEF Customer, Promise!Next
  <2>14. ASSUME NEW h \in Handlers, Request(h) PROVE [Promise!Next]_Promise!vars
    BY <2>1, <2>7, <2>8, <2>11, <2>14 DEF Request, Working, Promise!Next
  <2>15. QED
    BY <2>1, <2>9, <2>12, <2>13, <2>14 DEF Next
<1>3. QED
  BY <1>1, <1>2, Inductive, PTL DEF Safety, Promise!Safety
=============================================================================
