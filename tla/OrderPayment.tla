---------------------------- MODULE OrderPayment ----------------------------
(***************************************************************************)
(* Checkout and payment of one customer's orders: BusinessService (create, *)
(* pay, cancel, close on timeout, advance, outbound) with PaymentsService  *)
(* (prepay, notify, status, applyPayment), the minute cron that closes     *)
(* stale orders, and WeChat Pay as the environment.                        *)
(*                                                                         *)
(* Grain: a database statement or transaction that decides on what it      *)
(* writes is one step; a read whose answer is used by a later statement is *)
(* a step of its own, and what it saw may be stale by then.                *)
(***************************************************************************)
EXTENDS Integers, FiniteSets, FiniteSetsExt

CONSTANTS Orders,        \* the orders the customer may place
          Coupons,       \* the coupons the customer holds (UserCoupon rows)
          Products,
          Handlers,      \* requests that can be inside applyPayment at once
          NoCoupon, NoOrder,
          Qty,           \* Qty[o][p]: units of p in the lines of o
          InitialStock,  \* InitialStock[p]
          MaxCrashes     \* bound on process crashes (checking only)

ASSUME QtyAssumption == Qty \in [Orders -> [Products -> Nat]]
ASSUME StockAssumption == InitialStock \in [Products -> Nat]
ASSUME CrashAssumption == MaxCrashes \in Nat
ASSUME NoneAssumption == NoCoupon \notin Coupons /\ NoOrder \notin Orders

VARIABLES
  status,       \* Order.status ("none": no row yet)
  couponOf,     \* Order.couponId
  paidAt,       \* TRUE when Order.paidAt is set
  expired,      \* the order is older than PAYMENT_TIMEOUT_MS
  couponState,  \* UserCoupon.status
  stock,        \* Product.stock
  trade,        \* WeChat's record of the order: "none", "prepaid", "SUCCESS"
  acked,        \* WeChat has been answered SUCCESS for the order's notification
  task,         \* what each request in applyPayment is doing
  stale,        \* orders the timeout sweep has read and not yet closed
  crashes

dbVars == <<status, couponOf, paidAt, couponState, stock>>
vars == <<status, couponOf, paidAt, expired, couponState, stock, trade, acked,
          task, stale, crashes>>

Statuses == {"none", "pending-payment", "paid", "picking", "waiting-first-mile",
             "cancelled", "exception"}
CouponStates == {"claimed", "locked", "used", "released"}
TaskSteps == {"idle", "query", "apply", "reserve", "failed", "done"}

Idle == [pc |-> "idle", order |-> NoOrder, from |-> "none"]
Tasks == {Idle} \cup [pc : TaskSteps \ {"idle"}, order : Orders, from : {"notify", "status"}]

TypeOK ==
  /\ status \in [Orders -> Statuses]
  /\ couponOf \in [Orders -> Coupons \cup {NoCoupon}]
  /\ paidAt \in [Orders -> BOOLEAN]
  /\ expired \in [Orders -> BOOLEAN]
  /\ couponState \in [Coupons -> CouponStates]
  /\ stock \in [Products -> Nat]
  /\ trade \in [Orders -> {"none", "prepaid", "SUCCESS"}]
  /\ acked \in [Orders -> BOOLEAN]
  /\ task \in [Handlers -> Tasks]
  /\ stale \in SUBSET Orders
  /\ crashes \in 0..MaxCrashes

Init ==
  /\ status = [o \in Orders |-> "none"]
  /\ couponOf = [o \in Orders |-> NoCoupon]
  /\ paidAt = [o \in Orders |-> FALSE]
  /\ expired = [o \in Orders |-> FALSE]
  /\ couponState = [c \in Coupons |-> "claimed"]
  /\ stock = InitialStock
  /\ trade = [o \in Orders |-> "none"]
  /\ acked = [o \in Orders |-> FALSE]
  /\ task = [h \in Handlers |-> Idle]
  /\ stale = {}
  /\ crashes = 0

\* Operators whose name carries a qualifier (SelectableAnyway, ...) are the
\* faulty variants that PROJECT.json substitutes to show a property can fail.

\* updateMany({id in cs, status in from}, to): the coupons it finds in `from`.
MoveCoupons(cs, from, to) ==
  couponState' = [c \in Coupons |->
                    IF c \in cs /\ couponState[c] \in from THEN to ELSE couponState[c]]

-----------------------------------------------------------------------------
(* The customer *)

SelectableAnyway(c) == TRUE
Selectable(c) == c # NoCoupon => couponState[c] \in {"claimed", "released"}

CreateOrder(o, c) ==
  /\ status[o] = "none"
  /\ Selectable(c)
  /\ status' = [status EXCEPT ![o] = "pending-payment"]
  /\ couponOf' = [couponOf EXCEPT ![o] = c]
  /\ MoveCoupons({c}, CouponStates, "locked")
  /\ UNCHANGED <<paidAt, expired, stock, trade, acked, task, stale, crashes>>

Cancel(o) ==
  /\ status[o] = "pending-payment"
  /\ status' = [status EXCEPT ![o] = "cancelled"]
  /\ MoveCoupons({couponOf[o]}, {"locked", "used"}, "released")
  /\ UNCHANGED <<couponOf, paidAt, expired, stock, trade, acked, task, stale, crashes>>

\* WeChat accepts the unified order; the prepay id outlives the order's status.
Prepay(o) ==
  /\ status[o] = "pending-payment"
  /\ trade[o] = "none"
  /\ trade' = [trade EXCEPT ![o] = "prepaid"]
  /\ UNCHANGED <<dbVars, expired, acked, task, stale, crashes>>

\* The customer confirms in the WeChat cashier.
WechatCharges(o) ==
  /\ trade[o] = "prepaid"
  /\ trade' = [trade EXCEPT ![o] = "SUCCESS"]
  /\ UNCHANGED <<dbVars, expired, acked, task, stale, crashes>>

\* Fifteen minutes have passed since the order was created.
WindowCloses(o) ==
  /\ status[o] # "none"
  /\ ~expired[o]
  /\ expired' = [expired EXCEPT ![o] = TRUE]
  /\ UNCHANGED <<dbVars, trade, acked, task, stale, crashes>>

-----------------------------------------------------------------------------
(* closeStalePendingOrders, called by the cron and before an order is listed *)

OverdueWithCoupon == {o \in Orders : status[o] = "pending-payment" /\ expired[o]
                                       /\ couponOf[o] # NoCoupon}
Overdue == {o \in Orders : status[o] = "pending-payment" /\ expired[o]}

SweepRead ==
  /\ stale = {}
  /\ stale' = Overdue
  /\ stale' # {}
  /\ UNCHANGED <<dbVars, expired, trade, acked, task, crashes>>

\* The orders read as stale that the conditional update still finds unpaid.
ClosingUnchecked == stale
Closing == {o \in stale : status[o] = "pending-payment"}

SweepClose ==
  /\ stale # {}
  /\ status' = [o \in Orders |-> IF o \in Closing THEN "cancelled" ELSE status[o]]
  /\ MoveCoupons({couponOf[o] : o \in Closing}, {"locked"}, "released")
  /\ stale' = {}
  /\ UNCHANGED <<couponOf, paidAt, expired, stock, trade, acked, task, crashes>>

-----------------------------------------------------------------------------
(* notify and status: two ways into applyPayment *)

At(h, pc) == task[h].pc = pc
Goto(h, pc) == task' = [task EXCEPT ![h].pc = pc]

\* WeChat delivers, and redelivers, the notification of a successful trade.
Notify(h, o) ==
  /\ At(h, "idle")
  /\ trade[o] = "SUCCESS"
  /\ task' = [task EXCEPT ![h] = [pc |-> "apply", order |-> o, from |-> "notify"]]
  /\ UNCHANGED <<dbVars, expired, trade, acked, stale, crashes>>

StatusRead(h, o) ==
  /\ At(h, "idle")
  /\ status[o] = "pending-payment"
  /\ task' = [task EXCEPT ![h] = [pc |-> "query", order |-> o, from |-> "status"]]
  /\ UNCHANGED <<dbVars, expired, trade, acked, stale, crashes>>

\* Any other answer, and a query that fails, only ends the request.
StatusQuery(h) ==
  /\ At(h, "query")
  /\ \/ trade[task[h].order] = "SUCCESS" /\ Goto(h, "apply")
     \/ task' = [task EXCEPT ![h] = Idle]
  /\ UNCHANGED <<dbVars, expired, trade, acked, stale, crashes>>

InStockUnchecked(o) == TRUE
InStock(o) == \A p \in Products : stock[p] >= Qty[o][p]

\* pay() up to its conditional update.  A timed-out order is closed and its
\* coupon released, but in the transaction that the throw then rolls back.
PayRead(h) ==
  LET o == task[h].order
  IN /\ At(h, "apply")
     /\ \/ status[o] = "paid" /\ Goto(h, "done")
        \/ status[o] # "paid" /\ expired[o] /\ Goto(h, "failed")
        \/ status[o] \notin {"paid", "pending-payment"} /\ Goto(h, "failed")
        \/ status[o] = "pending-payment" /\ ~expired[o]
           /\ Goto(h, IF InStock(o) THEN "reserve" ELSE "failed")
     /\ UNCHANGED <<dbVars, expired, trade, acked, stale, crashes>>

\* The conditions of pay's updates: unpaid still, and enough of every line.
PayableUnlocked(o) == InStock(o)
Payable(o) == status[o] = "pending-payment" /\ InStock(o)

\* pay() from its conditional update to the commit, or to the throw that
\* undoes it: the order is no longer pending, or a line is short of stock.
PayCommit(h) ==
  LET o == task[h].order
  IN /\ At(h, "reserve")
     /\ IF Payable(o)
          THEN /\ status' = [status EXCEPT ![o] = "paid"]
               /\ paidAt' = [paidAt EXCEPT ![o] = TRUE]
               /\ stock' = [p \in Products |-> stock[p] - Qty[o][p]]
               /\ MoveCoupons({couponOf[o]}, {"locked"}, "used")
               /\ Goto(h, "done")
          ELSE /\ Goto(h, "failed")
               /\ UNCHANGED <<status, paidAt, stock, couponState>>
     /\ UNCHANGED <<couponOf, expired, trade, acked, stale, crashes>>

\* The transaction is aborted (deadlock, time limit, lost connection).
PayAborts(h) ==
  /\ task[h].pc \in {"apply", "reserve"}
  /\ Goto(h, "failed")
  /\ UNCHANGED <<dbVars, expired, trade, acked, stale, crashes>>

FreezableUnpaid(o) == status[o] = "pending-payment"
FreezableAlways(o) == TRUE
Freezable(o) == status[o] \in {"pending-payment", "cancelled"}

\* applyPayment's catch block: the charge is real, so the order is frozen.
Freeze(h) ==
  LET o == task[h].order
  IN /\ At(h, "failed")
     /\ status' = IF Freezable(o)
                    THEN [status EXCEPT ![o] = "exception"]
                    ELSE status
     /\ Goto(h, "done")
     /\ UNCHANGED <<couponOf, paidAt, expired, couponState, stock, trade, acked, stale, crashes>>

Answer(h) ==
  /\ At(h, "done")
  /\ acked' = IF task[h].from = "notify"
                THEN [acked EXCEPT ![task[h].order] = TRUE]
                ELSE acked
  /\ task' = [task EXCEPT ![h] = Idle]
  /\ UNCHANGED <<dbVars, expired, trade, stale, crashes>>

\* The process dies: open transactions roll back, nobody is answered.
Crash ==
  /\ crashes < MaxCrashes
  /\ crashes' = crashes + 1
  /\ task' = [h \in Handlers |-> Idle]
  /\ stale' = {}
  /\ UNCHANGED <<dbVars, expired, trade, acked>>

-----------------------------------------------------------------------------
(* The warehouse *)

Advance(o) ==
  /\ status[o] \in {"paid", "picking"}
  /\ status' = [status EXCEPT ![o] = IF status[o] = "paid" THEN "picking"
                                                            ELSE "waiting-first-mile"]
  /\ UNCHANGED <<couponOf, paidAt, expired, couponState, stock, trade, acked, task, stale, crashes>>

Outbound(o) ==
  /\ status[o] \in {"paid", "picking"}
  /\ status' = [status EXCEPT ![o] = "waiting-first-mile"]
  /\ UNCHANGED <<couponOf, paidAt, expired, couponState, stock, trade, acked, task, stale, crashes>>

-----------------------------------------------------------------------------
Customer(o) == \/ \E c \in Coupons \cup {NoCoupon} : CreateOrder(o, c)
               \/ Cancel(o) \/ Prepay(o) \/ WechatCharges(o) \/ WindowCloses(o)

Working(h) == StatusQuery(h) \/ PayRead(h) \/ PayCommit(h) \/ Freeze(h) \/ Answer(h)

Request(h) == \/ \E o \in Orders : Notify(h, o) \/ StatusRead(h, o)
              \/ Working(h) \/ PayAborts(h)

Next == \/ \E o \in Orders : Customer(o) \/ Advance(o) \/ Outbound(o)
        \/ \E h \in Handlers : Request(h)
        \/ SweepRead \/ SweepClose \/ Crash

Safety == Init /\ [][Next]_vars

(* Fairness.  The cron runs every minute; a request that has started is run *)
(* to its end by the event loop; WeChat redelivers a notification until it  *)
(* is answered SUCCESS, whatever else the server is busy with.              *)
Fairness ==
  /\ WF_vars(SweepRead) /\ WF_vars(SweepClose)
  /\ \A h \in Handlers : WF_vars(Working(h))
  /\ \A o \in Orders : SF_vars(~acked[o] /\ \E h \in Handlers : Notify(h, o))

Spec == Safety /\ Fairness

-----------------------------------------------------------------------------
(* What must hold *)

\* The goods of paid orders and the stock left always add up to the stock
\* there was: no interleaving of duplicate notifications, status polls and
\* concurrent payments of other orders deducts twice, loses a deduction or
\* oversells (pay's conditional update and its guarded decrement).
StockAccounted ==
  \A p \in Products :
    stock[p] + SumFunctionOnSet([o \in Orders |-> Qty[o][p]], {o \in Orders : paidAt[o]})
      = InitialStock[p]

\* An order has the benefit of its coupon while it awaits payment and once
\* it is paid.
UsesCoupon(o) == couponOf[o] # NoCoupon /\ (status[o] = "pending-payment" \/ paidAt[o])

\* A coupon discounts at most one order, although cancel, the timeout sweep
\* and pay release and consume it without looking at which order locked it.
CouponExclusive ==
  \A o1, o2 \in Orders :
    UsesCoupon(o1) /\ UsesCoupon(o2) /\ couponOf[o1] = couponOf[o2] => o1 = o2

\* The coupon's own status agrees with the orders: locked for the order that
\* awaits payment, used for the paid one, and never left locked by an order
\* that is closed (createOrder, closeStalePendingOrders, cancel, pay).
CouponFollowsOrder ==
  /\ \A o \in Orders : UsesCoupon(o) =>
       couponState[couponOf[o]] = IF paidAt[o] THEN "used" ELSE "locked"
  /\ \A c \in Coupons : couponState[c] = "locked" =>
       \E o \in Orders : couponOf[o] = c /\ status[o] \in {"pending-payment", "exception"}

\* Once WeChat has been told that the notification is processed it will not
\* be sent again, so by then the order is paid or frozen for a human: the
\* charge is never acknowledged for an order left open or closed.
AckedIsSettled ==
  \A o \in Orders : acked[o] => status[o] \notin {"none", "pending-payment", "cancelled"}

\* A closed order is not revived by a late payment, and a paid one is neither
\* closed by the sweep nor frozen by a duplicate or failing callback.
ClosedOrPaidForGood ==
  [][\A o \in Orders :
       /\ status[o] = "cancelled" => status'[o] \in {"cancelled", "exception"}
       /\ paidAt[o] => paidAt'[o] /\ status'[o] \notin {"pending-payment", "cancelled", "exception"}]_vars

\* Every successful charge ends with the order paid or frozen, even when the
\* process crashes between the payment transaction and the freeze.
ChargeIsSettled ==
  \A o \in Orders :
    trade[o] = "SUCCESS" ~> status[o] \notin {"none", "pending-payment", "cancelled"}

\* An order that nobody pays does not stay open past its payment window.
StaleOrderCloses ==
  \A o \in Orders :
    status[o] = "pending-payment" /\ expired[o] ~> status[o] # "pending-payment"

\* The promise to the customer, implemented by all of the above.
Promise == INSTANCE PaymentPromise WITH
  charged <- {o \in Orders : trade[o] = "SUCCESS"},
  outcome <- [o \in Orders |->
                CASE status[o] \in {"none", "pending-payment"} -> "open"
                  [] status[o] = "cancelled" -> "closed"
                  [] status[o] = "exception" -> "frozen"
                  [] OTHER -> "goods"]

PromiseKept == Promise!Spec

\* What the comment in pay says of a timed-out order: it is closed there and
\* then.  The throw that follows rolls the closing back; no run checks it.
TimedOutPayCloses ==
  [][\A h \in Handlers :
       LET o == task[h].order
       IN At(h, "apply") /\ expired[o] /\ status[o] = "pending-payment" /\ PayRead(h)
            => status'[o] = "cancelled"]_vars
=============================================================================
