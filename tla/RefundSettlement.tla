-------------------------- MODULE RefundSettlement --------------------------
(***************************************************************************)
(* The refunds of one paid order: the customer's applications and          *)
(* withdrawals (BusinessService), the staff's audit, the shop's own        *)
(* refunds, the settlement of what WeChat answers (AdminService), the five *)
(* minute cron that queries outstanding refunds, and WeChat's refund       *)
(* callbacks.  Each request is a worker: what it read stays in its task    *)
(* and may be stale when it writes.  A transaction is one step; the call   *)
(* to WeChat is a step of its own between two of them.                     *)
(***************************************************************************)
EXTENDS Integers, FiniteSets, FiniteSetsExt

CONSTANTS
  Refunds,        \* rows of the Refund table the order may get
  Workers,        \* requests that run at once
  NoRefund,
  Goods,          \* payableAmount - deliveryFee
  Fee,            \* deliveryFee
  ListPrice,      \* productAmount: the goods before the coupon's discount
  Awards,         \* amounts that a set of order lines may come to
  MaxFaults       \* bound on crashes and aborted transactions (checking only)

ASSUME AmountAssumption == /\ Goods \in Nat \ {0} /\ Fee \in Nat
                           /\ ListPrice \in Nat \ {0}
                           /\ Awards \subseteq Nat \ {0}
ASSUME FaultAssumption == MaxFaults \in Nat
ASSUME NoneAssumption == NoRefund \notin Refunds

VARIABLES
  order,          \* Order.status
  shipped,        \* the order has its 'out' rows in InventoryTxn
  stockRestored,  \* Order.stockRestored
  restocked,      \* how often the goods were added back to Product.stock
  coupon,         \* UserCoupon.status of the order's coupon
  refund,         \* the Refund rows
  wx,             \* WeChat's record of each refund, by out_refund_no
  adjusted,       \* cumulative refund that the commission clawback accounts for
  task,           \* what each request has read and is about to do
  faults

dbVars == <<order, shipped, stockRestored, restocked, coupon, refund, adjusted>>
vars == <<order, shipped, stockRestored, restocked, coupon, refund, wx, adjusted, task, faults>>

Undelivered == {"paid", "waiting-first-mile", "first-mile"}
OrderStatuses == Undelivered \cup {"delivered", "completed", "after-sales", "refunded"}
RefundStatuses == {"none", "pending", "approved", "refunding", "refunded",
                   "failed", "rejected", "cancelled"}
Active == {"pending", "approved", "refunding", "refunded"}
Answers == {"none", "SUCCESS", "PROCESSING", "CLOSED", "ABNORMAL", "refused", "unknown"}
Steps == {"idle", "unshipped", "audit", "claim", "call", "answered", "unlock", "finish",
          "clawback", "query", "reconcile", "processing", "closed", "cancel", "reject"}

NoRow == [status |-> "none", source |-> "none", amount |-> 0, before |-> "none", fee |-> FALSE]
Idle == [pc |-> "idle", r |-> NoRefund, sawRefund |-> "none", sawOrder |-> "none",
         answer |-> "none", fee |-> FALSE, by |-> "none", total |-> 0]

Payable == Goods + Fee

TypeOK ==
  /\ order \in OrderStatuses
  /\ shipped \in BOOLEAN /\ stockRestored \in BOOLEAN
  /\ restocked \in Nat
  /\ coupon \in {"used", "released"}
  /\ refund \in [Refunds -> [status : RefundStatuses, source : {"none", "pre-delivery", "after-sale"},
                             amount : Nat, before : OrderStatuses \cup {"none"}, fee : BOOLEAN]]
  /\ wx \in [Refunds -> [status : {"none", "PROCESSING", "SUCCESS", "CLOSED"}, amount : Nat]]
  /\ adjusted \in Nat
  /\ task \in [Workers -> [pc : Steps, r : Refunds \cup {NoRefund}, sawRefund : RefundStatuses,
                           sawOrder : OrderStatuses \cup {"none"}, answer : Answers,
                           fee : BOOLEAN, by : {"none", "audit", "sync"}, total : Nat]]
  /\ faults \in 0..MaxFaults

Init ==
  /\ order = "paid"
  /\ shipped = FALSE /\ stockRestored = FALSE
  /\ restocked = 0
  /\ coupon = "used"
  /\ refund = [r \in Refunds |-> NoRow]
  /\ wx = [r \in Refunds |-> [status |-> "none", amount |-> 0]]
  /\ adjusted = 0
  /\ task = [w \in Workers |-> Idle]
  /\ faults = 0

-----------------------------------------------------------------------------
(* Amounts and statuses *)

SumOf(rs) == SumFunctionOnSet([r \in Refunds |-> refund[r].amount], rs)
Reserved == SumOf({r \in Refunds : refund[r].status \in Active})
ReservedBut(x) == SumOf({r \in Refunds \ {x} : refund[r].status \in Active})
RefundedButAlone(x) == 0
RefundedBut(x) == SumOf({r \in Refunds \ {x} : refund[r].status = "refunded"})

Ceiling(withFee) == IF withFee THEN Payable ELSE Goods

\* Where a withdrawn, rejected, failed or partial refund leaves the order.
RestoreTargetAsStored(before) == before
RestoreTarget(before) ==
  IF before \in Undelivered \cup {"delivered", "completed"} THEN before ELSE "delivered"
\* The customer side restores fewer statuses.
RestoreTargetOfCancel(before) ==
  IF before \in {"paid", "delivered", "completed"} THEN before ELSE "delivered"

Unlock(target) == order' = IF order = "after-sales" THEN target ELSE order

Row(status, source, amount, before, withFee) ==
  [status |-> status, source |-> source, amount |-> amount, before |-> before, fee |-> withFee]

\* WeChat's word that the money has gone back.
SettledOnceAccepted(answer) == answer \in {"SUCCESS", "PROCESSING"}
Settled(answer) == answer = "SUCCESS"

At(w, pc) == task[w].pc = pc
Free(r) == refund[r].status = "none"
Leave(w) == task' = [task EXCEPT ![w] = Idle]

-----------------------------------------------------------------------------
(* Fulfilment, as far as refunds see it *)

Fulfil ==
  /\ \/ order = "paid" /\ order' = "waiting-first-mile" /\ shipped' = TRUE
     \/ order = "waiting-first-mile" /\ order' = "first-mile" /\ UNCHANGED shipped
     \/ order = "first-mile" /\ order' = "delivered" /\ UNCHANGED shipped
     \/ order = "delivered" /\ order' = "completed" /\ UNCHANGED shipped
  /\ UNCHANGED <<stockRestored, restocked, coupon, refund, wx, adjusted, task, faults>>

-----------------------------------------------------------------------------
(* Applications *)

\* applyPreDeliveryRefund and createAfterSales, both through createRefund.
Apply(r) ==
  /\ Free(r)
  /\ \E amount \in Awards \cup {Goods} :
       /\ order = "paid" => amount = Goods
       /\ order \in {"paid", "delivered", "completed"}
       /\ amount <= Goods - Reserved
       /\ refund' = [refund EXCEPT ![r] =
            Row("pending", IF order = "paid" THEN "pre-delivery" ELSE "after-sale", amount, order, FALSE)]
       /\ order' = "after-sales"
  /\ UNCHANGED <<shipped, stockRestored, restocked, coupon, wx, adjusted, task, faults>>

\* createUnshippedFullRefund: finds no refund going, then creates one.
UnshippedCheck(w, r) ==
  /\ At(w, "idle") /\ Free(r)
  /\ order \in Undelivered
  /\ \A x \in Refunds : refund[x].status \notin {"pending", "approved", "refunding"}
  /\ task' = [task EXCEPT ![w] = [Idle EXCEPT !.pc = "unshipped", !.r = r, !.sawOrder = order]]
  /\ UNCHANGED <<dbVars, wx, faults>>

UnshippedCreate(w) ==
  LET t == task[w]
  IN /\ At(w, "unshipped")
     /\ refund' = IF Free(t.r)
          THEN [refund EXCEPT ![t.r] = Row("pending", "pre-delivery", ListPrice, t.sawOrder, FALSE)]
          ELSE refund
     /\ Leave(w)
     /\ UNCHANGED <<order, shipped, stockRestored, restocked, coupon, wx, adjusted, faults>>

\* createAndApproveRefund of a delivered order: reserve, then audit at once.
CreateForStaff(w, r) ==
  /\ At(w, "idle") /\ Free(r)
  /\ order \in {"delivered", "completed", "after-sales"}
  /\ \E amount \in Awards :
       /\ amount + Reserved <= Payable
       /\ refund' = [refund EXCEPT ![r] =
            Row("pending", "after-sale", amount, IF order = "after-sales" THEN "none" ELSE order, TRUE)]
  /\ order' = "after-sales"
  /\ task' = [task EXCEPT ![w] = [Idle EXCEPT !.pc = "audit", !.r = r]]
  /\ UNCHANGED <<shipped, stockRestored, restocked, coupon, wx, adjusted, faults>>

-----------------------------------------------------------------------------
(* Withdrawal and rejection: the status is checked, then overwritten *)

CancelRead(w, r) ==
  /\ At(w, "idle")
  /\ refund[r].status = "pending"
  /\ task' = [task EXCEPT ![w] = [Idle EXCEPT !.pc = "cancel", !.r = r]]
  /\ UNCHANGED <<dbVars, wx, faults>>

CancelWrite(w) ==
  LET r == task[w].r
  IN /\ At(w, "cancel")
     /\ refund' = [refund EXCEPT ![r].status = "cancelled"]
     /\ Unlock(RestoreTargetOfCancel(refund[r].before))
     /\ Leave(w)
     /\ UNCHANGED <<shipped, stockRestored, restocked, coupon, wx, adjusted, faults>>

RejectRead(w, r) ==
  /\ At(w, "idle")
  /\ refund[r].status \in {"pending", "failed"}
  /\ task' = [task EXCEPT ![w] = [Idle EXCEPT !.pc = "reject", !.r = r]]
  /\ UNCHANGED <<dbVars, wx, faults>>

RejectWrite(w) ==
  LET r == task[w].r
  IN /\ At(w, "reject")
     /\ refund' = [refund EXCEPT ![r].status = "rejected"]
     /\ Unlock(RestoreTarget(refund[r].before))
     /\ Leave(w)
     /\ UNCHANGED <<shipped, stockRestored, restocked, coupon, wx, adjusted, faults>>

-----------------------------------------------------------------------------
(* auditRefund, approve *)

\* The read and every check on what it returned.  The staff member may decide
\* on the delivery fee, otherwise the order's progress and the campus do; right
\* after CreateForStaff the order is locked for after-sales: fee included.
ApproveRead(w, r) ==
  /\ At(w, "idle") \/ (At(w, "audit") /\ task[w].r = r)
  /\ IF /\ refund[r].status \in {"pending", "failed"}
        /\ \/ order \in {"after-sales", "delivered", "completed"}
           \/ refund[r].source = "pre-delivery" /\ order \in Undelivered
       THEN \E withFee \in IF At(w, "audit") THEN {TRUE} ELSE BOOLEAN :
              task' = [task EXCEPT ![w] =
                [Idle EXCEPT !.pc = "claim", !.r = r, !.sawRefund = refund[r].status,
                             !.sawOrder = order, !.fee = withFee]]
       ELSE At(w, "audit") /\ Leave(w)
  /\ UNCHANGED <<dbVars, wx, faults>>

\* The claim may settle on another amount for the lines of an after-sale.
Awardable(r) == IF refund[r].source = "pre-delivery" THEN {refund[r].amount}
                                                     ELSE Awards \cup {refund[r].amount}

ClaimValid(w) ==
  LET t == task[w]
  IN /\ refund[t.r].status = t.sawRefund
     /\ t.sawOrder # "after-sales" => order = t.sawOrder

\* The claim's transaction, or the throw that leaves everything as it was.
ApproveClaim(w) ==
  LET t == task[w] IN
  /\ At(w, "claim")
  /\ \/ \E amount \in Awardable(t.r) :
          /\ ClaimValid(w)
          /\ amount + ReservedBut(t.r) <= Ceiling(t.fee)
          /\ refund' = [refund EXCEPT ![t.r].status = "approved", ![t.r].amount = amount,
                                      ![t.r].fee = t.fee]
          /\ order' = IF t.sawOrder = "after-sales" THEN order ELSE "after-sales"
          /\ task' = [task EXCEPT ![w] = [Idle EXCEPT !.pc = "call", !.r = t.r, !.total = amount]]
     \/ /\ \/ ~ClaimValid(w)
           \/ \E amount \in Awardable(t.r) : amount + ReservedBut(t.r) > Ceiling(t.fee)
        /\ Leave(w)
        /\ UNCHANGED <<refund, order>>
  /\ UNCHANGED <<shipped, stockRestored, restocked, coupon, wx, adjusted, faults>>

\* WeChat's side of a refund request: it pays back no more than was paid, and
\* takes a known out_refund_no for the same refund.
WechatHeld(but) ==
  SumFunctionOnSet([r \in Refunds |-> wx[r].amount],
                   {r \in Refunds \ {but} : wx[r].status \in {"PROCESSING", "SUCCESS"}})

WechatTakes(r, amount, got) ==
  \/ /\ wx[r].status \in {"none", "CLOSED"}
     /\ amount + WechatHeld(r) <= Payable
     /\ got \in {"SUCCESS", "PROCESSING"}
     /\ wx' = [wx EXCEPT ![r] = [status |-> got, amount |-> amount]]
  \/ /\ wx[r].status \in {"none", "CLOSED"}
     /\ got = "refused"
     /\ UNCHANGED wx
  \/ /\ wx[r].status \in {"SUCCESS", "PROCESSING"}
     /\ got = IF wx[r].amount = amount THEN wx[r].status ELSE "refused"
     /\ UNCHANGED wx

\* applyWechatRefund: the request may be lost on its way there, or the answer
\* on its way back, and the caller cannot tell which.
CallWechat(w) ==
  LET t == task[w]
      learn(answer) == task' = [task EXCEPT ![w].pc = "answered", ![w].answer = answer, ![w].total = 0]
  IN /\ At(w, "call")
     /\ \/ \E got \in {"SUCCESS", "PROCESSING", "refused"} :
             /\ WechatTakes(t.r, t.total, got)
             /\ learn(got) \/ learn("unknown")
        \/ learn("unknown") /\ UNCHANGED wx
     /\ UNCHANGED <<dbVars, faults>>

\* What the audit records of WeChat's answer, whatever the row says by now.
RecordAnswer(w) ==
  LET t == task[w] IN
  /\ At(w, "answered")
  /\ \/ /\ Settled(t.answer)
        /\ task' = [task EXCEPT ![w].pc = "finish", ![w].by = "audit"]
        /\ UNCHANGED refund
     \/ /\ t.answer \in {"PROCESSING", "unknown"}
        /\ refund' = [refund EXCEPT ![t.r].status = "refunding"]
        /\ Leave(w)
     \/ /\ t.answer = "refused"
        /\ refund' = [refund EXCEPT ![t.r].status = "failed"]
        /\ task' = [task EXCEPT ![w].pc = "unlock"]
  /\ UNCHANGED <<order, shipped, stockRestored, restocked, coupon, wx, adjusted, faults>>

\* After a refusal the order is unlocked, in a statement of its own.
UnlockAfterRefusal(w) ==
  /\ At(w, "unlock")
  /\ Unlock(RestoreTarget(refund[task[w].r].before))
  /\ Leave(w)
  /\ UNCHANGED <<shipped, stockRestored, restocked, coupon, refund, wx, adjusted, faults>>

-----------------------------------------------------------------------------
(* finishRefund: serialised per order by an advisory lock *)

FullCeiling ==
  Ceiling(\E r \in Refunds : refund[r].fee /\ refund[r].status \in Active)

IsFull(r) == \/ refund[r].source = "pre-delivery"
             \/ RefundedBut(r) + refund[r].amount >= FullCeiling

AlreadyFinished(r) == refund[r].status = "refunded"

\* The goods go back to stock once per order.
GoodsReturnUnflagged(r) == refund[r].source = "pre-delivery"
GoodsReturn(r) == refund[r].source = "pre-delivery" /\ ~stockRestored

Finish(w) ==
  LET r == task[w].r IN
  /\ At(w, "finish")
  /\ IF AlreadyFinished(r)
       THEN Leave(w) /\ UNCHANGED <<order, stockRestored, restocked, coupon, refund>>
       ELSE /\ order' = IF IsFull(r) THEN "refunded" ELSE RestoreTarget(refund[r].before)
            /\ refund' = [refund EXCEPT ![r].status = "refunded"]
            /\ restocked' = IF GoodsReturn(r) THEN restocked + 1 ELSE restocked
            /\ stockRestored' = (stockRestored \/ refund[r].source = "pre-delivery")
            /\ coupon' = IF refund[r].source = "pre-delivery" THEN "released" ELSE coupon
            /\ task' = [task EXCEPT ![w].pc = "clawback", ![w].total = RefundedBut(r) + refund[r].amount]
  /\ UNCHANGED <<shipped, wx, adjusted, faults>>

\* refundAdjust runs in a second transaction, with the total of the first; the
\* audit's entry follows.  Goods that were not delivered earned no commission.
Clawed(w) == IF refund[task[w].r].source = "pre-delivery" THEN adjusted ELSE task[w].total

Clawback(w) ==
  /\ At(w, "clawback")
  /\ adjusted' = Clawed(w)
  /\ Leave(w)
  /\ UNCHANGED <<order, shipped, stockRestored, restocked, coupon, refund, wx, faults>>

\* Either of the two may fail after the refund is settled: a callback or the
\* cron is over then, and auditRefund takes the exception for an outcome of
\* WeChat's that it does not know.
ClawbackAborts(w) ==
  /\ At(w, "clawback")
  /\ faults < MaxFaults
  /\ faults' = faults + 1
  /\ adjusted' \in {adjusted, Clawed(w)}
  /\ \/ task[w].by = "sync" /\ Leave(w)
     \/ task[w].by = "audit" /\ task' = [task EXCEPT ![w].pc = "answered", ![w].answer = "unknown"]
  /\ UNCHANGED <<order, shipped, stockRestored, restocked, coupon, refund, wx>>

\* The transaction is rolled back: the order moved under it (a refusal, to
\* the audit), or the database failed (an outcome unknown, to the audit).
FinishAborts(w) ==
  LET t == task[w] IN
  /\ At(w, "finish")
  /\ faults < MaxFaults
  /\ faults' = faults + 1
  /\ \/ t.by = "sync" /\ Leave(w) /\ UNCHANGED refund
     \/ /\ t.by = "audit"
        /\ \E got \in {"refused", "unknown"} :
             task' = [task EXCEPT ![w].pc = "answered", ![w].answer = got]
        /\ UNCHANGED refund
  /\ UNCHANGED <<order, shipped, stockRestored, restocked, coupon, wx, adjusted>>

-----------------------------------------------------------------------------
(* syncRefund, refundNotify and reconcileWechatRefundStatus *)

OutstandingUnclaimed(r) == refund[r].status \in {"refunding", "failed"}
OutstandingUnfailed(r) == refund[r].status \in {"approved", "refunding"}
Outstanding(r) == refund[r].status \in {"approved", "refunding", "failed"}

SyncRead(w, r) ==
  /\ At(w, "idle")
  /\ Outstanding(r)
  /\ task' = [task EXCEPT ![w] = [Idle EXCEPT !.pc = "query", !.r = r]]
  /\ UNCHANGED <<dbVars, wx, faults>>

\* WeChat answers 404 for a refund it has not received: ABNORMAL.
QueryWechat(w) ==
  LET found == wx[task[w].r].status
  IN /\ At(w, "query")
     /\ task' = [task EXCEPT ![w].pc = "reconcile",
                             ![w].answer = IF found = "none" THEN "ABNORMAL" ELSE found]
     /\ UNCHANGED <<dbVars, wx, faults>>

\* WeChat reports an end state, and repeats itself.
Callback(w, r) ==
  /\ At(w, "idle")
  /\ wx[r].status \in {"SUCCESS", "CLOSED"}
  /\ task' = [task EXCEPT ![w] =
       [Idle EXCEPT !.pc = "reconcile", !.r = r, !.answer = wx[r].status]]
  /\ UNCHANGED <<dbVars, wx, faults>>

ReconcileRead(w) ==
  LET t == task[w]
      goto(pc, saw) == task' = [task EXCEPT ![w].pc = pc, ![w].sawOrder = saw, ![w].by = "sync"]
  IN /\ At(w, "reconcile")
     /\ \/ AlreadyFinished(t.r) /\ Leave(w)
        \/ /\ ~AlreadyFinished(t.r)
           /\ \/ Settled(t.answer) /\ goto("finish", "none")
              \/ t.answer = "PROCESSING" /\ goto("processing", order)
              \/ t.answer \in {"CLOSED", "ABNORMAL"} /\ goto("closed", "none")
     /\ UNCHANGED <<dbVars, wx, faults>>

RecordProcessing(w) ==
  LET t == task[w]
  IN /\ At(w, "processing")
     /\ order' = IF order \in {t.sawOrder, "after-sales"} THEN "after-sales" ELSE order
     /\ refund' = [refund EXCEPT ![t.r].status = "refunding"]
     /\ Leave(w)
     /\ UNCHANGED <<shipped, stockRestored, restocked, coupon, wx, adjusted, faults>>

RecordClosed(w) ==
  LET r == task[w].r
  IN /\ At(w, "closed")
     /\ refund' = [refund EXCEPT ![r].status = "failed"]
     /\ Unlock(RestoreTarget(refund[r].before))
     /\ Leave(w)
     /\ UNCHANGED <<shipped, stockRestored, restocked, coupon, wx, adjusted, faults>>

-----------------------------------------------------------------------------
(* WeChat and the process *)

WechatSettles(r) ==
  /\ wx[r].status = "PROCESSING"
  /\ \E end \in {"SUCCESS", "CLOSED"} : wx' = [wx EXCEPT ![r].status = end]
  /\ UNCHANGED <<dbVars, task, faults>>

Crash ==
  /\ faults < MaxFaults
  /\ faults' = faults + 1
  /\ task' = [w \in Workers |-> Idle]
  /\ UNCHANGED <<dbVars, wx>>

Starts(w, r) == \/ UnshippedCheck(w, r) \/ CreateForStaff(w, r)
                \/ CancelRead(w, r) \/ RejectRead(w, r) \/ ApproveRead(w, r)
                \/ SyncRead(w, r) \/ Callback(w, r)

\* The steps of a request that is under way.
Works(w) == \/ UnshippedCreate(w) \/ CancelWrite(w) \/ RejectWrite(w)
            \/ ApproveClaim(w) \/ CallWechat(w) \/ RecordAnswer(w)
            \/ UnlockAfterRefusal(w) \/ Finish(w) \/ Clawback(w)
            \/ QueryWechat(w) \/ ReconcileRead(w) \/ RecordProcessing(w) \/ RecordClosed(w)

Next == \/ Fulfil \/ Crash
        \/ \E r \in Refunds : Apply(r) \/ WechatSettles(r)
        \/ \E w \in Workers, r \in Refunds : Starts(w, r)
        \/ \E w \in Workers : Works(w) \/ FinishAborts(w) \/ ClawbackAborts(w)

Safety == Init /\ [][Next]_vars

\* The same while no settlement is rolled back; requests may still die anywhere
\* and what follows a settlement may still fail.
NoneRolledBack == \A w \in Workers : ~FinishAborts(w)
Unbroken == Init /\ [][Next /\ NoneRolledBack]_vars

(* Fairness: a request under way is run to its end; the cron comes back to  *)
(* every outstanding row (its batch of 100 is ordered by updatedAt); WeChat *)
(* settles what it has accepted.  Callbacks are not relied upon.            *)
Fairness ==
  /\ \A w \in Workers : WF_vars(Works(w))
  /\ \A r \in Refunds : WF_vars(WechatSettles(r))
  /\ \A r \in Refunds : SF_vars(\E w \in Workers : SyncRead(w, r))

Spec == Safety /\ Fairness

-----------------------------------------------------------------------------
(* What must hold *)

\* A row says refunded only if WeChat has returned the money, whichever of
\* audit, callback and cron settled it and however late (finishRefund is only
\* reached with WeChat's SUCCESS).
RefundedAtWechat ==
  \A r \in Refunds : refund[r].status = "refunded" => wx[r].status = "SUCCESS"

\* An order is shown as refunded only if money went back for it.
RefundedOrderIsPaidBack ==
  order = "refunded" => \E r \in Refunds : wx[r].status = "SUCCESS"

\* The goods return to stock at most once for the order, and only together
\* with the coupon and for a refund that WeChat has paid: the flag protects
\* against a second pre-delivery refund and against settling a row twice.
GoodsReturnOnce ==
  /\ restocked = IF stockRestored THEN 1 ELSE 0
  /\ stockRestored => /\ coupon = "released"
                      /\ \E r \in Refunds : refund[r].source = "pre-delivery" /\ wx[r].status = "SUCCESS"

\* Partial refunds that together return all that was paid leave the order
\* refunded, or locked while a further refund is under way; finishRefund's
\* advisory lock is there so that two of them cannot both see a partial one.
\* It needs one request at a time and no settlement rolled back: otherwise the
\* recorded amounts are not those paid (see RecordedAmountIsPaid).
AllPaidBackEndsOrder ==
  SumOf({r \in Refunds : refund[r].status = "refunded"}) >= Payable
    => order \in {"refunded", "after-sales"}

\* A refund that staff have approved does not stay in flight for ever, though
\* the process may die between the claim, the call and the record.
InFlightSettles ==
  \A r \in Refunds :
    refund[r].status \in {"approved", "refunding"} ~> refund[r].status \notin {"approved", "refunding"}

\* Money that WeChat has returned is recorded, by the cron alone and even if
\* the row was marked failed meanwhile, unless it was withdrawn or rejected.
PaidBackIsRecorded ==
  \A r \in Refunds :
    wx[r].status = "SUCCESS" ~> refund[r].status \in {"refunded", "cancelled", "rejected"}

\* The after-sales lock on the order does not outlive the refunds it is for:
\* a crash between marking a refund failed and unlocking the order is healed.
LockIsNotOrphaned ==
  LET Orphaned == order = "after-sales"
                  /\ \A r \in Refunds : refund[r].status \notin {"pending", "approved", "refunding"}
  IN Orphaned ~> ~Orphaned

\* The comment on auditRefund's claim: no losing audit may change the amount
\* that WeChat is paying.  A refund settled here has WeChat's amount.
RecordedAmountIsPaid ==
  \A r \in Refunds : refund[r].status = "refunded" => refund[r].amount = wx[r].amount

\* The comment on createUnshippedFullRefund: goods that have left the
\* warehouse are not added back to stock.
ShippedGoodsStayOut == shipped => restocked = 0
=============================================================================
