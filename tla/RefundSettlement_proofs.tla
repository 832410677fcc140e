----------------------- MODULE RefundSettlement_proofs -----------------------
(***************************************************************************)
(* Proofs about RefundSettlement, for any refunds, requests, amounts and   *)
(* number of crashes.                                                      *)
(*                                                                         *)
(* That a row says refunded only with WeChat's money behind it is not      *)
(* inductive: finishRefund does not look at WeChat, it trusts the request  *)
(* that called it.  IInv says what every request on its way to Finish      *)
(* knows: an answer SUCCESS that it carries, however old, is still WeChat's *)
(* word, since WeChat never takes a SUCCESS back.                          *)
(*                                                                         *)
(* That refunds which return everything end the order is about sums:       *)
(* RefundsAgree says that the rows hold what WeChat has taken, which is no *)
(* more than was paid, and that what the one request has read still holds. *)
(***************************************************************************)
EXTENDS RefundSettlement, Sums, TLAPS

\* A request that is under way works on a refund.
Busy == \A w \in Workers : task[w].pc # "idle" => task[w].r \in Refunds

\* Only finitely many rows have been written, so that the sums are numbers.
Rows == {r \in Refunds : refund[r].status # "none"}

\* A row that is free has no source yet.
FreshRows == \A r \in Refunds : Free(r) => refund[r].source = "none"

Trusts(t) == \/ t.pc = "finish"
             \/ t.pc \in {"answered", "reconcile"} /\ t.answer = "SUCCESS"
Paid(r) == wx[r].status = "SUCCESS"

\* What a request has heard from WeChat is so.
TrustIsEarned == \A w \in Workers : Trusts(task[w]) => Paid(task[w].r)

TypeInv == TypeOK /\ Busy /\ IsFiniteSet(Rows)

IInv == /\ TypeInv
        /\ FreshRows
        /\ TrustIsEarned
        /\ RefundedAtWechat
        /\ RefundedOrderIsPaidBack
        /\ GoodsReturnOnce

RowSet == [status : RefundStatuses, source : {"none", "pre-delivery", "after-sale"},
           amount : Nat, before : OrderStatuses \cup {"none"}, fee : BOOLEAN]
TaskSet == [pc : Steps, r : Refunds \cup {NoRefund}, sawRefund : RefundStatuses,
            sawOrder : OrderStatuses \cup {"none"}, answer : Answers,
            fee : BOOLEAN, by : {"none", "audit", "sync"}, total : Nat]
WechatSet == [status : {"none", "PROCESSING", "SUCCESS", "CLOSED"}, amount : Nat]

USE AmountAssumption, FaultAssumption, NoneAssumption

-----------------------------------------------------------------------------
(* Rows and tasks *)

\* A statement writes one row, ...
Writes(r) == \A x \in Refunds \ {r} : refund'[x] = refund[x]

\* ... so that the rows stay finite in number.
LEMMA RowsStayFinite ==
  ASSUME TypeInv, NEW r \in Refunds, Writes(r)
  PROVE  IsFiniteSet(Rows')
<1>1. Rows' \subseteq Rows \cup {r}
  BY DEF Rows, Writes
<1>2. IsFiniteSet(Rows \cup {r})
  BY FS_AddElement DEF TypeInv
<1>3. QED
  BY <1>1, <1>2, FS_Subset

\* A sum over rows that have been written is a natural number.
LEMMA SumOfType ==
  ASSUME TypeInv, NEW rs \in SUBSET Rows
  PROVE  SumOf(rs) \in Nat
<1> DEFINE f == [r \in Refunds |-> refund[r].amount]
<1>1. IsFiniteSet(rs)
  BY FS_Subset DEF TypeInv
<1>2. \A r \in rs : f[r] \in Nat
  BY DEF TypeInv, TypeOK, Rows
<1>3. QED
  BY <1>1, <1>2, SumType DEF SumOf

LEMMA RefundedButType ==
  ASSUME TypeInv, NEW r \in Refunds
  PROVE  RefundedBut(r) \in Nat
BY SumOfType DEF RefundedBut, Rows

\* A statement that changes the status alone of a row.
Marks(r, s) == refund' = [refund EXCEPT ![r].status = s]

LEMMA MarksOne ==
  ASSUME TypeInv, NEW r \in Refunds, NEW s \in RefundStatuses, Marks(r, s)
  PROVE  /\ refund' \in [Refunds -> RowSet]
         /\ Writes(r)
         /\ refund'[r].status = s
         /\ \A x \in Refunds : refund'[x].source = refund[x].source
BY SMTT(30) DEF TypeInv, TypeOK, Marks, Writes, RowSet

\* The insertion of a row.
Inserts(r, row) == refund' = [refund EXCEPT ![r] = row]

LEMMA InsertsOne ==
  ASSUME TypeInv, NEW r \in Refunds, NEW row \in RowSet, Inserts(r, row)
  PROVE  /\ refund' \in [Refunds -> RowSet]
         /\ Writes(r)
         /\ refund'[r] = row
BY DEF TypeInv, TypeOK, Inserts, Writes, RowSet

\* A restored order has one of the order's statuses, and never "refunded".
LEMMA TargetType ==
  ASSUME NEW b
  PROVE  /\ RestoreTarget(b) \in OrderStatuses \ {"refunded"}
         /\ RestoreTargetOfCancel(b) \in OrderStatuses \ {"refunded"}
BY DEF RestoreTarget, RestoreTargetOfCancel, OrderStatuses, Undelivered

\* A request moves on: its record has the type of tasks and works on a refund.
Moves(w, t) == task' = [task EXCEPT ![w] = t]

LEMMA MovesOne ==
  ASSUME TypeInv, NEW w \in Workers, NEW t \in TaskSet, t.pc # "idle" => t.r \in Refunds,
         Moves(w, t)
  PROVE  /\ task' \in [Workers -> TaskSet]
         /\ Busy'
         /\ task'[w] = t
         /\ \A v \in Workers \ {w} : task'[v] = task[v]
BY DEF TypeInv, TypeOK, Moves, Busy, TaskSet

LEMMA IdleTask == Idle \in TaskSet /\ Idle.pc = "idle"
BY DEF Idle, TaskSet, Steps, RefundStatuses, Answers

-----------------------------------------------------------------------------
(* Types *)

\* A step that leaves the rows as they are and gives w the record t.
LEMMA OnlyMoves ==
  ASSUME TypeInv, UNCHANGED refund, NEW w \in Workers, NEW t \in TaskSet,
         t.pc # "idle" => t.r \in Refunds, Moves(w, t),
         order' \in OrderStatuses, UNCHANGED <<shipped, stockRestored, restocked, coupon, adjusted>>,
         wx' \in [Refunds -> WechatSet],
         faults' \in 0..MaxFaults
  PROVE  TypeInv'
<1>1. task' \in [Workers -> TaskSet] /\ Busy'
  BY MovesOne
<1>2. TypeOK'
  BY <1>1 DEF TypeInv, TypeOK, TaskSet, WechatSet
<1>3. IsFiniteSet(Rows')
  BY DEF TypeInv, Rows
<1>4. QED
  BY <1>1, <1>2, <1>3 DEF TypeInv

\* A step that writes one row and gives w the record t.
LEMMA WritesAndMoves ==
  ASSUME TypeInv, NEW r \in Refunds, Writes(r), refund' \in [Refunds -> RowSet],
         NEW w \in Workers, NEW t \in TaskSet,
         t.pc # "idle" => t.r \in Refunds, Moves(w, t),
         order' \in OrderStatuses, UNCHANGED <<wx, shipped, adjusted, faults>>,
         stockRestored' \in BOOLEAN, restocked' \in Nat, coupon' \in {"used", "released"}
  PROVE  TypeInv'
<1>1. task' \in [Workers -> TaskSet] /\ Busy'
  BY MovesOne
<1>2. TypeOK'
  BY <1>1 DEF TypeInv, TypeOK, TaskSet, RowSet
<1>3. QED
  BY <1>1, <1>2, RowsStayFinite DEF TypeInv

LEMMA TypeOfStarts ==
  ASSUME TypeInv, NEW w \in Workers, NEW r \in Refunds, Starts(w, r)
  PROVE  TypeInv'
<1> USE DEF TaskSet, Steps, RefundStatuses, Answers, OrderStatuses, Undelivered
<1>0. order \in OrderStatuses /\ refund[r] \in RowSet /\ wx[r].status \in {"none", "PROCESSING", "SUCCESS", "CLOSED"}
  BY DEF TypeInv, TypeOK, RowSet
<1>1. CASE UnshippedCheck(w, r)
  <2>1. Moves(w, [Idle EXCEPT !.pc = "unshipped", !.r = r, !.sawOrder = order])
    BY <1>1 DEF UnshippedCheck, Moves
  <2>2. [Idle EXCEPT !.pc = "unshipped", !.r = r, !.sawOrder = order] \in TaskSet
    BY <1>0 DEF Idle
  <2>3. QED
    BY ZenonT(40), <1>1, <2>1, <2>2, OnlyMoves DEF WechatSet, UnshippedCheck, dbVars, Idle, TypeInv, TypeOK
<1>2. CASE CreateForStaff(w, r)
  <2>1. Moves(w, [Idle EXCEPT !.pc = "audit", !.r = r])
    BY <1>2 DEF CreateForStaff, Moves
  <2>2. [Idle EXCEPT !.pc = "audit", !.r = r] \in TaskSet
    BY DEF Idle
  <2>3. PICK amount \in Awards :
          Inserts(r, Row("pending", "after-sale", amount,
                         IF order = "after-sales" THEN "none" ELSE order, TRUE))
    BY <1>2 DEF CreateForStaff, Inserts
  <2>4. Row("pending", "after-sale", amount, IF order = "after-sales" THEN "none" ELSE order, TRUE)
          \in RowSet
    BY <1>0 DEF Row, RowSet
  <2>5. refund' \in [Refunds -> RowSet] /\ Writes(r)
    BY <2>3, <2>4, InsertsOne
  <2>6. QED
    BY ZenonT(40), <1>2, <2>1, <2>2, <2>5, WritesAndMoves DEF CreateForStaff, Idle, TypeInv, TypeOK
<1>3. CASE CancelRead(w, r)
  <2>1. Moves(w, [Idle EXCEPT !.pc = "cancel", !.r = r])
    BY <1>3 DEF CancelRead, Moves
  <2>2. [Idle EXCEPT !.pc = "cancel", !.r = r] \in TaskSet
    BY DEF Idle
  <2>3. QED
    BY <1>3, <2>1, <2>2, OnlyMoves DEF WechatSet, CancelRead, dbVars, Idle, TypeInv, TypeOK
<1>4. CASE RejectRead(w, r)
  <2>1. Moves(w, [Idle EXCEPT !.pc = "reject", !.r = r])
    BY <1>4 DEF RejectRead, Moves
  <2>2. [Idle EXCEPT !.pc = "reject", !.r = r] \in TaskSet
    BY DEF Idle
  <2>3. QED
    BY <1>4, <2>1, <2>2, OnlyMoves DEF WechatSet, RejectRead, dbVars, Idle, TypeInv, TypeOK
<1>5. CASE ApproveRead(w, r)
  <2>1. ASSUME NEW withFee \in BOOLEAN,
               Moves(w, [Idle EXCEPT !.pc = "claim", !.r = r, !.sawRefund = refund[r].status,
                                     !.sawOrder = order, !.fee = withFee])
        PROVE  TypeInv'
    <3> DEFINE t == [Idle EXCEPT !.pc = "claim", !.r = r, !.sawRefund = refund[r].status,
                                 !.sawOrder = order, !.fee = withFee]
    <3>1. t \in TaskSet /\ t.r = r
      BY <1>0 DEF Idle, RowSet
    <3>2. QED
      BY ZenonT(40), <1>5, <2>1, <3>1, OnlyMoves DEF WechatSet, ApproveRead, dbVars, TypeInv, TypeOK
  <2>2. CASE Leave(w)
    BY <1>5, <2>2, IdleTask, OnlyMoves DEF WechatSet, ApproveRead, Leave, Moves, dbVars, TypeInv, TypeOK
  <2>3. QED
    BY <1>5, <2>1, <2>2 DEF ApproveRead, Moves
<1>6. CASE SyncRead(w, r)
  <2>1. Moves(w, [Idle EXCEPT !.pc = "query", !.r = r])
    BY <1>6 DEF SyncRead, Moves
  <2>2. [Idle EXCEPT !.pc = "query", !.r = r] \in TaskSet
    BY DEF Idle
  <2>3. QED
    BY <1>6, <2>1, <2>2, OnlyMoves DEF WechatSet, SyncRead, dbVars, Idle, TypeInv, TypeOK
<1>7. CASE Callback(w, r)
  <2> DEFINE t == [Idle EXCEPT !.pc = "reconcile", !.r = r, !.answer = wx[r].status]
  <2>1. Moves(w, t)
    BY <1>7 DEF Callback, Moves
  <2>2. t \in TaskSet /\ t.r = r
    BY <1>7 DEF Callback, Idle
  <2>3. QED
    BY <1>7, <2>1, <2>2, OnlyMoves DEF WechatSet, Callback, dbVars, TypeInv, TypeOK
<1>8. QED
  BY <1>1, <1>2, <1>3, <1>4, <1>5, <1>6, <1>7 DEF Starts

\* What a request that is under way works with.
LEMMA AtWork ==
  ASSUME TypeInv, NEW w \in Workers, task[w].pc # "idle"
  PROVE  /\ task[w] \in TaskSet /\ task[w].r \in Refunds
         /\ refund[task[w].r] \in RowSet /\ wx[task[w].r] \in WechatSet
         /\ order \in OrderStatuses
BY DEF TypeInv, TypeOK, Busy, TaskSet, RowSet, WechatSet

\* Marking a row and leaving.
LEMMA MarksAndLeaves ==
  ASSUME TypeInv, NEW w \in Workers, NEW r \in Refunds, NEW s \in RefundStatuses,
         Marks(r, s), Leave(w), order' \in OrderStatuses,
         UNCHANGED <<shipped, stockRestored, restocked, coupon, wx, adjusted, faults>>
  PROVE  TypeInv'
<1>1. refund' \in [Refunds -> RowSet] /\ Writes(r)
  BY MarksOne
<1>2. Moves(w, Idle)
  BY DEF Moves, Leave
<1>3. QED
  BY <1>1, <1>2, IdleTask, WritesAndMoves DEF TypeInv, TypeOK

LEMMA UnlockType ==
  ASSUME TypeInv, NEW b, Unlock(RestoreTarget(b)) \/ Unlock(RestoreTargetOfCancel(b))
  PROVE  order' \in OrderStatuses
BY TargetType DEF Unlock, TypeInv, TypeOK

LEMMA TypeOfWorks ==
  ASSUME TypeInv, NEW w \in Workers, Works(w) \/ FinishAborts(w) \/ ClawbackAborts(w)
  PROVE  TypeInv'
<1> DEFINE t == task[w]
<1> USE DEF TaskSet, Steps, RefundStatuses, Answers
<1>0. /\ t \in TaskSet /\ t.r \in Refunds /\ refund[t.r] \in RowSet /\ wx[t.r] \in WechatSet
      /\ order \in OrderStatuses /\ w \in DOMAIN task
      /\ faults \in 0..MaxFaults
  <2>1. task[w].pc # "idle"
    BY DEF Works, FinishAborts, ClawbackAborts, UnshippedCreate, CancelWrite, RejectWrite, ApproveClaim, CallWechat,
           RecordAnswer, UnlockAfterRefusal, Finish, Clawback, QueryWechat, ReconcileRead,
           RecordProcessing, RecordClosed, At
  <2>2. QED
    BY <2>1, AtWork DEF TypeInv, TypeOK
<1>1. CASE UnshippedCreate(w)
  <2> DEFINE row == Row("pending", "pre-delivery", ListPrice, t.sawOrder, FALSE)
  <2>1. row \in RowSet
    BY <1>0 DEF Row, RowSet
  <2>2. refund' \in [Refunds -> RowSet] /\ Writes(t.r)
    <3>1. CASE Inserts(t.r, row)
      <4> HIDE DEF row
      <4> QED BY <1>0, <2>1, <3>1, InsertsOne
    <3>2. CASE UNCHANGED refund
      BY <3>2 DEF Writes, TypeInv, TypeOK, RowSet
    <3>3. QED
      BY <1>1, <3>1, <3>2 DEF UnshippedCreate, Inserts
  <2>3. Moves(w, Idle)
    BY <1>1 DEF UnshippedCreate, Leave, Moves
  <2>4. QED
    BY <1>0, <1>1, <2>2, <2>3, IdleTask, WritesAndMoves DEF UnshippedCreate, TypeInv, TypeOK
<1>2. CASE CancelWrite(w) \/ RejectWrite(w) \/ RecordClosed(w)
  <2>1. order' \in OrderStatuses
    BY <1>2, UnlockType DEF CancelWrite, RejectWrite, RecordClosed
  <2>2. PICK s \in RefundStatuses : Marks(t.r, s)
    BY <1>2 DEF CancelWrite, RejectWrite, RecordClosed, Marks
  <2>3. QED
    BY <1>0, <1>2, <2>1, <2>2, MarksAndLeaves DEF CancelWrite, RejectWrite, RecordClosed
<1>3. CASE RecordProcessing(w)
  <2>1. order' \in OrderStatuses
    BY <1>0, <1>3 DEF RecordProcessing, OrderStatuses
  <2>2. Marks(t.r, "refunding")
    BY <1>3 DEF RecordProcessing, Marks
  <2>3. QED
    BY <1>0, <1>3, <2>1, <2>2, MarksAndLeaves DEF RecordProcessing
<1>4. CASE ApproveClaim(w)
  <2>1. ASSUME NEW amount \in Awardable(t.r),
               refund' = [refund EXCEPT ![t.r].status = "approved", ![t.r].amount = amount,
                                        ![t.r].fee = t.fee],
               order' = IF t.sawOrder = "after-sales" THEN order ELSE "after-sales",
               task' = [task EXCEPT ![w] = [Idle EXCEPT !.pc = "call", !.r = t.r, !.total = amount]]
        PROVE  TypeInv'
    <3>1. amount \in Nat
      BY <1>0 DEF Awardable, RowSet
    <3> DEFINE u == [Idle EXCEPT !.pc = "call", !.r = t.r, !.total = amount]
    <3>2. u \in TaskSet /\ u.r \in Refunds /\ Moves(w, u)
      BY <1>0, <2>1, <3>1 DEF Idle, Moves
    <3>3. refund' \in [Refunds -> RowSet] /\ Writes(t.r)
      BY <1>0, <2>1, <3>1 DEF RowSet, Writes, TypeInv, TypeOK
    <3>4. order' \in OrderStatuses
      BY <1>0, <2>1 DEF OrderStatuses
    <3> HIDE DEF u
    <3>5. QED
      BY <1>0, <1>4, <3>2, <3>3, <3>4, WritesAndMoves DEF ApproveClaim, TypeInv, TypeOK
  <2>2. CASE Leave(w) /\ UNCHANGED <<refund, order>>
    BY <1>0, <1>4, <2>2, IdleTask, OnlyMoves DEF WechatSet, ApproveClaim, Leave, Moves, TypeInv, TypeOK
  <2>3. QED
    BY <1>4, <2>1, <2>2 DEF ApproveClaim
<1>5. CASE CallWechat(w)
  <2>1. PICK a \in Answers : task' = [task EXCEPT ![w].pc = "answered", ![w].answer = a, ![w].total = 0]
    BY <1>5 DEF CallWechat
  <2> DEFINE u == [t EXCEPT !.pc = "answered", !.answer = a, !.total = 0]
  <2>2. u \in TaskSet /\ u.r \in Refunds /\ Moves(w, u)
    BY ZenonT(40), <1>0, <2>1 DEF Moves
  <2>3. wx' \in [Refunds -> WechatSet]
    <3>1. t.total \in Nat /\ wx \in [Refunds -> WechatSet]
      BY <1>0 DEF TypeInv, TypeOK, WechatSet
    <3>2. \/ UNCHANGED wx
          \/ \E got \in {"SUCCESS", "PROCESSING"} :
               wx' = [wx EXCEPT ![t.r] = [status |-> got, amount |-> t.total]]
      BY <1>5 DEF CallWechat, WechatTakes
    <3>3. ASSUME NEW got \in {"SUCCESS", "PROCESSING"}
          PROVE  [status |-> got, amount |-> t.total] \in WechatSet
      BY <3>1 DEF WechatSet
    <3>4. QED
      BY <1>0, <3>1, <3>2, <3>3
  <2> HIDE DEF u
  <2>4. QED
    BY <1>0, <1>5, <2>2, <2>3, OnlyMoves DEF CallWechat, dbVars, TypeInv, TypeOK
<1>6. CASE RecordAnswer(w)
  <2>1. CASE task' = [task EXCEPT ![w].pc = "finish", ![w].by = "audit"] /\ UNCHANGED refund
    <3> DEFINE u == [t EXCEPT !.pc = "finish", !.by = "audit"]
    <3>1. u \in TaskSet /\ u.r \in Refunds /\ Moves(w, u)
      BY ZenonT(40), <1>0, <2>1 DEF Moves
    <3> HIDE DEF u
    <3>2. QED
      BY <1>0, <1>6, <2>1, <3>1, OnlyMoves DEF RecordAnswer, WechatSet, TypeInv, TypeOK
  <2>2. CASE Marks(t.r, "refunding") /\ Leave(w)
    BY <1>0, <1>6, <2>2, MarksAndLeaves DEF RecordAnswer
  <2>3. CASE Marks(t.r, "failed") /\ task' = [task EXCEPT ![w].pc = "unlock"]
    <3> DEFINE u == [t EXCEPT !.pc = "unlock"]
    <3>1. u \in TaskSet /\ u.r \in Refunds /\ Moves(w, u)
      BY <1>0, <2>3 DEF Moves
    <3>2. refund' \in [Refunds -> RowSet] /\ Writes(t.r)
      BY <1>0, <2>3, MarksOne
    <3> HIDE DEF u
    <3>3. QED
      BY <1>0, <1>6, <3>1, <3>2, WritesAndMoves DEF RecordAnswer, TypeInv, TypeOK
  <2>4. QED
    BY <1>6, <2>1, <2>2, <2>3 DEF RecordAnswer, Marks
<1>7. CASE UnlockAfterRefusal(w)
  <2>1. order' \in OrderStatuses
    BY <1>7, UnlockType DEF UnlockAfterRefusal
  <2>2. QED
    BY <1>0, <1>7, <2>1, IdleTask, OnlyMoves DEF UnlockAfterRefusal, Leave, Moves, WechatSet, TypeInv, TypeOK
<1>8. CASE Finish(w)
  <2>1. CASE Leave(w) /\ UNCHANGED <<order, stockRestored, restocked, coupon, refund>>
    BY <1>0, <1>8, <2>1, IdleTask, OnlyMoves DEF Finish, Leave, Moves, WechatSet, TypeInv, TypeOK
  <2>2. CASE ~AlreadyFinished(t.r)
    <3>1. refund' \in [Refunds -> RowSet] /\ Writes(t.r)
      BY <1>0, <1>8, <2>2, MarksOne DEF Finish, Marks
    <3>2. order' \in OrderStatuses
      BY <1>8, <2>2, TargetType DEF Finish, OrderStatuses
    <3>3. restocked' \in Nat /\ stockRestored' \in BOOLEAN /\ coupon' \in {"used", "released"}
      BY <1>8, <2>2 DEF Finish, TypeInv, TypeOK
    <3>4. PICK u \in TaskSet : (u.pc # "idle" => u.r \in Refunds) /\ Moves(w, u)
      <4>1. task' = [task EXCEPT ![w].pc = "clawback", ![w].total = RefundedBut(t.r) + refund[t.r].amount]
        BY <1>8, <2>2 DEF Finish
      <4> DEFINE n == RefundedBut(t.r) + refund[t.r].amount
                 u == [t EXCEPT !.pc = "clawback", !.total = n]
      <4>2. n \in Nat
        BY <1>0, RefundedButType DEF RowSet
      <4> HIDE DEF n
      <4>3. u \in TaskSet /\ u.r \in Refunds /\ Moves(w, u)
        BY <1>0, <4>1, <4>2 DEF Moves, n
      <4>4. QED
        BY <4>3
    <3>5. QED
      BY <1>0, <1>8, <3>1, <3>2, <3>3, <3>4, WritesAndMoves DEF Finish
  <2>3. QED
    BY <1>8, <2>1, <2>2 DEF Finish
<1>9. CASE Clawback(w)
  <2>1. adjusted' \in Nat
    BY <1>0, <1>9 DEF Clawback, Clawed, TypeInv, TypeOK
  <2>2. task' \in [Workers -> TaskSet] /\ Busy'
    BY <1>9, IdleTask, MovesOne DEF Clawback, Leave, Moves
  <2>3. TypeOK'
    BY <1>9, <2>1, <2>2 DEF Clawback, TypeInv, TypeOK
  <2>4. QED
    BY <1>9, <2>2, <2>3 DEF Clawback, TypeInv, Rows
<1>10. CASE QueryWechat(w)
  <2> DEFINE a == IF wx[t.r].status = "none" THEN "ABNORMAL" ELSE wx[t.r].status
             u == [t EXCEPT !.pc = "reconcile", !.answer = a]
  <2>1. a \in Answers
    BY <1>0 DEF WechatSet
  <2>2. u \in TaskSet /\ u.r \in Refunds /\ Moves(w, u)
    BY ZenonT(40), <1>0, <1>10, <2>1 DEF QueryWechat, Moves
  <2> HIDE DEF u
  <2>3. QED
    BY <1>0, <1>10, <2>2, OnlyMoves DEF QueryWechat, dbVars, WechatSet, TypeInv, TypeOK
<1>11. CASE ReconcileRead(w)
  <2>1. CASE Leave(w)
    BY <1>0, <1>11, <2>1, IdleTask, OnlyMoves DEF ReconcileRead, Leave, Moves, dbVars, WechatSet, TypeInv, TypeOK
  <2>2. ASSUME NEW pc \in {"finish", "processing", "closed"},
               NEW saw \in OrderStatuses \cup {"none"},
               task' = [task EXCEPT ![w].pc = pc, ![w].sawOrder = saw, ![w].by = "sync"]
        PROVE  TypeInv'
    <3> DEFINE u == [t EXCEPT !.pc = pc, !.sawOrder = saw, !.by = "sync"]
    <3>1. u \in TaskSet /\ u.r \in Refunds /\ Moves(w, u)
      BY ZenonT(40), <1>0, <2>2 DEF Moves
    <3> HIDE DEF u
    <3>2. QED
      BY <1>0, <1>11, <3>1, OnlyMoves DEF ReconcileRead, dbVars, WechatSet, TypeInv, TypeOK
  <2>3. QED
    BY <1>0, <1>11, <2>1, <2>2 DEF ReconcileRead
<1>12. CASE FinishAborts(w)
  <2>1. faults' \in 0..MaxFaults
    BY <1>0, <1>12 DEF FinishAborts
  <2>2. CASE Leave(w)
    BY <1>0, <1>12, <2>1, <2>2, IdleTask, OnlyMoves DEF FinishAborts, Leave, Moves, WechatSet, TypeInv, TypeOK
  <2>3. ASSUME NEW a \in {"refused", "unknown"},
               task' = [task EXCEPT ![w].pc = "answered", ![w].answer = a]
        PROVE  TypeInv'
    <3> DEFINE u == [t EXCEPT !.pc = "answered", !.answer = a]
    <3>1. u \in TaskSet /\ u.r \in Refunds /\ Moves(w, u)
      BY ZenonT(40), <1>0, <2>3 DEF Moves
    <3> HIDE DEF u
    <3>2. QED
      BY <1>0, <1>12, <2>1, <3>1, OnlyMoves DEF FinishAborts, WechatSet, TypeInv, TypeOK
  <2>4. QED
    BY <1>12, <2>2, <2>3 DEF FinishAborts
<1>13. CASE ClawbackAborts(w)
  <2>1. adjusted' \in Nat /\ faults' \in 0..MaxFaults
    BY <1>0, <1>13 DEF ClawbackAborts, Clawed, TypeInv, TypeOK
  <2>2. task' \in [Workers -> TaskSet] /\ Busy'
    <3>1. CASE Leave(w)
      BY <3>1, IdleTask, MovesOne DEF Leave, Moves
    <3>2. CASE task' = [task EXCEPT ![w].pc = "answered", ![w].answer = "unknown"]
      <4> DEFINE u == [t EXCEPT !.pc = "answered", !.answer = "unknown"]
      <4>1. u \in TaskSet /\ u.r \in Refunds /\ Moves(w, u)
        BY ZenonT(40), <1>0, <3>2 DEF Moves
      <4> HIDE DEF u
      <4>2. QED
        BY <4>1, MovesOne
    <3>3. QED
      BY <1>13, <3>1, <3>2 DEF ClawbackAborts
  <2>3. TypeOK'
    BY <1>13, <2>1, <2>2 DEF ClawbackAborts, TypeInv, TypeOK
  <2>4. QED
    BY <1>13, <2>2, <2>3 DEF ClawbackAborts, TypeInv, Rows
<1>14. QED
  BY <1>1, <1>2, <1>3, <1>4, <1>5, <1>6, <1>7, <1>8, <1>9, <1>10, <1>11, <1>12, <1>13 DEF Works

LEMMA TypeOfApply ==
  ASSUME TypeInv, NEW r \in Refunds, Apply(r)
  PROVE  TypeInv'
<1>1. PICK amount \in Awards \cup {Goods} :
        Inserts(r, Row("pending", IF order = "paid" THEN "pre-delivery" ELSE "after-sale",
                       amount, order, FALSE))
  BY DEF Apply, Inserts
<1>2. Row("pending", IF order = "paid" THEN "pre-delivery" ELSE "after-sale", amount, order, FALSE)
        \in RowSet
  BY DEF Row, RowSet, RefundStatuses, TypeInv, TypeOK
<1>3. refund' \in [Refunds -> RowSet] /\ Writes(r)
  BY <1>1, <1>2, InsertsOne
<1>4. TypeOK'
  BY <1>3 DEF Apply, RowSet, OrderStatuses, TypeInv, TypeOK
<1>5. QED
  BY <1>3, <1>4, RowsStayFinite DEF Apply, TypeInv, Busy

LEMMA TypeStep == ASSUME TypeInv, [Next]_vars PROVE TypeInv'
<1>1. CASE Fulfil
  <2>1. TypeOK'
    BY <1>1 DEF Fulfil, OrderStatuses, Undelivered, TypeInv, TypeOK
  <2>2. QED
    BY <1>1, <2>1 DEF Fulfil, TypeInv, Busy, Rows
<1>2. CASE Crash
  <2>1. TypeOK'
    BY <1>2, IdleTask DEF Crash, dbVars, TaskSet, TypeInv, TypeOK
  <2>2. QED
    BY <1>2, <2>1, IdleTask DEF Crash, dbVars, TypeInv, Busy, Rows
<1>3. ASSUME NEW r \in Refunds, WechatSettles(r) PROVE TypeInv'
  <2>1. TypeOK'
    BY <1>3 DEF WechatSettles, dbVars, TypeInv, TypeOK
  <2>2. QED
    BY <1>3, <2>1 DEF WechatSettles, dbVars, TypeInv, Busy, Rows
<1>4. CASE UNCHANGED vars
  BY <1>4 DEF vars, TypeInv, TypeOK, Busy, Rows
<1>5. QED
  BY <1>1, <1>2, <1>3, <1>4, TypeOfApply, TypeOfStarts, TypeOfWorks DEF Next

LEMMA InitTypes == Init => TypeInv
<1> SUFFICES ASSUME Init PROVE TypeInv
  OBVIOUS
<1>1. TypeOK
  <2>1. refund \in [Refunds -> RowSet] /\ wx \in [Refunds -> WechatSet]
    BY DEF Init, NoRow, RowSet, RefundStatuses, WechatSet
  <2>2. task \in [Workers -> TaskSet]
    BY IdleTask DEF Init
  <2>3. order \in OrderStatuses /\ faults \in 0..MaxFaults
    BY DEF Init, OrderStatuses, Undelivered
  <2>4. /\ shipped \in BOOLEAN /\ stockRestored \in BOOLEAN
        /\ restocked \in Nat /\ coupon \in {"used", "released"} /\ adjusted \in Nat
    BY DEF Init
  <2>5. QED
    BY <2>1, <2>2, <2>3, <2>4 DEF TypeOK, RowSet, WechatSet, TaskSet
<1>2. Busy
  BY DEF Init, Busy, Idle
<1>3. Rows = {}
  BY DEF Init, Rows, NoRow
<1>4. QED
  BY <1>1, <1>2, <1>3, FS_EmptySet DEF TypeInv

\* Every variable keeps its type: no refund total leaves the naturals, and a
\* row, an order or a coupon never takes a status that its table does not have.
THEOREM TypeCorrect == Safety => []TypeOK
<1>1. Init => TypeInv
  BY InitTypes
<1>2. TypeInv /\ [Next]_vars => TypeInv'
  BY TypeStep
<1>3. QED
  BY <1>1, <1>2, PTL DEF Safety, TypeInv

-----------------------------------------------------------------------------
(* Money and goods *)

\* Money that WeChat has returned stays returned, ...
LEMMA PaidForGood ==
  ASSUME TypeInv, [Next]_vars, NEW r \in Refunds, Paid(r)
  PROVE  Paid(r)'
<1> USE DEF Paid, TypeInv, TypeOK
<1>1. CASE UNCHANGED wx
  BY <1>1
<1>2. ASSUME NEW w \in Workers, CallWechat(w) PROVE Paid(r)'
  <2>1. task[w].r \in Refunds
    BY <1>2 DEF CallWechat, At, Busy
  <2>2. \/ UNCHANGED wx
        \/ /\ wx[task[w].r].status \in {"none", "CLOSED"}
           /\ \A x \in Refunds \ {task[w].r} : wx'[x] = wx[x]
    BY <1>2, <2>1 DEF CallWechat, WechatTakes
  <2>3. QED
    BY <2>2
<1>3. ASSUME NEW x \in Refunds, WechatSettles(x) PROVE Paid(r)'
  BY <1>3 DEF WechatSettles
<1>4. ASSUME NEW w \in Workers, NEW x \in Refunds, Starts(w, x) PROVE UNCHANGED wx
  BY <1>4 DEF Starts, UnshippedCheck, CreateForStaff, CancelRead, RejectRead, ApproveRead, SyncRead, Callback
<1>5. ASSUME NEW w \in Workers, Works(w) \/ FinishAborts(w) \/ ClawbackAborts(w), ~CallWechat(w) PROVE UNCHANGED wx
  BY <1>5 DEF Works, FinishAborts, ClawbackAborts, UnshippedCreate, CancelWrite, RejectWrite, ApproveClaim, RecordAnswer,
              UnlockAfterRefusal, Finish, Clawback, QueryWechat, ReconcileRead, RecordProcessing, RecordClosed
<1>6. CASE Fulfil \/ Crash \/ (\E x \in Refunds : Apply(x)) \/ UNCHANGED vars
  BY <1>6 DEF Fulfil, Crash, Apply, vars
<1>7. QED
  BY <1>1, <1>2, <1>3, <1>4, <1>5, <1>6 DEF Next

\* ... and a row is for the same kind of refund for ever.
LEMMA SourceForGood ==
  ASSUME TypeInv, FreshRows, [Next]_vars
  PROVE  /\ FreshRows'
         /\ \A r \in Refunds : refund[r].source # "none" => refund'[r].source = refund[r].source
<1> DEFINE Kept == /\ FreshRows'
                   /\ \A r \in Refunds : refund[r].source # "none" => refund'[r].source = refund[r].source
<1> USE DEF FreshRows, Free
\* A row is inserted where there was none, ...
<1>1. ASSUME NEW r \in Refunds, NEW row \in RowSet, Free(r), Inserts(r, row), row.status = "pending"
      PROVE  Kept
  BY <1>1, InsertsOne DEF Writes
\* ... and its status never returns to "none".
<1>2. ASSUME NEW r \in Refunds, NEW s \in RefundStatuses \ {"none"}, Marks(r, s) PROVE Kept
  BY <1>2, MarksOne DEF Writes
<1>3. ASSUME UNCHANGED refund PROVE Kept
  BY <1>3
<1>4. ASSUME NEW w \in Workers, Works(w) \/ FinishAborts(w) \/ ClawbackAborts(w) PROVE Kept
  <2> DEFINE t == task[w]
  <2>0. /\ t \in TaskSet /\ t.r \in Refunds /\ refund[t.r] \in RowSet
    <3>1. t.pc # "idle"
      BY <1>4 DEF Works, FinishAborts, ClawbackAborts, UnshippedCreate, CancelWrite, RejectWrite, ApproveClaim, CallWechat,
             RecordAnswer, UnlockAfterRefusal, Finish, Clawback, QueryWechat, ReconcileRead,
             RecordProcessing, RecordClosed, At
    <3>2. QED
      BY <3>1, AtWork
  <2>1. CASE UnshippedCreate(w)
    <3> DEFINE row == Row("pending", "pre-delivery", ListPrice, t.sawOrder, FALSE)
    <3>1. row \in RowSet /\ row.status = "pending"
      BY <2>0 DEF Row, RowSet, TaskSet, RefundStatuses
    <3>2. (Free(t.r) /\ Inserts(t.r, row)) \/ UNCHANGED refund
      BY <2>1 DEF UnshippedCreate, Inserts
    <3> HIDE DEF row
    <3>3. QED
      BY <1>1, <1>3, <2>0, <3>1, <3>2
  <2>2. CASE ApproveClaim(w)
    <3>1. ASSUME NEW amount,
                 refund' = [refund EXCEPT ![t.r].status = "approved", ![t.r].amount = amount,
                                          ![t.r].fee = t.fee]
          PROVE  Kept
      <4>1. Writes(t.r) /\ refund'[t.r].status = "approved" /\ refund'[t.r].source = refund[t.r].source
        BY <2>0, <3>1 DEF Writes, TypeInv, TypeOK
      <4>2. QED
        BY <2>0, <4>1 DEF Writes
    <3>2. QED
      BY <1>3, <2>2, <3>1 DEF ApproveClaim
  <2>3. CASE CancelWrite(w) \/ RejectWrite(w) \/ RecordAnswer(w) \/ Finish(w)
             \/ RecordProcessing(w) \/ RecordClosed(w)
    <3>1. UNCHANGED refund \/ \E s \in RefundStatuses \ {"none"} : Marks(t.r, s)
      BY <2>3 DEF CancelWrite, RejectWrite, RecordAnswer, Finish, RecordProcessing, RecordClosed,
                  Marks, RefundStatuses
    <3>2. QED
      BY <1>2, <1>3, <2>0, <3>1
  <2>4. CASE CallWechat(w) \/ UnlockAfterRefusal(w) \/ Clawback(w) \/ QueryWechat(w)
             \/ ReconcileRead(w) \/ FinishAborts(w) \/ ClawbackAborts(w)
    BY <1>3, <2>4 DEF CallWechat, UnlockAfterRefusal, Clawback, QueryWechat, ReconcileRead, FinishAborts,
                      ClawbackAborts, dbVars
  <2>5. QED
    BY <1>4, <2>1, <2>2, <2>3, <2>4 DEF Works
<1>5. ASSUME NEW w \in Workers, NEW r \in Refunds, Starts(w, r) PROVE Kept
  <2>1. CASE CreateForStaff(w, r)
    <3>1. PICK amount \in Awards :
            Inserts(r, Row("pending", "after-sale", amount,
                           IF order = "after-sales" THEN "none" ELSE order, TRUE))
      BY <2>1 DEF CreateForStaff, Inserts
    <3> DEFINE row == Row("pending", "after-sale", amount,
                          IF order = "after-sales" THEN "none" ELSE order, TRUE)
    <3>2. row \in RowSet /\ row.status = "pending"
      BY DEF Row, RowSet, RefundStatuses, TypeInv, TypeOK
    <3>3. Free(r) /\ Inserts(r, row)
      BY <2>1, <3>1 DEF CreateForStaff
    <3> HIDE DEF row
    <3>4. QED
      BY <1>1, <3>2, <3>3
  <2>2. CASE ~CreateForStaff(w, r)
    BY <1>3, <1>5, <2>2 DEF Starts, UnshippedCheck, CancelRead, RejectRead, ApproveRead, SyncRead, Callback, dbVars
  <2>3. QED
    BY <2>1, <2>2
<1>6. ASSUME NEW r \in Refunds, Apply(r) PROVE Kept
  <2>1. PICK amount \in Awards \cup {Goods} :
          Inserts(r, Row("pending", IF order = "paid" THEN "pre-delivery" ELSE "after-sale",
                         amount, order, FALSE))
    BY <1>6 DEF Apply, Inserts
  <2> DEFINE row == Row("pending", IF order = "paid" THEN "pre-delivery" ELSE "after-sale",
                        amount, order, FALSE)
  <2>2. row \in RowSet /\ row.status = "pending"
    BY DEF Row, RowSet, RefundStatuses, TypeInv, TypeOK
  <2>3. Free(r) /\ Inserts(r, row)
    BY <1>6, <2>1 DEF Apply
  <2> HIDE DEF row
  <2>4. QED
    BY <1>1, <2>2, <2>3
<1>7. CASE Fulfil \/ Crash \/ (\E x \in Refunds : WechatSettles(x)) \/ UNCHANGED vars
  BY <1>3, <1>7 DEF Fulfil, Crash, WechatSettles, vars, dbVars
<1>8. QED
  BY <1>4, <1>5, <1>6, <1>7 DEF Next

\* What a request believes to have heard is so after its own steps, ...
LEMMA TrustOfWorks ==
  ASSUME TypeInv, TrustIsEarned, NEW w \in Workers, Works(w) \/ FinishAborts(w) \/ ClawbackAborts(w), Trusts(task[w])'
  PROVE  Paid(task[w].r)'
<1> DEFINE t == task[w]
<1>0. t \in TaskSet /\ t.r \in Refunds /\ task \in [Workers -> TaskSet]
  <2>1. t.pc # "idle"
    BY DEF Works, FinishAborts, ClawbackAborts, UnshippedCreate, CancelWrite, RejectWrite, ApproveClaim, CallWechat,
           RecordAnswer, UnlockAfterRefusal, Finish, Clawback, QueryWechat, ReconcileRead,
           RecordProcessing, RecordClosed, At
  <2>2. QED
    BY <2>1, AtWork DEF TypeInv, TypeOK, TaskSet
<1> USE DEF Trusts, Paid
<1>1. ~Leave(w)
  BY <1>0, IdleTask DEF Leave
<1>2. CASE CallWechat(w)
  <2>1. PICK a \in Answers : /\ task' = [task EXCEPT ![w].pc = "answered", ![w].answer = a, ![w].total = 0]
                             /\ \/ a = "unknown"
                                \/ WechatTakes(t.r, t.total, a)
    BY <1>2 DEF CallWechat, Answers
  <2>2. task'[w].pc = "answered" /\ task'[w].answer = a /\ task'[w].r = t.r
    BY <1>0, <2>1 DEF TaskSet
  <2>3. a = "SUCCESS" => wx'[t.r].status = "SUCCESS"
    BY <1>0, <2>1 DEF WechatTakes, TypeInv, TypeOK
  <2>4. QED
    BY <2>2, <2>3
<1>3. CASE RecordAnswer(w)
  <2>1. CASE Settled(t.answer) /\ task' = [task EXCEPT ![w].pc = "finish", ![w].by = "audit"]
    BY <1>0, <1>3, <2>1 DEF RecordAnswer, At, Settled, TrustIsEarned, TaskSet
  <2>2. CASE task' = [task EXCEPT ![w].pc = "unlock"]
    BY <1>0, <2>2 DEF TaskSet
  <2>3. QED
    BY <1>1, <1>3, <2>1, <2>2 DEF RecordAnswer
<1>4. CASE QueryWechat(w)
  BY <1>0, <1>4 DEF QueryWechat, TaskSet
<1>5. CASE ReconcileRead(w)
  <2>1. CASE Settled(t.answer)
    BY <1>0, <1>1, <1>5, <2>1 DEF ReconcileRead, Settled, At, TrustIsEarned, TaskSet
  <2>2. CASE ~Settled(t.answer)
    BY <1>0, <1>1, <1>5, <2>2 DEF ReconcileRead, TaskSet
  <2>3. QED
    BY <2>1, <2>2
<1>6. CASE FinishAborts(w) \/ ClawbackAborts(w)
  BY <1>0, <1>1, <1>6 DEF FinishAborts, ClawbackAborts, TaskSet
<1>7. CASE ApproveClaim(w)
  <2>1. PICK amount : task' = [task EXCEPT ![w] = [Idle EXCEPT !.pc = "call", !.r = t.r, !.total = amount]]
    BY <1>1, <1>7 DEF ApproveClaim
  <2>2. task'[w].pc = "call"
    BY <1>0, <2>1 DEF Idle
  <2>3. QED
    BY <2>2
<1>8. CASE Finish(w)
  BY <1>0, <1>1, <1>8 DEF Finish, TaskSet
<1>9. QED
  BY <1>1, <1>2, <1>3, <1>4, <1>5, <1>6, <1>7, <1>8
     DEF Works, UnshippedCreate, CancelWrite, RejectWrite, UnlockAfterRefusal, Clawback,
         RecordProcessing, RecordClosed

\* ... and after a step that starts it; every other request's step leaves it.
LEMMA TrustStep ==
  ASSUME TypeInv, TrustIsEarned, [Next]_vars
  PROVE  TrustIsEarned'
<1> SUFFICES ASSUME NEW v \in Workers, Trusts(task[v])' PROVE Paid(task[v].r)'
  BY DEF TrustIsEarned
<1>1. ASSUME task'[v] = task[v] PROVE Paid(task[v].r)'
  <2>1. Paid(task[v].r) /\ task[v].r \in Refunds
    BY <1>1 DEF TrustIsEarned, Trusts, TypeInv, Busy
  <2>2. QED
    BY <1>1, <2>1, PaidForGood
<1>2. ASSUME NEW w \in Workers, w # v, Works(w) \/ FinishAborts(w) \/ ClawbackAborts(w) PROVE task'[v] = task[v]
  BY <1>2 DEF Works, FinishAborts, ClawbackAborts, UnshippedCreate, CancelWrite, RejectWrite, ApproveClaim, CallWechat,
         RecordAnswer, UnlockAfterRefusal, Finish, Clawback, QueryWechat, ReconcileRead,
         RecordProcessing, RecordClosed, Leave, TypeInv, TypeOK
<1>3. ASSUME NEW w \in Workers, NEW r \in Refunds, w # v, Starts(w, r) PROVE task'[v] = task[v]
  BY <1>3 DEF Starts, UnshippedCheck, CreateForStaff, CancelRead, RejectRead, ApproveRead, SyncRead,
              Callback, Leave, TypeInv, TypeOK
<1>4. ASSUME NEW r \in Refunds, Starts(v, r) PROVE Paid(task[v].r)'
  <2>0. v \in DOMAIN task
    BY DEF TypeInv, TypeOK
  <2>1. CASE Callback(v, r)
    BY <2>1 DEF Callback, Trusts, Paid, Idle, TypeInv, TypeOK
  <2>2. CASE ~Callback(v, r)
    <3>1. CASE ApproveRead(v, r)
      <4>1. task'[v] = Idle \/ task'[v].pc = "claim"
        <5>1. CASE Leave(v)
          BY <2>0, <5>1 DEF Leave
        <5>2. ASSUME NEW withFee \in BOOLEAN,
                     task' = [task EXCEPT ![v] =
                       [Idle EXCEPT !.pc = "claim", !.r = r, !.sawRefund = refund[r].status,
                                    !.sawOrder = order, !.fee = withFee]]
              PROVE  task'[v].pc = "claim"
          BY <2>0, <5>2 DEF Idle
        <5>3. QED
          BY <3>1, <5>1, <5>2 DEF ApproveRead
      <4>2. QED
        BY <4>1 DEF Trusts, Idle
    <3>2. CASE ~ApproveRead(v, r)
      <4>1. task'[v].pc \in {"unshipped", "audit", "cancel", "reject", "query"}
        <5>1. CASE UnshippedCheck(v, r)
          BY <2>0, <5>1 DEF UnshippedCheck, Idle
        <5>2. CASE CreateForStaff(v, r)
          BY <2>0, <5>2 DEF CreateForStaff, Idle
        <5>3. CASE CancelRead(v, r) \/ RejectRead(v, r) \/ SyncRead(v, r)
          BY <2>0, <5>3 DEF CancelRead, RejectRead, SyncRead, Idle
        <5>4. QED
          BY <1>4, <2>2, <3>2, <5>1, <5>2, <5>3 DEF Starts
      <4>2. QED
        BY <4>1 DEF Trusts
    <3>3. QED
      BY <3>1, <3>2
  <2>3. QED
    BY <2>1, <2>2
<1>5. ASSUME Fulfil \/ Crash \/ (\E r \in Refunds : Apply(r) \/ WechatSettles(r)) \/ UNCHANGED vars
      PROVE  task'[v] = task[v] \/ task'[v] = Idle
  BY <1>5 DEF Fulfil, Crash, Apply, WechatSettles, vars
<1>6. task'[v] # Idle
  BY DEF Trusts, Idle
<1>7. QED
  BY <1>1, <1>2, <1>3, <1>4, <1>5, <1>6, TrustOfWorks DEF Next

\* finishRefund alone makes a row refunded, the order refunded, and the goods
\* and the coupon return; the request that runs it has WeChat's SUCCESS.
LEMMA OnlyFinishEnds ==
  ASSUME TypeInv, FreshRows, TrustIsEarned, RefundedAtWechat, RefundedOrderIsPaidBack, GoodsReturnOnce,
         [Next]_vars
  PROVE  /\ RefundedAtWechat'
         /\ RefundedOrderIsPaidBack'
         /\ GoodsReturnOnce'
<1> DEFINE NoNew == \A r \in Refunds : refund'[r].status = "refunded" => refund[r].status = "refunded"
           NoEnd == order' = "refunded" => order = "refunded"
           Still == UNCHANGED <<stockRestored, restocked, coupon>>
           Goal == RefundedAtWechat' /\ RefundedOrderIsPaidBack' /\ GoodsReturnOnce'
<1>1. ASSUME NoNew, NoEnd, Still PROVE Goal
  <2>1. RefundedAtWechat'
    BY <1>1, PaidForGood DEF RefundedAtWechat, Paid
  <2>2. RefundedOrderIsPaidBack'
    BY <1>1, PaidForGood DEF RefundedOrderIsPaidBack, Paid
  <2>3. GoodsReturnOnce'
    <3>1. ASSUME NEW r \in Refunds, refund[r].source = "pre-delivery", wx[r].status = "SUCCESS"
          PROVE  refund'[r].source = "pre-delivery" /\ wx'[r].status = "SUCCESS"
      BY <3>1, PaidForGood, SourceForGood DEF Paid
    <3>2. QED
      BY <1>1, <3>1 DEF GoodsReturnOnce
  <2>4. QED
    BY <2>1, <2>2, <2>3
<1>2. ASSUME NEW w \in Workers, Finish(w) PROVE Goal
  <2> DEFINE r == task[w].r
  <2>1. r \in Refunds /\ wx[r].status = "SUCCESS"
    BY <1>2 DEF Finish, At, TypeInv, Busy, TrustIsEarned, Trusts, Paid
  <2>2. CASE AlreadyFinished(r)
    BY <1>1, <1>2, <2>2 DEF Finish
  <2>3. CASE ~AlreadyFinished(r)
    <3>1. Marks(r, "refunded") /\ UNCHANGED wx
      BY <1>2, <2>3 DEF Finish, Marks
    <3>2. RefundedAtWechat'
      BY <2>1, <3>1, MarksOne DEF RefundedAtWechat, RefundStatuses, Writes
    <3>3. RefundedOrderIsPaidBack'
      BY <2>1, <3>1 DEF RefundedOrderIsPaidBack
    <3>4. \A x \in Refunds : refund'[x].source = refund[x].source
      BY <2>1, <3>1, MarksOne DEF RefundStatuses
    <3>5. /\ restocked' = IF refund[r].source = "pre-delivery" /\ ~stockRestored
                          THEN restocked + 1 ELSE restocked
          /\ stockRestored' = (stockRestored \/ refund[r].source = "pre-delivery")
          /\ coupon' = IF refund[r].source = "pre-delivery" THEN "released" ELSE coupon
      BY <1>2, <2>3 DEF Finish, GoodsReturn
    <3>6. GoodsReturnOnce'
      <4>1. CASE refund[r].source = "pre-delivery"
        <5>1. restocked' = 1 /\ stockRestored' /\ coupon' = "released"
          <6>1. CASE stockRestored
            BY <3>5, <4>1, <6>1 DEF GoodsReturnOnce
          <6>2. CASE ~stockRestored
            <7>1. restocked = 0
              BY <6>2 DEF GoodsReturnOnce
            <7>2. restocked' = restocked + 1 /\ coupon' = "released"
              BY <3>5, <4>1, <6>2
            <7>3. stockRestored'
              BY <3>5, <4>1
            <7>4. QED
              BY <7>1, <7>2, <7>3
          <6>3. QED
            BY <6>1, <6>2
        <5>2. refund'[r].source = "pre-delivery" /\ wx'[r].status = "SUCCESS"
          BY <2>1, <3>1, <3>4, <4>1
        <5>3. QED
          BY <2>1, <5>1, <5>2 DEF GoodsReturnOnce
      <4>2. CASE refund[r].source # "pre-delivery"
        <5>1. Still
          BY <3>5, <4>2 DEF TypeInv, TypeOK
        <5>2. QED
          BY <3>1, <3>4, <5>1 DEF GoodsReturnOnce
      <4>3. QED
        BY <4>1, <4>2
    <3>7. QED
      BY <3>2, <3>3, <3>6
  <2>4. QED
    BY <2>2, <2>3
<1>3. ASSUME NEW r \in Refunds, NEW s \in RefundStatuses \ {"refunded"}, Marks(r, s) PROVE NoNew
  BY <1>3, MarksOne DEF Writes
<1>4. ASSUME NEW b, Unlock(RestoreTarget(b)) \/ Unlock(RestoreTargetOfCancel(b)) PROVE NoEnd
  BY <1>4, TargetType DEF Unlock
<1>5. ASSUME NEW w \in Workers, Works(w) \/ FinishAborts(w) \/ ClawbackAborts(w), ~Finish(w) PROVE NoNew /\ NoEnd /\ Still
  <2> DEFINE t == task[w]
  <2>0. /\ t \in TaskSet /\ t.r \in Refunds /\ refund[t.r] \in RowSet
    <3>1. t.pc # "idle"
      BY <1>5 DEF Works, FinishAborts, ClawbackAborts, UnshippedCreate, CancelWrite, RejectWrite, ApproveClaim, CallWechat,
             RecordAnswer, UnlockAfterRefusal, Finish, Clawback, QueryWechat, ReconcileRead,
             RecordProcessing, RecordClosed, At
    <3>2. QED
      BY <3>1, AtWork
  <2>1. CASE UnshippedCreate(w)
    BY <2>0, <2>1 DEF UnshippedCreate, Row, TypeInv, TypeOK
  <2>2. CASE ApproveClaim(w)
    <3>1. ASSUME NEW amount,
                 refund' = [refund EXCEPT ![t.r].status = "approved", ![t.r].amount = amount,
                                          ![t.r].fee = t.fee]
          PROVE  NoNew
      <4>1. refund'[t.r].status = "approved" /\ Writes(t.r)
        BY <2>0, <3>1 DEF Writes, TypeInv, TypeOK
      <4>2. QED
        BY <2>0, <4>1 DEF Writes
    <3>2. QED
      BY <2>2, <3>1 DEF ApproveClaim
  <2>3. CASE CancelWrite(w) \/ RejectWrite(w) \/ RecordClosed(w)
    <3>1. NoEnd
      BY <1>4, <2>3 DEF CancelWrite, RejectWrite, RecordClosed
    <3>2. \E s \in RefundStatuses \ {"refunded"} : Marks(t.r, s)
      BY <2>3 DEF CancelWrite, RejectWrite, RecordClosed, Marks, RefundStatuses
    <3>3. QED
      BY <1>3, <2>0, <2>3, <3>1, <3>2 DEF CancelWrite, RejectWrite, RecordClosed
  <2>4. CASE RecordAnswer(w) \/ RecordProcessing(w)
    <3>1. UNCHANGED refund \/ \E s \in RefundStatuses \ {"refunded"} : Marks(t.r, s)
      BY <2>4 DEF RecordAnswer, RecordProcessing, Marks, RefundStatuses
    <3>2. NoEnd /\ Still
      BY <2>4 DEF RecordAnswer, RecordProcessing
    <3>3. QED
      BY <1>3, <2>0, <3>1, <3>2
  <2>5. CASE UnlockAfterRefusal(w)
    BY <1>4, <2>5 DEF UnlockAfterRefusal
  <2>6. CASE \/ CallWechat(w) \/ Clawback(w) \/ QueryWechat(w) \/ ReconcileRead(w)
             \/ FinishAborts(w) \/ ClawbackAborts(w)
    BY <2>6 DEF CallWechat, Clawback, QueryWechat, ReconcileRead, FinishAborts, ClawbackAborts, dbVars
  <2>7. QED
    BY <1>5, <2>1, <2>2, <2>3, <2>4, <2>5, <2>6 DEF Works
<1>6. ASSUME NEW w \in Workers, NEW r \in Refunds, Starts(w, r) PROVE NoNew /\ NoEnd /\ Still
  <2>1. CASE CreateForStaff(w, r)
    BY <2>1 DEF CreateForStaff, Row, TypeInv, TypeOK
  <2>2. CASE ~CreateForStaff(w, r)
    BY <1>6, <2>2 DEF Starts, UnshippedCheck, CancelRead, RejectRead, ApproveRead, SyncRead, Callback, dbVars
  <2>3. QED
    BY <2>1, <2>2
<1>7. ASSUME NEW r \in Refunds, Apply(r) PROVE NoNew /\ NoEnd /\ Still
  BY <1>7 DEF Apply, Row, TypeInv, TypeOK
<1>8. CASE Fulfil \/ Crash \/ (\E x \in Refunds : WechatSettles(x)) \/ UNCHANGED vars
  BY <1>1, <1>8 DEF Fulfil, Crash, WechatSettles, vars, dbVars
<1>9. QED
  BY <1>1, <1>2, <1>5, <1>6, <1>7, <1>8 DEF Next

LEMMA Inductive == Safety => []IInv
<1>1. Init => IInv
  <2> SUFFICES ASSUME Init PROVE IInv
    OBVIOUS
  <2>1. TypeInv
    BY InitTypes
  <2>2. FreshRows /\ TrustIsEarned
    BY DEF Init, FreshRows, TrustIsEarned, Trusts, NoRow, Idle
  <2>3. RefundedAtWechat /\ RefundedOrderIsPaidBack /\ GoodsReturnOnce
    BY DEF Init, RefundedAtWechat, RefundedOrderIsPaidBack, GoodsReturnOnce, NoRow
  <2>4. QED
    BY <2>1, <2>2, <2>3 DEF IInv
<1>2. IInv /\ [Next]_vars => IInv'
  BY TypeStep, SourceForGood, TrustStep, OnlyFinishEnds DEF IInv
<1>3. QED
  BY <1>1, <1>2, PTL DEF Safety

\* A row says refunded only if WeChat has returned the money, however many
\* audits, callbacks and crons settle it at once and wherever they crash.
THEOREM RefundsAreReal == Safety => []RefundedAtWechat
BY Inductive, PTL DEF IInv

\* An order is shown as refunded only if WeChat has returned money for it.
THEOREM RefundedOrders == Safety => []RefundedOrderIsPaidBack
BY Inductive, PTL DEF IInv

\* The goods return to stock at most once for an order, only together with the
\* coupon and only for a refund before delivery that WeChat has paid.
THEOREM GoodsReturnAtMostOnce == Safety => []GoodsReturnOnce
BY Inductive, PTL DEF IInv
-----------------------------------------------------------------------------
(* What was paid, and the end of the order                                 *)

\* The refunds recorded as paid back, and those that WeChat has taken.
Ended == {r \in Refunds : refund[r].status = "refunded"}
Held == {r \in Refunds : wx[r].status \in {"PROCESSING", "SUCCESS"}}
Amounts == [r \in Refunds |-> wx[r].amount]

\* What WeChat has taken is still on its way in the row, with the same amount.
RowAgrees(r) ==
  /\ refund[r].status # "none" => refund[r].amount > 0
  /\ wx[r].status # "none" => refund[r].status # "none"
  /\ r \in Held => /\ refund[r].status \in {"approved", "refunding", "refunded"}
                   /\ wx[r].amount = refund[r].amount
RowsAgree == \A r \in Refunds : RowAgrees(r)

\* The request has seen that WeChat has not taken the refund, ...
Declined(t) == \/ t.pc \in {"cancel", "reject", "closed"}
               \/ t.pc = "answered" /\ t.answer = "refused"
               \/ t.pc = "reconcile" /\ t.answer \in {"CLOSED", "ABNORMAL"}

\* ... or that it has and has not paid it yet, so that not all was paid back.
Pending(t) == t.pc = "processing" \/ (t.pc = "reconcile" /\ t.answer = "PROCESSING")

\* What the one request has read still holds.
Careful(t) ==
  /\ t.pc \notin {"idle", "unshipped"} => refund[t.r].status # "none"
  /\ t.pc = "claim" => t.sawRefund \in {"pending", "failed"} /\ t.sawOrder # "refunded"
  /\ t.pc = "call" => refund[t.r].status = "approved" /\ t.total = refund[t.r].amount
  /\ t.pc = "answered" => \/ refund[t.r].status = "approved"
                          \/ refund[t.r].status = "refunded" /\ t.answer = "unknown"
  /\ t.pc = "clawback" => refund[t.r].status = "refunded"
  /\ Declined(t) => t.r \notin Held
  /\ Pending(t) => SumOf(Ended) < Payable

TakenWithinPaid == SumFunctionOnSet(Amounts, Held) <= Payable
EndsOrder == SumOf(Ended) >= Payable => order = "refunded"

RefundsAgree == RowsAgree /\ (\A w \in Workers : Careful(task[w])) /\ TakenWithinPaid /\ EndsOrder

OneRequest == \A v, w \in Workers : v = w

\* The sums are numbers; what is recorded as paid back WeChat has paid, and a
\* refund that it has only taken leaves something to pay.
LEMMA EndedIsHeld ==
  ASSUME TypeInv, RefundedAtWechat, RowsAgree, TakenWithinPaid
  PROVE  /\ IsFiniteSet(Held) /\ \A r \in Refunds : Amounts[r] \in Nat
         /\ SumOf(Ended) \in Nat
         /\ \A r \in Held \ Ended : SumOf(Ended) < Payable
<1> DEFINE f == [r \in Refunds |-> refund[r].amount]
<1>1. IsFiniteSet(Held)
  <2>1. Held \subseteq Rows
    BY DEF RowsAgree, RowAgrees, Rows, Held
  <2>2. QED
    BY <2>1, FS_Subset DEF TypeInv
<1>2. \A r \in Refunds : Amounts[r] \in Nat
  BY DEF TypeInv, TypeOK, Amounts
<1>3. SumOf(Ended) \in Nat
  BY SumOfType DEF Ended, Rows
<1>4. Ended \subseteq Held
  BY DEF Ended, Held, RefundedAtWechat
<1>5. SumOf(Ended) = SumFunctionOnSet(Amounts, Ended)
  <2>1. IsFiniteSet(Ended)
    BY <1>1, <1>4, FS_Subset
  <2>2. \A r \in Ended : f[r] = Amounts[r]
    BY <1>4 DEF RowsAgree, RowAgrees, Amounts, Ended
  <2>3. QED
    BY <2>1, <2>2, SumSame DEF SumOf
<1>6. ASSUME NEW r \in Held \ Ended PROVE SumOf(Ended) < Payable
  <2>1. IsFiniteSet(Held \ {r}) /\ Ended \in SUBSET (Held \ {r}) /\ \A x \in Held \ {r} : Amounts[x] \in Nat
    BY <1>1, <1>2, <1>4, <1>6, FS_RemoveElement DEF Held
  <2>2. SumFunctionOnSet(Amounts, Ended) <= SumFunctionOnSet(Amounts, Held \ {r})
    BY <2>1, SumOfPart
  <2>3. SumFunctionOnSet(Amounts, Held) = Amounts[r] + SumFunctionOnSet(Amounts, Held \ {r})
    <3>1. \A x \in Held : Amounts[x] \in Int
      BY <1>2 DEF Held
    <3>2. QED
      BY <1>1, <1>6, <3>1, SumWithout
  <2>4. Amounts[r] \in Nat /\ Amounts[r] > 0
    BY <1>2, <1>6 DEF RowsAgree, RowAgrees, Amounts, Held
  <2>5. SumFunctionOnSet(Amounts, Held \ {r}) \in Nat
    BY <2>1, SumType
  <2>6. SumFunctionOnSet(Amounts, Held) <= Payable
    BY DEF TakenWithinPaid
  <2> DEFINE whole == SumFunctionOnSet(Amounts, Held)
             rest == SumFunctionOnSet(Amounts, Held \ {r})
             part == SumFunctionOnSet(Amounts, Ended)
             some == Amounts[r]
  <2>7. /\ part \in Nat /\ part <= rest /\ whole = some + rest /\ some \in Nat /\ some > 0 /\ rest \in Nat
        /\ whole <= Payable /\ Payable \in Nat
    BY <1>3, <1>5, <2>2, <2>3, <2>4, <2>5, <2>6 DEF Payable
  <2> HIDE DEF whole, rest, part, some
  <2>8. part < Payable
    BY <2>7
  <2>9. QED
    BY <1>5, <2>8 DEF part
<1>7. QED
  BY <1>1, <1>2, <1>3, <1>6

\* A step that records no refund as paid leaves the sums at what they were.
LEMMA NothingEnds ==
  ASSUME IInv, RefundsAgree, UNCHANGED wx,
         \A r \in Refunds : refund'[r].status = "refunded" => refund[r].status = "refunded",
         \A r \in Refunds : refund[r].status = "refunded" => refund'[r].amount = refund[r].amount
  PROVE  /\ SumOf(Ended)' \in Nat /\ SumOf(Ended)' <= SumOf(Ended)
         /\ TakenWithinPaid'
         /\ Held' = Held
<1> DEFINE f == [r \in Refunds |-> refund[r].amount]
           g == [r \in Refunds |-> refund'[r].amount]
<1>1. IsFiniteSet(Ended) /\ Ended' \in SUBSET Ended /\ \A r \in Ended : f[r] \in Nat
  <2>1. Ended \subseteq Rows
    BY DEF Ended, Rows
  <2>2. QED
    BY <2>1, FS_Subset DEF IInv, TypeInv, TypeOK, Ended
<1>2. SumFunctionOnSet(f, Ended') <= SumFunctionOnSet(f, Ended)
  BY <1>1, SumOfPart
<1>3. SumFunctionOnSet(f, Ended') = SumFunctionOnSet(g, Ended') /\ SumFunctionOnSet(f, Ended') \in Nat
  <2>1. IsFiniteSet(Ended')
    BY <1>1, FS_Subset
  <2>2. \A r \in Ended' : f[r] = g[r] /\ f[r] \in Nat
    BY <1>1 DEF Ended
  <2> HIDE DEF f, g
  <2>3. SumFunctionOnSet(f, Ended') = SumFunctionOnSet(g, Ended')
    BY <2>1, <2>2, SumSame
  <2>4. SumFunctionOnSet(f, Ended') \in Nat
    <3>1. \A r \in Ended' : f[r] \in Int
      BY <2>2
    <3>2. QED
      BY <2>1, <2>2, <3>1, SumType
  <2>5. QED
    BY <2>3, <2>4
<1>4. SumOf(Ended) = SumFunctionOnSet(f, Ended) /\ SumOf(Ended)' = SumFunctionOnSet(g, Ended')
  BY DEF SumOf
<1>5. Held' = Held /\ TakenWithinPaid'
  <2>1. Held' = Held /\ Amounts' = Amounts /\ Payable' = Payable
    BY DEF Held, Amounts, Payable
  <2>2. QED
    BY <2>1 DEF TakenWithinPaid, RefundsAgree
<1>6. QED
  BY <1>2, <1>3, <1>4, <1>5

\* What remains to be shown of a step that leaves the rows alone, ...
LEMMA RowsRest ==
  ASSUME IInv, RefundsAgree, UNCHANGED <<refund, wx>>,
         order = "refunded" /\ SumOf(Ended) >= Payable => order' = "refunded",
         \A v \in Workers : Careful(task[v])'
  PROVE  RefundsAgree'
<1>1. RowsAgree'
  BY DEF RefundsAgree, RowsAgree, RowAgrees, Held
<1>2. Held' = Held /\ Amounts' = Amounts /\ Payable' = Payable /\ SumOf(Ended)' = SumOf(Ended)
  BY DEF Held, Amounts, Payable, SumOf, Ended
<1>3. TakenWithinPaid' /\ EndsOrder'
  BY <1>2 DEF TakenWithinPaid, EndsOrder, RefundsAgree
<1>4. QED
  BY <1>1, <1>3 DEF RefundsAgree

\* ... and of one that writes a row but pays nothing back.
LEMMA RowWritten ==
  ASSUME IInv, RefundsAgree, UNCHANGED wx, NEW r \in Refunds, Writes(r),
         refund'[r].status # "refunded",
         refund'[r].status # "none", refund'[r].amount > 0,
         r \in Held => /\ refund'[r].status \in {"approved", "refunding"}
                       /\ refund'[r].amount = refund[r].amount,
         refund[r].status = "refunded" => refund'[r].amount = refund[r].amount,
         order = "refunded" /\ SumOf(Ended) >= Payable => order' = "refunded",
         \A v \in Workers : Careful(task[v])'
  PROVE  RefundsAgree'
<1>1. /\ \A x \in Refunds : refund'[x].status = "refunded" => refund[x].status = "refunded"
      /\ \A x \in Refunds : refund[x].status = "refunded" => refund'[x].amount = refund[x].amount
  BY DEF Writes
<1>2. SumOf(Ended)' \in Nat /\ SumOf(Ended)' <= SumOf(Ended) /\ TakenWithinPaid' /\ Held' = Held
  BY <1>1, NothingEnds
<1>3. RowsAgree'
  BY <1>2 DEF RefundsAgree, RowsAgree, RowAgrees, Writes, Held
<1>4. EndsOrder'
  <2>1. SumOf(Ended) \in Nat
    BY EndedIsHeld DEF IInv, RefundsAgree
  <2>2. Payable \in Nat /\ Payable' = Payable
    BY DEF Payable
  <2>3. SumOf(Ended)' >= Payable => SumOf(Ended) >= Payable
    BY <1>2, <2>1, <2>2
  <2>4. QED
    BY <2>2, <2>3 DEF EndsOrder, RefundsAgree
<1>5. QED
  BY <1>2, <1>3, <1>4 DEF RefundsAgree

\* A request that ends leaves nothing to be careful about.
LEMMA LeavesCareful ==
  ASSUME TypeInv, OneRequest, NEW w \in Workers, Leave(w)
  PROVE  \A v \in Workers : Careful(task[v])'
<1>1. task'[w] = Idle
  BY DEF Leave, TypeInv, TypeOK
<1>2. ASSUME NEW v \in Workers PROVE task'[v].pc = "idle"
  BY <1>1, IdleTask DEF OneRequest
<1>3. QED
  BY <1>2 DEF Careful, Declined, Pending

\* A request that goes on does so by what its record says.
LEMMA OneCareful ==
  ASSUME OneRequest, NEW w \in Workers, Careful(task[w])'
  PROVE  \A v \in Workers : Careful(task[v])'
BY DEF OneRequest

LEMMA AgreeStarts ==
  ASSUME IInv, RefundsAgree, OneRequest, NEW w \in Workers, NEW r \in Refunds, Starts(w, r)
  PROVE  RefundsAgree'
<1> DEFINE u == task'[w]
<1>0. w \in DOMAIN task /\ TypeInv /\ RowAgrees(r) /\ refund \in [Refunds -> RowSet]
  BY DEF IInv, TypeInv, TypeOK, RowSet, RefundsAgree, RowsAgree
<1>1. CASE UnshippedCheck(w, r)
  <2>1. u.pc = "unshipped" /\ UNCHANGED <<refund, wx, order>>
    BY <1>0, <1>1 DEF UnshippedCheck, Idle, dbVars
  <2>2. Careful(task[w])'
    BY <2>1 DEF Careful, Declined, Pending
  <2>3. QED
    BY <2>1, <2>2, OneCareful, RowsRest
<1>2. CASE CreateForStaff(w, r)
  <2>1. PICK amount \in Awards :
          Inserts(r, Row("pending", "after-sale", amount, IF order = "after-sales" THEN "none" ELSE order, TRUE))
    BY <1>2 DEF CreateForStaff, Inserts
  <2>2. /\ Writes(r) /\ refund'[r].status = "pending" /\ refund'[r].amount = amount /\ amount > 0
        /\ UNCHANGED wx /\ order # "refunded" /\ refund[r].status = "none"
    BY <1>0, <1>2, <2>1 DEF CreateForStaff, Inserts, Writes, Row, Free
  <2>3. u.pc = "audit" /\ u.r = r
    BY <1>0, <1>2 DEF CreateForStaff, Idle
  <2>4. Careful(task[w])'
    BY <2>2, <2>3 DEF Careful, Declined, Pending
  <2>5. r \notin Held
    BY <1>0, <2>2 DEF RowAgrees, Held
  <2>6. QED
    BY <1>0, <2>2, <2>4, <2>5, OneCareful, RowWritten
<1>3. CASE CancelRead(w, r) \/ RejectRead(w, r)
  <2>1. /\ u.pc \in {"cancel", "reject"} /\ u.r = r /\ UNCHANGED <<refund, wx, order>>
        /\ refund[r].status \in {"pending", "failed"}
    BY <1>0, <1>3 DEF CancelRead, RejectRead, Idle, dbVars
  <2>2. r \notin Held /\ Held' = Held
    BY <1>0, <2>1 DEF RowAgrees, Held
  <2>3. Careful(task[w])'
    BY <2>1, <2>2 DEF Careful, Declined, Pending
  <2>4. QED
    BY <2>1, <2>3, OneCareful, RowsRest
<1>4. CASE ApproveRead(w, r)
  <2>1. UNCHANGED <<refund, wx, order>>
    BY <1>4 DEF ApproveRead, dbVars
  <2>2. CASE Leave(w)
    BY <1>0, <2>1, <2>2, LeavesCareful, RowsRest
  <2>3. CASE ~Leave(w)
    <3>1. PICK withFee \in BOOLEAN :
            task' = [task EXCEPT ![w] = [Idle EXCEPT !.pc = "claim", !.r = r, !.sawRefund = refund[r].status,
                                                     !.sawOrder = order, !.fee = withFee]]
      BY <1>4, <2>3 DEF ApproveRead
    <3>2. refund[r].status \in {"pending", "failed"} /\ order # "refunded"
      BY <1>4, <2>3 DEF ApproveRead, Undelivered
    <3>3. u.pc = "claim" /\ u.r = r /\ u.sawRefund = refund[r].status /\ u.sawOrder = order
      BY <1>0, <3>1 DEF Idle
    <3>4. Careful(task[w])'
      BY <2>1, <3>2, <3>3 DEF Careful, Declined, Pending
    <3>5. QED
      BY <2>1, <3>4, OneCareful, RowsRest
  <2>4. QED
    BY <2>2, <2>3
<1>5. CASE SyncRead(w, r)
  <2>1. /\ u.pc = "query" /\ u.r = r /\ UNCHANGED <<refund, wx, order>>
        /\ refund[r].status # "none"
    BY <1>0, <1>5 DEF SyncRead, Outstanding, Idle, dbVars
  <2>2. Careful(task[w])'
    BY <2>1 DEF Careful, Declined, Pending
  <2>3. QED
    BY <2>1, <2>2, OneCareful, RowsRest
<1>6. CASE Callback(w, r)
  <2>1. /\ u.pc = "reconcile" /\ u.r = r /\ u.answer = wx[r].status /\ wx[r].status \in {"SUCCESS", "CLOSED"}
        /\ UNCHANGED <<refund, wx, order>>
    BY <1>0, <1>6 DEF Callback, Idle, dbVars
  <2>2. refund[r].status # "none" /\ (wx[r].status = "CLOSED" => r \notin Held) /\ Held' = Held
    BY <1>0, <2>1 DEF RowAgrees, Held
  <2>3. Careful(task[w])'
    BY <2>1, <2>2 DEF Careful, Declined, Pending
  <2>4. QED
    BY <2>1, <2>3, OneCareful, RowsRest
<1>7. QED
  BY <1>1, <1>2, <1>3, <1>4, <1>5, <1>6 DEF Starts

\* A request that WeChat has declined closes the row, and unlocks the order.
LEMMA AgreeMarks ==
  ASSUME IInv, RefundsAgree, OneRequest, NEW w \in Workers, Careful(task[w]), task[w].r \in Refunds,
         refund[task[w].r].status # "none", task[w].r \notin Held,
         NEW s \in RefundStatuses \ {"none", "refunded"}, Marks(task[w].r, s), UNCHANGED wx,
         order = "refunded" => order' = "refunded",
         \A v \in Workers : Careful(task[v])'
  PROVE  RefundsAgree'
<1> DEFINE r == task[w].r
<1>1. /\ Writes(r) /\ refund'[r].status = s /\ refund'[r].amount = refund[r].amount
      /\ refund[r].amount > 0
  BY DEF Marks, Writes, IInv, TypeInv, TypeOK, RefundsAgree, RowsAgree, RowAgrees
<1> HIDE DEF r
<1>2. QED
  BY <1>1, RowWritten DEF r

LEMMA AgreeClaim ==
  ASSUME IInv, RefundsAgree, OneRequest, NEW w \in Workers, ApproveClaim(w)
  PROVE  RefundsAgree'
<1> DEFINE t == task[w]
           r == task[w].r
<1>0. /\ w \in DOMAIN task /\ TypeInv /\ t.pc = "claim" /\ r \in Refunds /\ refund[r] \in RowSet
      /\ refund \in [Refunds -> RowSet] /\ Careful(t) /\ RowAgrees(r) /\ UNCHANGED wx
  <2>1. t.pc = "claim" /\ TypeInv
    BY DEF ApproveClaim, At, IInv
  <2>2. QED
    BY <2>1, AtWork DEF ApproveClaim, TypeInv, TypeOK, RowSet, RefundsAgree, RowsAgree
<1>1. CASE Leave(w)
  <2>1. UNCHANGED <<refund, order>>
    <3>1. task'[w] = Idle
      BY <1>0, <1>1 DEF Leave
    <3>2. ASSUME NEW a, task' = [task EXCEPT ![w] = [Idle EXCEPT !.pc = "call", !.r = t.r, !.total = a]]
          PROVE  FALSE
      BY <1>0, <3>1, <3>2 DEF Idle
    <3>3. QED
      BY <3>2 DEF ApproveClaim
  <2>2. QED
    BY <1>0, <1>1, <2>1, LeavesCareful, RowsRest
<1>2. CASE ~Leave(w)
  <2>1. PICK amount \in Awardable(r) :
          /\ ClaimValid(w)
          /\ refund' = [refund EXCEPT ![r].status = "approved", ![r].amount = amount, ![r].fee = t.fee]
          /\ order' = IF t.sawOrder = "after-sales" THEN order ELSE "after-sales"
          /\ task' = [task EXCEPT ![w] = [Idle EXCEPT !.pc = "call", !.r = r, !.total = amount]]
    BY <1>2 DEF ApproveClaim
  <2>2. /\ refund[r].status \in {"pending", "failed"}
        /\ order = "refunded" => order' = "refunded"
    BY <1>0, <2>1 DEF ClaimValid, Careful
  <2>3. amount > 0
    <3>1. amount \in Awards \/ amount = refund[r].amount
      BY <2>1 DEF Awardable
    <3>2. refund[r].amount > 0 /\ \A a \in Awards : a > 0
      BY <1>0, <2>2 DEF RowAgrees
    <3>3. QED
      BY <3>1, <3>2
  <2>4. Writes(r) /\ refund'[r].status = "approved" /\ refund'[r].amount = amount
    BY <1>0, <2>1 DEF Writes
  <2>5. r \notin Held
    BY <1>0, <2>2 DEF RowAgrees, Held
  <2>6. task'[w].pc = "call" /\ task'[w].r = r /\ task'[w].total = amount
    BY <1>0, <2>1 DEF Idle
  <2>7. Careful(task[w])'
    BY <2>4, <2>6 DEF Careful, Declined, Pending
  <2> HIDE DEF r
  <2>8. QED
    BY <1>0, <2>2, <2>3, <2>4, <2>5, <2>7, OneCareful, RowWritten
<1>3. QED
  BY <1>1, <1>2

\* WeChat takes the refund that the row records, within what was paid.
LEMMA AgreeCall ==
  ASSUME IInv, RefundsAgree, OneRequest, NEW w \in Workers, CallWechat(w)
  PROVE  RefundsAgree'
<1> DEFINE t == task[w]
           r == task[w].r
<1>0. /\ w \in DOMAIN task /\ TypeInv /\ t \in TaskSet /\ t.pc = "call" /\ r \in Refunds
      /\ wx \in [Refunds -> WechatSet] /\ UNCHANGED <<refund, order>>
      /\ t.total = refund[r].amount /\ refund[r].status = "approved" /\ RowAgrees(r)
      /\ refund[r].amount \in Nat /\ Payable \in Nat
  <2>1. t.pc = "call" /\ TypeInv
    BY DEF CallWechat, At, IInv
  <2>2. t \in TaskSet /\ r \in Refunds /\ w \in DOMAIN task /\ wx \in [Refunds -> WechatSet] /\ refund[r].amount \in Nat
    BY <2>1, AtWork DEF TypeInv, TypeOK, WechatSet, RowSet
  <2>3. t.total = refund[r].amount /\ refund[r].status = "approved" /\ RowAgrees(r)
    BY <2>1, <2>2 DEF RefundsAgree, RowsAgree, Careful
  <2>4. QED
    BY <2>1, <2>2, <2>3 DEF CallWechat, dbVars, Payable
<1>1. PICK a \in Answers :
        /\ task' = [task EXCEPT ![w].pc = "answered", ![w].answer = a, ![w].total = 0]
        /\ \/ a = "unknown" /\ UNCHANGED wx
           \/ \E got \in {"SUCCESS", "PROCESSING", "refused"} :
                WechatTakes(r, t.total, got) /\ a \in {got, "unknown"}
  BY DEF CallWechat, Answers
<1>2. task'[w].pc = "answered" /\ task'[w].answer = a /\ task'[w].r = r
  BY <1>0, <1>1 DEF TaskSet
<1>3. CASE UNCHANGED wx
  <2>1. a = "refused" => r \notin Held
    BY <1>0, <1>1, <1>3 DEF WechatTakes, RowAgrees, Held, WechatSet
  <2>2. Held' = Held
    BY <1>3 DEF Held
  <2>3. Careful(task[w])'
    BY <1>0, <1>2, <2>1, <2>2 DEF Careful, Declined, Pending
  <2>4. QED
    BY <1>0, <1>3, <2>3, OneCareful, RowsRest
<1>4. ASSUME NEW got \in {"SUCCESS", "PROCESSING"}, wx[r].status \in {"none", "CLOSED"},
             t.total + WechatHeld(r) <= Payable, a \in {got, "unknown"},
             wx' = [wx EXCEPT ![r] = [status |-> got, amount |-> t.total]]
      PROVE  RefundsAgree'
  <2>1. r \notin Held /\ Held' = Held \cup {r} /\ Held \subseteq Refunds
    BY <1>0, <1>4 DEF Held
  <2>2. WechatHeld(r) = SumFunctionOnSet(Amounts, Held)
    <3>1. {x \in Refunds \ {r} : wx[x].status \in {"PROCESSING", "SUCCESS"}} = Held
      BY <2>1 DEF Held
    <3>2. QED
      BY <3>1 DEF WechatHeld, Amounts
  <2>3. Amounts'[r] = t.total /\ \A x \in Held : Amounts'[x] = Amounts[x]
    BY <1>0, <1>4, <2>1 DEF Amounts, WechatSet
  <2>4. IsFiniteSet(Held) /\ (\A x \in Refunds : Amounts[x] \in Nat) /\ t.total \in Nat
    BY <1>0, EndedIsHeld DEF IInv, RefundsAgree
  <2>5. SumFunctionOnSet(Amounts', Held) = SumFunctionOnSet(Amounts, Held)
    <3>1. \A x \in Held : Amounts[x] = Amounts'[x]
      BY <2>3
    <3>2. QED
      BY <2>4, <3>1, SumSame
  <2>6. SumFunctionOnSet(Amounts', Held') = t.total + SumFunctionOnSet(Amounts, Held)
    <3>1. \A x \in Held \cup {r} : Amounts'[x] \in Int
      BY <2>1, <2>3, <2>4
    <3>2. SumFunctionOnSet(Amounts', Held \cup {r}) = Amounts'[r] + SumFunctionOnSet(Amounts', Held)
      BY <2>1, <2>4, <3>1, SumWith
    <3>3. QED
      BY <2>1, <2>3, <2>5, <3>2
  <2>7. Payable' = Payable /\ SumOf(Ended)' = SumOf(Ended)
    BY <1>0 DEF Payable, SumOf, Ended
  <2>8. TakenWithinPaid' /\ EndsOrder'
    BY <1>0, <1>4, <2>2, <2>6, <2>7 DEF TakenWithinPaid, EndsOrder, RefundsAgree
  <2>9. RowsAgree'
    <3>1. /\ wx'[r].status = got /\ wx'[r].amount = t.total
          /\ \A x \in Refunds \ {r} : wx'[x] = wx[x]
      BY <1>0, <1>4
    <3>2. QED
      BY <1>0, <2>1, <3>1 DEF RefundsAgree, RowsAgree, RowAgrees
  <2>10. Careful(task[w])'
    BY <1>0, <1>2, <1>4 DEF Careful, Declined, Pending
  <2>11. QED
    BY <2>8, <2>9, <2>10, OneCareful DEF RefundsAgree
<1>5. QED
  BY <1>1, <1>3, <1>4 DEF WechatTakes

LEMMA AgreeSettles ==
  ASSUME IInv, RefundsAgree, NEW r \in Refunds, WechatSettles(r)
  PROVE  RefundsAgree'
<1>0. /\ wx \in [Refunds -> WechatSet] /\ UNCHANGED <<refund, order, task>> /\ r \in Held
      /\ Payable \in Nat
  BY DEF WechatSettles, dbVars, IInv, TypeInv, TypeOK, WechatSet, Held, Payable
<1>1. PICK end \in {"SUCCESS", "CLOSED"} : wx' = [wx EXCEPT ![r].status = end]
  BY DEF WechatSettles
<1>2. /\ wx'[r].status = end /\ \A x \in Refunds : wx'[x].amount = wx[x].amount
      /\ \A x \in Refunds \ {r} : wx'[x] = wx[x]
  BY <1>0, <1>1 DEF WechatSet
<1>3. Amounts' = Amounts /\ Held' \in SUBSET Held /\ Payable' = Payable /\ SumOf(Ended)' = SumOf(Ended)
  BY <1>0, <1>2 DEF Amounts, Held, Payable, SumOf, Ended
<1>4. IsFiniteSet(Held) /\ \A x \in Held : Amounts[x] \in Nat
  BY EndedIsHeld DEF IInv, RefundsAgree, Held
<1>5. /\ SumFunctionOnSet(Amounts, Held') <= SumFunctionOnSet(Amounts, Held)
      /\ SumFunctionOnSet(Amounts, Held') \in Nat /\ SumFunctionOnSet(Amounts, Held) \in Nat
  <2>1. IsFiniteSet(Held') /\ (\A x \in Held' : Amounts[x] \in Nat)
    BY <1>3, <1>4, FS_Subset
  <2>2. (\A x \in Held' : Amounts[x] \in Int) /\ (\A x \in Held : Amounts[x] \in Int)
    BY <1>4, <2>1
  <2>3. SumFunctionOnSet(Amounts, Held') \in Nat /\ SumFunctionOnSet(Amounts, Held) \in Nat
    BY <1>4, <2>1, <2>2, SumType
  <2>4. SumFunctionOnSet(Amounts, Held') <= SumFunctionOnSet(Amounts, Held)
    BY <1>3, <1>4, SumOfPart
  <2>5. QED
    BY <2>3, <2>4
<1>6. TakenWithinPaid' /\ EndsOrder'
  <2>1. SumFunctionOnSet(Amounts, Held') <= Payable
    BY <1>0, <1>5 DEF RefundsAgree, TakenWithinPaid
  <2>2. QED
    BY <1>0, <1>3, <2>1 DEF TakenWithinPaid, EndsOrder, RefundsAgree
<1>7. RowsAgree'
  BY <1>0, <1>2, <1>3 DEF RefundsAgree, RowsAgree, RowAgrees, Held
<1>8. ASSUME NEW v \in Workers PROVE Careful(task[v])'
  BY <1>0, <1>3 DEF RefundsAgree, Careful, Declined, Pending
<1>9. QED
  BY <1>6, <1>7, <1>8 DEF RefundsAgree

\* The settlement: the order is over if nothing remains to be paid back.
LEMMA AgreeFinish ==
  ASSUME IInv, RefundsAgree, OneRequest, NEW w \in Workers, Finish(w)
  PROVE  RefundsAgree'
<1> DEFINE t == task[w]
           r == task[w].r
           f == [x \in Refunds |-> refund[x].amount]
           g == [x \in Refunds |-> refund'[x].amount]
<1>0. /\ w \in DOMAIN task /\ TypeInv /\ t \in TaskSet /\ t.pc = "finish" /\ r \in Refunds
      /\ refund[r] \in RowSet /\ refund[r].status # "none" /\ wx[r].status = "SUCCESS" /\ UNCHANGED wx
  <2>1. t.pc = "finish" /\ TypeInv
    BY DEF Finish, At, IInv
  <2>2. t \in TaskSet /\ r \in Refunds /\ w \in DOMAIN task /\ refund[r] \in RowSet
    BY <2>1, AtWork DEF TypeInv, TypeOK
  <2>3. refund[r].status # "none"
    BY <2>1 DEF RefundsAgree, Careful
  <2>4. wx[r].status = "SUCCESS"
    BY <2>1 DEF IInv, TrustIsEarned, Trusts, Paid
  <2>5. QED
    BY <2>1, <2>2, <2>3, <2>4 DEF Finish
<1>1. CASE AlreadyFinished(r)
  BY <1>0, <1>1, LeavesCareful, RowsRest DEF Finish
<1>2. CASE ~AlreadyFinished(r)
  <2>1. /\ Marks(r, "refunded")
        /\ order' = IF IsFull(r) THEN "refunded" ELSE RestoreTarget(refund[r].before)
    BY <1>2 DEF Finish, Marks
  <2>2. /\ Writes(r) /\ refund'[r].status = "refunded" /\ \A x \in Refunds : refund'[x].amount = refund[x].amount
    BY <1>0, <2>1 DEF Marks, Writes, TypeInv, TypeOK
  <2>3. Held' = Held /\ Amounts' = Amounts /\ Payable' = Payable
    BY <1>0 DEF Held, Amounts, Payable
  <2>4. TakenWithinPaid'
    BY <2>3 DEF RefundsAgree, TakenWithinPaid
  <2>5. RowsAgree'
    BY <1>0, <2>2, <2>3 DEF RefundsAgree, RowsAgree, RowAgrees, Writes
  <2>6. \A v \in Workers : Careful(task[v])'
    <3>1. task'[w].pc = "clawback" /\ task'[w].r = r
      BY <1>0, <1>2 DEF Finish, TaskSet
    <3>2. Careful(task[w])'
      BY <2>2, <3>1 DEF Careful, Declined, Pending
    <3>3. QED
      BY <3>2, OneCareful
  <2>7. SumOf(Ended)' = RefundedBut(r) + refund[r].amount
    <3>1. Ended' = Ended \cup {r} /\ r \notin Ended /\ Ended = {x \in Refunds \ {r} : refund[x].status = "refunded"}
      BY <1>0, <1>2, <2>2 DEF Ended, Writes, AlreadyFinished
    <3>2. IsFiniteSet(Ended) /\ \A x \in Ended \cup {r} : f[x] \in Int
      <4>1. Ended \subseteq Rows
        BY DEF Ended, Rows
      <4>2. QED
        BY <1>0, <4>1, FS_Subset DEF TypeInv, TypeOK, Ended
    <3>3. SumFunctionOnSet(f, Ended \cup {r}) = f[r] + SumFunctionOnSet(f, Ended)
      BY <3>1, <3>2, SumWith
    <3>4. f = g /\ f[r] = refund[r].amount
      BY <1>0, <2>2
    <3>5. SumOf(Ended)' = SumFunctionOnSet(g, Ended') /\ RefundedBut(r) = SumFunctionOnSet(f, Ended)
      BY <3>1 DEF SumOf, RefundedBut
    <3>6. SumFunctionOnSet(f, Ended) \in Nat /\ refund[r].amount \in Nat
      <4>1. \A x \in Ended : f[x] \in Int
        BY <3>2
      <4>2. \A x \in Ended : f[x] \in Nat
        BY <1>0 DEF TypeInv, TypeOK, Ended
      <4>3. QED
        BY <1>0, <3>2, <4>1, <4>2, SumType DEF RowSet
    <3> HIDE DEF f, g, r
    <3>7. QED
      BY <3>1, <3>3, <3>4, <3>5, <3>6
  <2>8. EndsOrder'
    <3>1. FullCeiling \in Nat /\ FullCeiling <= Payable /\ Payable \in Nat
      BY DEF FullCeiling, Ceiling, Payable
    <3>2. RefundedBut(r) \in Nat /\ refund[r].amount \in Nat
      BY <1>0, RefundedButType DEF RowSet
    <3>3. RefundedBut(r) + refund[r].amount >= Payable => IsFull(r)
      BY <3>1, <3>2 DEF IsFull
    <3>4. QED
      BY <2>1, <2>3, <2>7, <3>3 DEF EndsOrder
  <2>9. QED
    BY <2>4, <2>5, <2>6, <2>8 DEF RefundsAgree
<1>3. QED
  BY <1>1, <1>2

\* The other steps of a request.
LEMMA AgreeWorks ==
  ASSUME IInv, RefundsAgree, OneRequest, NEW w \in Workers, Works(w),
         ~ApproveClaim(w), ~CallWechat(w), ~Finish(w)
  PROVE  RefundsAgree'
<1> DEFINE t == task[w]
           r == task[w].r
<1>0. /\ w \in DOMAIN task /\ TypeInv /\ t \in TaskSet /\ t.pc # "idle" /\ r \in Refunds
      /\ refund[r] \in RowSet /\ refund \in [Refunds -> RowSet] /\ Careful(t) /\ RowAgrees(r)
  <2>1. t.pc # "idle" /\ TypeInv
    BY DEF Works, UnshippedCreate, CancelWrite, RejectWrite, ApproveClaim, CallWechat, RecordAnswer,
           UnlockAfterRefusal, Finish, Clawback, QueryWechat, ReconcileRead, RecordProcessing, RecordClosed,
           At, IInv
  <2>2. QED
    BY <2>1, AtWork DEF TypeInv, TypeOK, RowSet, RefundsAgree, RowsAgree
<1>1. ASSUME Leave(w), UNCHANGED <<refund, wx>>, order = "refunded" => order' = "refunded" PROVE RefundsAgree'
  BY <1>0, <1>1, LeavesCareful, RowsRest
<1>2. CASE UnshippedCreate(w)
  <2>1. Leave(w) /\ UNCHANGED <<wx, order>>
    BY <1>2 DEF UnshippedCreate
  <2>2. CASE Free(r)
    <3>1. Inserts(r, Row("pending", "pre-delivery", ListPrice, t.sawOrder, FALSE))
      BY <1>2, <2>2 DEF UnshippedCreate, Inserts
    <3>2. /\ Writes(r) /\ refund'[r].status = "pending" /\ refund'[r].amount > 0 /\ refund[r].status = "none"
      BY <1>0, <2>2, <3>1 DEF Inserts, Writes, Row, Free
    <3>3. r \notin Held
      BY <1>0, <3>2 DEF RowAgrees, Held
    <3> HIDE DEF r
    <3>4. QED
      BY <1>0, <2>1, <3>2, <3>3, LeavesCareful, RowWritten
  <2>3. CASE ~Free(r)
    BY <1>1, <1>2, <2>1, <2>3 DEF UnshippedCreate
  <2>4. QED
    BY <2>2, <2>3
<1>3. CASE CancelWrite(w) \/ RejectWrite(w) \/ RecordClosed(w)
  <2>1. PICK s \in {"cancelled", "rejected", "failed"} : Marks(r, s)
    BY <1>3 DEF CancelWrite, RejectWrite, RecordClosed, Marks
  <2>2. Leave(w) /\ UNCHANGED wx /\ (order = "refunded" => order' = "refunded")
    BY <1>3 DEF CancelWrite, RejectWrite, RecordClosed, Unlock
  <2>3. refund[r].status # "none" /\ r \notin Held
    BY <1>0, <1>3 DEF CancelWrite, RejectWrite, RecordClosed, At, Careful, Declined
  <2>4. s \in RefundStatuses \ {"none", "refunded"}
    BY DEF RefundStatuses
  <2>5. QED
    BY <1>0, <2>1, <2>2, <2>3, <2>4, LeavesCareful, AgreeMarks
<1>4. CASE RecordAnswer(w)
  <2>0. /\ t.pc = "answered" /\ refund[r].status \in {"approved", "refunded"} /\ UNCHANGED <<wx, order>>
        /\ t.answer # "unknown" => refund[r].status = "approved"
    BY <1>0, <1>4 DEF RecordAnswer, At, Careful
  <2>1. CASE task' = [task EXCEPT ![w].pc = "finish", ![w].by = "audit"] /\ UNCHANGED refund
    <3>1. task'[w].pc = "finish" /\ task'[w].r = r
      BY <1>0, <2>1 DEF TaskSet
    <3>2. Careful(task[w])'
      BY <2>0, <2>1, <3>1 DEF Careful, Declined, Pending
    <3>3. QED
      BY <2>0, <2>1, <3>2, OneCareful, RowsRest
  <2>2. CASE refund' = [refund EXCEPT ![r].status = "refunding"] /\ Leave(w)
    <3>1. /\ Writes(r) /\ refund'[r].status = "refunding" /\ refund'[r].amount = refund[r].amount
          /\ refund[r].amount > 0
      BY <1>0, <2>0, <2>2 DEF Writes, RowAgrees
    <3> HIDE DEF r
    <3>2. QED
      BY <1>0, <2>0, <2>2, <3>1, LeavesCareful, RowWritten
  <2>3. CASE /\ t.answer = "refused"
             /\ refund' = [refund EXCEPT ![r].status = "failed"]
             /\ task' = [task EXCEPT ![w].pc = "unlock"]
    <3>1. task'[w].pc = "unlock" /\ task'[w].r = r /\ refund'[r].status = "failed"
      BY <1>0, <2>3 DEF TaskSet
    <3>2. Careful(task[w])'
      BY <3>1 DEF Careful, Declined, Pending
    <3>3. r \notin Held
      BY <1>0, <2>0, <2>3 DEF Careful, Declined
    <3>4. Marks(r, "failed") /\ "failed" \in RefundStatuses \ {"none", "refunded"}
      BY <2>3 DEF Marks, RefundStatuses
    <3>5. QED
      BY <1>0, <2>0, <3>2, <3>3, <3>4, OneCareful, AgreeMarks
  <2>4. QED
    BY <1>4, <2>1, <2>2, <2>3 DEF RecordAnswer
<1>5. CASE UnlockAfterRefusal(w) \/ Clawback(w)
  BY <1>1, <1>5 DEF UnlockAfterRefusal, Clawback, Unlock
<1>6. CASE QueryWechat(w)
  <2>1. /\ task'[w].pc = "reconcile" /\ task'[w].r = r /\ UNCHANGED <<refund, wx, order>>
        /\ task'[w].answer = IF wx[r].status = "none" THEN "ABNORMAL" ELSE wx[r].status
        /\ refund[r].status # "none"
    BY <1>0, <1>6 DEF QueryWechat, TaskSet, dbVars, At, Careful
  <2>2. task'[w].answer \in {"CLOSED", "ABNORMAL"} => r \notin Held
    BY <2>1 DEF Held
  <2>3. task'[w].answer = "PROCESSING" => SumOf(Ended) < Payable
    <3>1. ASSUME wx[r].status = "PROCESSING" PROVE r \in Held \ Ended
      BY <1>0, <3>1 DEF Held, Ended, IInv, RefundedAtWechat
    <3>2. QED
      BY <2>1, <3>1, EndedIsHeld DEF IInv, RefundsAgree
  <2>4. Held' = Held /\ SumOf(Ended)' = SumOf(Ended) /\ Payable' = Payable
    BY <2>1 DEF Held, SumOf, Ended, Payable
  <2>5. Careful(task[w])'
    BY <2>1, <2>2, <2>3, <2>4 DEF Careful, Declined, Pending
  <2>6. QED
    BY <2>1, <2>5, OneCareful, RowsRest
<1>7. CASE ReconcileRead(w)
  <2>0. t.pc = "reconcile" /\ refund[r].status # "none" /\ UNCHANGED <<refund, wx, order>>
    BY <1>0, <1>7 DEF ReconcileRead, At, Careful, dbVars
  <2>1. CASE Leave(w)
    BY <1>1, <2>0, <2>1
  <2>2. ASSUME NEW pc \in {"finish", "processing", "closed"},
               NEW saw, task' = [task EXCEPT ![w].pc = pc, ![w].sawOrder = saw, ![w].by = "sync"],
               pc = "processing" => t.answer = "PROCESSING",
               pc = "closed" => t.answer \in {"CLOSED", "ABNORMAL"}
        PROVE  RefundsAgree'
    <3>1. task'[w].pc = pc /\ task'[w].r = r
      BY <1>0, <2>2 DEF TaskSet
    <3>2. Held' = Held /\ SumOf(Ended)' = SumOf(Ended) /\ Payable' = Payable
      BY <2>0 DEF Held, SumOf, Ended, Payable
    <3>3. /\ pc = "closed" => r \notin Held
          /\ pc = "processing" => SumOf(Ended) < Payable
      BY <1>0, <2>0, <2>2 DEF Careful, Declined, Pending
    <3>4. Careful(task[w])'
      BY <2>0, <2>2, <3>1, <3>2, <3>3 DEF Careful, Declined, Pending
    <3>5. QED
      BY <2>0, <3>4, OneCareful, RowsRest
  <2>3. QED
    BY <1>7, <2>1, <2>2 DEF ReconcileRead
<1>8. CASE RecordProcessing(w)
  <2>1. Marks(r, "refunding") /\ Leave(w) /\ UNCHANGED wx
    BY <1>8 DEF RecordProcessing, Marks
  <2>2. refund[r].status # "none" /\ SumOf(Ended) < Payable
    BY <1>0, <1>8 DEF RecordProcessing, At, Careful, Pending
  <2>3. /\ Writes(r) /\ refund'[r].status = "refunding" /\ refund'[r].amount = refund[r].amount
        /\ refund[r].amount > 0
    BY <1>0, <2>1, <2>2 DEF Marks, Writes, RowAgrees
  <2>4. ~(SumOf(Ended) >= Payable)
    BY <1>0, <2>2, EndedIsHeld DEF IInv, RefundsAgree, Payable
  <2> HIDE DEF r
  <2>5. QED
    BY <1>0, <2>1, <2>3, <2>4, LeavesCareful, RowWritten
<1>9. QED
  BY <1>2, <1>3, <1>4, <1>5, <1>6, <1>7, <1>8 DEF Works

LEMMA AgreeStep ==
  ASSUME IInv, RefundsAgree, OneRequest, [Next /\ NoneRolledBack]_vars
  PROVE  RefundsAgree'
<1>1. ASSUME UNCHANGED <<refund, wx, task>>, order = "refunded" => order' = "refunded" PROVE RefundsAgree'
  <2>1. Held' = Held /\ SumOf(Ended)' = SumOf(Ended) /\ Payable' = Payable
    BY <1>1 DEF Held, SumOf, Ended, Payable
  <2>2. \A v \in Workers : Careful(task[v])'
    BY <1>1, <2>1 DEF RefundsAgree, Careful, Declined, Pending
  <2>3. QED
    BY <1>1, <2>2, RowsRest
<1>2. CASE Fulfil
  BY <1>1, <1>2 DEF Fulfil
<1>3. CASE Crash
  <2>1. UNCHANGED <<refund, wx, order>> /\ \A v \in Workers : task'[v].pc = "idle"
    BY <1>3, IdleTask DEF Crash, dbVars
  <2>2. \A v \in Workers : Careful(task[v])'
    BY <2>1 DEF Careful, Declined, Pending
  <2>3. QED
    BY <2>1, <2>2, RowsRest
<1>4. ASSUME NEW r \in Refunds, Apply(r) PROVE RefundsAgree'
  <2>1. PICK amount \in Awards \cup {Goods} :
          Inserts(r, Row("pending", IF order = "paid" THEN "pre-delivery" ELSE "after-sale", amount, order, FALSE))
    BY <1>4 DEF Apply, Inserts
  <2>2. refund[r].status = "none" /\ order # "refunded" /\ UNCHANGED <<wx, task>> /\ TypeInv
    BY <1>4 DEF Apply, Free, IInv
  <2>3. amount > 0
    BY <2>1
  <2>4. Writes(r) /\ refund'[r].status = "pending" /\ refund'[r].amount > 0
    BY <2>1, <2>2, <2>3 DEF Inserts, Writes, Row, TypeInv, TypeOK
  <2>5. r \notin Held
    BY <2>2 DEF RefundsAgree, RowsAgree, RowAgrees, Held
  <2>6. SumOf(Ended)' <= SumOf(Ended) /\ SumOf(Ended)' \in Nat /\ Held' = Held
    BY <2>2, <2>4, NothingEnds DEF Writes
  <2>7. SumOf(Ended) \in Nat /\ Payable \in Nat /\ Payable' = Payable
    BY EndedIsHeld DEF IInv, RefundsAgree, Payable
  <2>8. ASSUME NEW v \in Workers PROVE Careful(task[v])'
    <3>1. Careful(task[v]) /\ (task[v].pc \notin {"idle", "unshipped"} => task[v].r \in Refunds \ {r})
      BY <2>2 DEF RefundsAgree, Careful, TypeInv, Busy
    <3>2. task[v].pc \notin {"idle", "unshipped"} => refund'[task[v].r] = refund[task[v].r]
      BY <2>4, <3>1 DEF Writes
    <3>3. SumOf(Ended) < Payable => SumOf(Ended)' < Payable'
      BY <2>6, <2>7
    <3>4. task'[v] = task[v]
      BY <2>2
    <3>5. QED
      BY <2>6, <3>1, <3>2, <3>3, <3>4 DEF Careful, Declined, Pending
  <2>9. QED
    BY <2>2, <2>4, <2>5, <2>8, RowWritten
<1>5. ASSUME NEW w \in Workers, Works(w) PROVE RefundsAgree'
  BY <1>5, AgreeClaim, AgreeCall, AgreeFinish, AgreeWorks
<1>6. ASSUME NEW w \in Workers, FinishAborts(w) PROVE RefundsAgree'
  BY <1>1, <1>6 DEF NoneRolledBack, vars
<1>7. ASSUME NEW w \in Workers, ClawbackAborts(w) PROVE RefundsAgree'
  <2> DEFINE t == task[w]
  <2>0. /\ w \in DOMAIN task /\ TypeInv /\ t \in TaskSet /\ t.pc = "clawback"
        /\ refund[t.r].status = "refunded" /\ UNCHANGED <<refund, wx, order>>
    <3>1. t.pc = "clawback" /\ TypeInv
      BY <1>7 DEF ClawbackAborts, At, IInv
    <3>2. QED
      BY <1>7, <3>1, AtWork DEF ClawbackAborts, TypeInv, TypeOK, RefundsAgree, Careful
  <2>1. CASE Leave(w)
    BY <2>0, <2>1, LeavesCareful, RowsRest
  <2>2. CASE task' = [task EXCEPT ![w].pc = "answered", ![w].answer = "unknown"]
    <3>1. task'[w].pc = "answered" /\ task'[w].answer = "unknown" /\ task'[w].r = t.r
      BY <2>0, <2>2 DEF TaskSet
    <3>2. Careful(task[w])'
      BY <2>0, <3>1 DEF Careful, Declined, Pending
    <3>3. QED
      BY <2>0, <3>2, OneCareful, RowsRest
  <2>3. QED
    BY <1>7, <2>1, <2>2 DEF ClawbackAborts
<1>8. CASE UNCHANGED vars
  BY <1>1, <1>8 DEF vars
<1>9. QED
  BY <1>2, <1>3, <1>4, <1>5, <1>6, <1>7, <1>8, AgreeStarts, AgreeSettles DEF Next

\* Refunds that together return all that was paid end the order, when one
\* request at a time works on them and no settlement is rolled back; a crash
\* may come between any two steps (finishRefund, refundPriceCeiling).
THEOREM AllPaidBackEnds ==
  OneRequest /\ Unbroken => []AllPaidBackEndsOrder
<1>1. Init => RefundsAgree
  <2> SUFFICES ASSUME Init PROVE RefundsAgree
    OBVIOUS
  <2>1. Ended = {} /\ Held = {}
    BY DEF Init, Ended, Held, NoRow
  <2>2. SumOf(Ended) = 0 /\ SumFunctionOnSet(Amounts, Held) = 0
    BY <2>1, SumEmpty DEF SumOf
  <2>3. Payable \in Nat /\ Payable > 0
    BY DEF Payable
  <2>4. TakenWithinPaid /\ EndsOrder
    BY <2>2, <2>3 DEF TakenWithinPaid, EndsOrder
  <2>5. RowsAgree
    BY <2>1 DEF Init, RowsAgree, RowAgrees, NoRow
  <2>6. \A w \in Workers : Careful(task[w])
    BY DEF Init, Careful, Declined, Pending, Idle
  <2>7. QED
    BY <2>4, <2>5, <2>6 DEF RefundsAgree
<1>2. RefundsAgree => AllPaidBackEndsOrder
  BY DEF RefundsAgree, EndsOrder, Ended, AllPaidBackEndsOrder
<1>3. ASSUME OneRequest
      PROVE  Unbroken => []AllPaidBackEndsOrder
  <2>1. IInv /\ RefundsAgree /\ [Next /\ NoneRolledBack]_vars => RefundsAgree'
    BY <1>3, AgreeStep
  <2>2. [Next /\ NoneRolledBack]_vars => [Next]_vars
    OBVIOUS
  <2>3. QED
    BY <1>1, <1>2, <2>1, <2>2, Inductive, PTL DEF Unbroken, Safety
<1>4. QED
  BY <1>3
=============================================================================
