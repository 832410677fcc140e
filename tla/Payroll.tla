-------------------------------- MODULE Payroll --------------------------------
(***************************************************************************)
(* The pay of one courier or building manager: commissions recorded when   *)
(* orders are delivered, adjustments recorded when they are refunded, and  *)
(* the monthly bill (BmBill), which is written whenever a clerk opens the  *)
(* settlement list of the month, and then confirmed and paid.  The base    *)
(* salary, which is read from the campus, is left out.                     *)
(***************************************************************************)
EXTENDS Integers, FiniteSets, FiniteSetsExt

CONSTANTS
  Jobs,        \* orders of this member of staff
  Months,      \* the months looked at
  Listers,     \* clerks who open the settlement list at once
  Fee          \* the commission of one order, in halves that can be refunded

ASSUME FeeAssumption == Fee \in Nat \ {0}
ASSUME JobsAssumption == IsFiniteSet(Jobs)
ASSUME MonthsAssumption == Months \subseteq Nat /\ 0 \notin Months /\ Months # {}

VARIABLES
  month,       \* the current month
  earned,      \* Commission of kind 'commission': its month, 0 if there is none
  settled,     \* commissions of status 'settled'
  clawed,      \* Commission of kind 'adjustment': amount taken back and month
  bill,        \* BmBill
  payout,      \* what was paid for each month
  lister       \* what each clerk's list has read

payVars == <<month, earned, settled, clawed, bill, payout, lister>>

Nothing == [plus |-> 0, minus |-> 0]
NoBill == [status |-> "none", plus |-> 0, minus |-> 0]
Closed == [month |-> 0, exists |-> FALSE, plus |-> 0, minus |-> 0]

PayTypeOK ==
  /\ month \in Months
  /\ earned \in [Jobs -> Months \cup {0}]
  /\ settled \subseteq Jobs
  /\ clawed \in [Jobs -> [amount : 0..Fee, month : Months \cup {0}]]
  /\ bill \in [Months -> [status : {"none", "pending-review", "confirmed", "paid"}, plus : Nat, minus : Nat]]
  /\ payout \in [Months -> [plus : Nat, minus : Nat]]
  /\ lister \in [Listers -> [month : Months \cup {0}, exists : BOOLEAN, plus : Nat, minus : Nat]]

PayInit ==
  /\ month = Min(Months)
  /\ earned = [j \in Jobs |-> 0]
  /\ settled = {}
  /\ clawed = [j \in Jobs |-> [amount |-> 0, month |-> 0]]
  /\ bill = [m \in Months |-> NoBill]
  /\ payout = [m \in Months |-> Nothing]
  /\ lister = [c \in Listers |-> Closed]

\* recordForDelivered: one row for an order and a member of staff.
Deliver(j) ==
  /\ earned[j] = 0
  /\ earned' = [earned EXCEPT ![j] = month]
  /\ UNCHANGED <<month, settled, clawed, bill, payout, lister>>

\* refundAdjust: the one adjustment of the order becomes what all refunds so
\* far come to, and moves to the current month.
Refund(j) ==
  /\ earned[j] # 0
  /\ \E amount \in clawed[j].amount + 1..Fee :
       clawed' = [clawed EXCEPT ![j] = [amount |-> amount, month |-> month]]
  /\ UNCHANGED <<month, earned, settled, bill, payout, lister>>

NextMonth ==
  /\ month + 1 \in Months /\ month' = month + 1
  /\ UNCHANGED <<earned, settled, clawed, bill, payout, lister>>

\* monthly: the rows of the month, those taken back apart.
InMonthOfAny(j, m) == earned[j] # 0
InMonth(j, m) == earned[j] = m
Earnings(m) == Fee * Cardinality({j \in Jobs : InMonth(j, m)})
TakenBack(m) == SumFunctionOnSet([j \in Jobs |-> clawed[j].amount], {j \in Jobs : clawed[j].month = m})

\* settlements: an earlier month without any entry gets no bill.
ListRead(c, m) ==
  /\ lister[c] = Closed /\ m <= month
  /\ m = month \/ bill[m].status # "none" \/ Earnings(m) # 0 \/ TakenBack(m) # 0
  /\ bill[m].status \in {"none", "pending-review"}
  /\ lister' = [lister EXCEPT ![c] = [month |-> m, exists |-> bill[m].status # "none",
                                      plus |-> Earnings(m), minus |-> TakenBack(m)]]
  /\ UNCHANGED <<month, earned, settled, clawed, bill, payout>>

\* The bill is created, once per month, or updated by its id: nobody looks
\* whether it is still under review.
ListWrite(c) ==
  LET t == lister[c] IN
  /\ t # Closed
  /\ lister' = [lister EXCEPT ![c] = Closed]
  /\ bill' = IF t.exists THEN [bill EXCEPT ![t.month].plus = t.plus, ![t.month].minus = t.minus]
             ELSE IF bill[t.month].status # "none" THEN bill
             ELSE [bill EXCEPT ![t.month] = [status |-> "pending-review", plus |-> t.plus,
                                             minus |-> t.minus]]
  /\ UNCHANGED <<month, earned, settled, clawed, payout>>

ConfirmSettlement(m) ==
  /\ bill[m].status = "pending-review"
  /\ bill' = [bill EXCEPT ![m].status = "confirmed"]
  /\ UNCHANGED <<month, earned, settled, clawed, payout, lister>>

\* The conditional update lets one payment of a bill through.
PayableTwice(m) == bill[m].status \in {"confirmed", "paid"}
PayableBill(m) == bill[m].status = "confirmed"

\* paySettlement settles all commissions of the month that are pending now.
PaySettlement(m) ==
  /\ PayableBill(m)
  /\ bill' = [bill EXCEPT ![m].status = "paid"]
  /\ payout' = [payout EXCEPT ![m] = [plus |-> @.plus + bill[m].plus, minus |-> @.minus + bill[m].minus]]
  /\ settled' = settled \cup {j \in Jobs : earned[j] = m}
  /\ UNCHANGED <<month, earned, clawed, lister>>

PayNext ==
  \/ \E j \in Jobs : Deliver(j) \/ Refund(j)
  \/ NextMonth
  \/ \E c \in Listers : ListWrite(c) \/ \E m \in Months : ListRead(c, m)
  \/ \E m \in Months : ConfirmSettlement(m) \/ PaySettlement(m)

PaySpec == PayInit /\ [][PayNext]_payVars

-----------------------------------------------------------------------------
(* Properties *)

\* No commission is paid twice: what is paid for a month never exceeds what
\* was earned in it, although deliveries, lists, confirmations and payments of
\* several months overlap (settlements, paySettlement, recordForDelivered).
PaidWithinEarned ==
  \A m \in Months : payout[m].plus <= Fee * Cardinality({j \in Jobs : earned[j] = m})

\* The amounts of a confirmed or paid bill are locked
\* (admin.service.ts 7277: settlements).  A list that read the bill before the
\* confirmation rewrites them; no run checks it.
LockedBill ==
  [][\A m \in Months : bill[m].status \in {"confirmed", "paid"} =>
       bill'[m].plus = bill[m].plus /\ bill'[m].minus = bill[m].minus]_payVars

\* What is deducted for refunds never exceeds what the orders earned
\* (settlements).  A second refund of an order moves the whole of its
\* adjustment to the current month, although an earlier bill deducted the first
\* part of it; no run checks it.
DeductedWithinEarned ==
  SumFunctionOnSet([m \in Months |-> payout[m].minus], Months) <= Fee * Cardinality({j \in Jobs : earned[j] # 0})
=============================================================================
