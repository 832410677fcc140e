-------------------------- MODULE BackOffice_proofs --------------------------
(***************************************************************************)
(* Proofs about the seven modules about people, and about the module that  *)
(* MCBackOffice makes of them.  As in Goods_proofs, each invariant says    *)
(* what a request under way may still rely on.  Of permissions that is the *)
(* version under which a request began to read (Versions); of the menu     *)
(* tree a set of nodes that the root is outside of and no node leaves      *)
(* (Rooted); of payroll what of a month is not billed yet (Covered); of    *)
(* staff the vacancy that a clerk has seen (Vacancies, OneInTheWay); of    *)
(* organisations what the one operator has checked (Prepared, Housed); of  *)
(* messages who will still be looked at (WillBeBound, Tallies); of coupons *)
(* the total that a request has read (Reads).                              *)
(***************************************************************************)
EXTENDS MCBackOffice, Sums, TLAPS
-----------------------------------------------------------------------------
(* Payroll: commissions, bills and payments                                *)

\* What may be billed for a month: what was earned in it, which only grows.
Cap(m) == Fee * Cardinality({j \in Jobs : earned[j] = m})

\* A list holds what was earned when it was read, a bill what a list wrote, and
\* a month is paid once.
Covered == /\ \A c \in Listers : lister[c] # Closed => lister[c].month \in Months /\ lister[c].plus <= Cap(lister[c].month)
           /\ \A m \in Months : /\ bill[m].plus <= Cap(m)
                                /\ bill[m].status # "paid" => payout[m] = Nothing
                                /\ payout[m].plus <= Cap(m)

PayInv == PayTypeOK /\ Covered

BillRows == [status : {"none", "pending-review", "confirmed", "paid"}, plus : Nat, minus : Nat]
PayoutRows == [plus : Nat, minus : Nat]
ClawRows == [amount : 0..Fee, month : Months \cup {0}]
Lists == [month : Months \cup {0}, exists : BOOLEAN, plus : Nat, minus : Nat]

LEMMA FirstMonth == Min(Months) \in Months
<1> DEFINE R == {ss \in Nat \X Nat : ss[1] < ss[2]}
<1>1. IsWellFoundedOn(R, Nat)
  BY NatLessThanWellFounded DEF OpToRel
<1>2. PICK x \in Months : \A y \in Months : ~(<<y, x>> \in R)
  BY <1>1, WFMin, MonthsAssumption
<1>3. ASSUME NEW y \in Months PROVE x <= y
  <2>1. x \in Nat /\ y \in Nat
    BY MonthsAssumption
  <2>2. y < x => <<y, x>> \in R
    BY <2>1
  <2>3. QED
    BY <1>2, <2>1, <2>2
<1>4. QED
  BY <1>3 DEF Min

LEMMA CapIsNat ==
  ASSUME NEW m
  PROVE  Cap(m) \in Nat /\ Earnings(m) = Cap(m)
<1>1. IsFiniteSet({j \in Jobs : earned[j] = m})
  BY FS_Subset, JobsAssumption
<1>2. Cardinality({j \in Jobs : earned[j] = m}) \in Nat
  BY <1>1, FS_CardinalityType
<1>3. \A n \in Nat : Fee * n \in Nat
  BY FeeAssumption
<1>4. QED
  BY <1>1, <1>2, <1>3 DEF Cap, Earnings, InMonth

\* Nobody loses what was earned.
LEMMA CapGrows ==
  ASSUME NEW m \in Months, \A j \in Jobs : earned[j] = m => earned'[j] = m
  PROVE  Cap(m)' \in Nat /\ Cap(m) <= Cap(m)'
<1> DEFINE S == {j \in Jobs : earned[j] = m}
           T == {j \in Jobs : earned'[j] = m}
<1>1. S \subseteq T /\ IsFiniteSet(T)
  BY FS_Subset, JobsAssumption
<1>2. Cardinality(S) <= Cardinality(T) /\ Cardinality(S) \in Nat /\ Cardinality(T) \in Nat
  BY <1>1, FS_Subset, FS_CardinalityType
<1>3. \A a, b \in Nat : a <= b => Fee * a <= Fee * b /\ Fee * b \in Nat
  BY FeeAssumption
<1>4. QED
  BY <1>2, <1>3 DEF Cap

LEMMA PayRows ==
  ASSUME PayInv
  PROVE  /\ month \in Months /\ earned \in [Jobs -> Months \cup {0}] /\ settled \subseteq Jobs
         /\ clawed \in [Jobs -> ClawRows] /\ bill \in [Months -> BillRows]
         /\ payout \in [Months -> PayoutRows] /\ lister \in [Listers -> Lists]
BY DEF PayInv, PayTypeOK, BillRows, PayoutRows, ClawRows, Lists

LEMMA PayBegins == PayInit => PayInv
<1> SUFFICES ASSUME PayInit PROVE PayInv
  OBVIOUS
<1>1. Closed \in Lists /\ NoBill \in BillRows /\ Nothing \in PayoutRows /\ [amount |-> 0, month |-> 0] \in ClawRows
  BY FeeAssumption DEF Closed, Lists, NoBill, BillRows, Nothing, PayoutRows, ClawRows
<1>2. /\ month \in Months /\ earned = [j \in Jobs |-> 0] /\ settled = {}
      /\ clawed = [j \in Jobs |-> [amount |-> 0, month |-> 0]]
      /\ bill = [m \in Months |-> NoBill] /\ payout = [m \in Months |-> Nothing]
      /\ lister = [c \in Listers |-> Closed]
  BY FirstMonth DEF PayInit
<1>3. PayTypeOK
  BY <1>1, <1>2 DEF PayTypeOK, Lists, BillRows, PayoutRows, ClawRows
<1>4. \A m \in Months : 0 <= Cap(m)
  BY CapIsNat
<1>5. Covered
  BY <1>2, <1>4 DEF Covered, NoBill, Nothing
<1>6. QED
  BY <1>3, <1>5 DEF PayInv

LEMMA PayStep == PayInv /\ [PayNext]_payVars => PayInv'
<1> SUFFICES ASSUME PayInv, [PayNext]_payVars PROVE PayInv'
  OBVIOUS
<1>0. /\ month \in Months /\ earned \in [Jobs -> Months \cup {0}] /\ settled \subseteq Jobs
      /\ clawed \in [Jobs -> ClawRows] /\ bill \in [Months -> BillRows]
      /\ payout \in [Months -> PayoutRows] /\ lister \in [Listers -> Lists] /\ Covered
  BY PayRows DEF PayInv
\* Commissions, adjustments and months.
<1>1. ASSUME UNCHANGED <<bill, payout, lister, settled>>, month' \in Months,
             earned' \in [Jobs -> Months \cup {0}], clawed' \in [Jobs -> ClawRows],
             \A j \in Jobs : earned[j] # 0 => earned'[j] = earned[j]
      PROVE  PayInv'
  <2>1. \A m \in Months : Cap(m) \in Nat /\ Cap(m)' \in Nat /\ Cap(m) <= Cap(m)'
    BY <1>1, CapIsNat, CapGrows, MonthsAssumption
  <2>2. /\ \A m \in Months : bill[m].plus \in Nat /\ payout[m].plus \in Nat
        /\ \A c \in Listers : lister[c].plus \in Nat
    BY <1>0 DEF BillRows, PayoutRows, Lists
  <2>3. Covered'
    <3>1. ASSUME NEW c \in Listers, lister[c] # Closed, NEW m \in Months, m = lister[c].month
          PROVE  lister[c].plus <= Cap(m)'
      <4>1. lister[c].plus <= Cap(m)
        BY <1>0, <3>1 DEF Covered
      <4>2. lister[c].plus \in Nat /\ Cap(m) \in Nat /\ Cap(m)' \in Nat /\ Cap(m) <= Cap(m)'
        BY <2>1, <2>2
      <4>3. QED
        BY <4>1, <4>2
    <3>2. ASSUME NEW m \in Months
          PROVE  /\ bill[m].plus <= Cap(m)' /\ payout[m].plus <= Cap(m)'
                 /\ bill[m].status # "paid" => payout[m] = Nothing
      BY <1>0, <2>1, <2>2 DEF Covered
    <3>3. QED
      BY <1>0, <1>1, <3>1, <3>2 DEF Covered, Cap
  <2>4. QED
    BY <1>0, <1>1, <2>3 DEF PayInv, PayTypeOK, BillRows, PayoutRows, ClawRows, Lists
<1>2. CASE UNCHANGED payVars
  BY <1>0, <1>1, <1>2 DEF payVars
<1>3. ASSUME NEW j \in Jobs, Deliver(j) PROVE PayInv'
  BY <1>0, <1>1, <1>3 DEF Deliver
<1>4. ASSUME NEW j \in Jobs, Refund(j) PROVE PayInv'
  <2>1. PICK amount \in clawed[j].amount + 1..Fee :
          clawed' = [clawed EXCEPT ![j] = [amount |-> amount, month |-> month]]
    BY <1>4 DEF Refund
  <2>2. amount \in 0..Fee
    <3>1. clawed[j].amount \in 0..Fee
      BY <1>0 DEF ClawRows
    <3>2. QED
      BY <2>1, <3>1, FeeAssumption
  <2>3. [amount |-> amount, month |-> month] \in ClawRows
    BY <1>0, <2>2 DEF ClawRows
  <2>4. clawed' \in [Jobs -> ClawRows]
    BY <1>0, <2>1, <2>3
  <2>5. UNCHANGED <<month, earned, settled, bill, payout, lister>>
    BY <1>4 DEF Refund
  <2>6. QED
    BY <1>0, <1>1, <2>4, <2>5
<1>5. CASE NextMonth
  BY <1>0, <1>1, <1>5 DEF NextMonth
\* A list reads what was earned.
<1>6. ASSUME NEW c \in Listers, NEW m \in Months, ListRead(c, m) PROVE PayInv'
  <2> DEFINE t == [month |-> m, exists |-> bill[m].status # "none", plus |-> Earnings(m), minus |-> TakenBack(m)]
  <2>1. Earnings(m) \in Nat /\ Earnings(m) = Cap(m)
    BY CapIsNat
  <2>2. TakenBack(m) \in Nat
    <3>1. IsFiniteSet({j \in Jobs : clawed[j].month = m})
      BY FS_Subset, JobsAssumption
    <3>2. \A j \in {j \in Jobs : clawed[j].month = m} :
            [x \in Jobs |-> clawed[x].amount][j] \in Nat
      BY <1>0, FeeAssumption DEF ClawRows
    <3>3. QED
      BY <3>1, <3>2, SumType DEF TakenBack
  <2>3. t \in Lists /\ t.month = m /\ t.plus = Cap(m)
    BY <2>1, <2>2 DEF Lists
  <2>4. lister' = [lister EXCEPT ![c] = t] /\ UNCHANGED <<month, earned, settled, clawed, bill, payout>>
    BY <1>6 DEF ListRead
  <2> HIDE DEF t
  <2>5. /\ lister' \in [Listers -> Lists] /\ lister'[c] = t
        /\ \A d \in Listers \ {c} : lister'[d] = lister[d]
    BY <1>0, <2>3, <2>4
  <2>6. Cap(m) <= Cap(m)
    BY CapIsNat
  <2>7. Covered'
    <3>1. ASSUME NEW d \in Listers, lister'[d] # Closed
          PROVE  lister'[d].month \in Months /\ lister'[d].plus <= Cap(lister'[d].month)
      BY <1>0, <2>3, <2>5, <2>6, <3>1 DEF Covered
    <3>2. ASSUME NEW d \in Listers, lister'[d] # Closed
          PROVE  (lister[d].month \in Months /\ lister[d].plus <= Cap(lister[d].month))'
      <4>1. earned' = earned
        BY <2>4
      <4>2. QED
        BY <3>1, <3>2, <4>1 DEF Cap
    <3>3. ASSUME NEW n \in Months
          PROVE  (/\ bill[n].plus <= Cap(n)
                  /\ bill[n].status # "paid" => payout[n] = Nothing
                  /\ payout[n].plus <= Cap(n))'
      BY <1>0, <2>4 DEF Covered, Cap
    <3>4. QED
      BY <3>2, <3>3 DEF Covered
  <2>8. QED
    BY <1>0, <2>4, <2>5, <2>7 DEF PayInv, PayTypeOK, BillRows, PayoutRows, ClawRows, Lists
\* Bills: what they come to stays covered.
<1>7. ASSUME NEW m \in Months, NEW b \in BillRows, b.plus <= Cap(m), b.status # "paid" => payout'[m] = Nothing,
             bill' = [bill EXCEPT ![m] = b], payout' \in [Months -> PayoutRows],
             payout'[m].plus <= Cap(m), \A n \in Months \ {m} : payout'[n] = payout[n],
             settled' \subseteq Jobs, UNCHANGED <<month, earned, clawed>>,
             lister' \in [Listers -> Lists], \A c \in Listers : lister'[c] \in {lister[c], Closed}
      PROVE  PayInv'
  <2>1. bill' \in [Months -> BillRows] /\ bill'[m] = b /\ \A n \in Months \ {m} : bill'[n] = bill[n]
    BY <1>0, <1>7
  <2>2. Covered'
    <3>1. ASSUME NEW c \in Listers, lister'[c] # Closed
          PROVE  (lister[c].month \in Months /\ lister[c].plus <= Cap(lister[c].month))'
      <4>1. lister'[c] = lister[c] /\ earned' = earned
        BY <1>7, <3>1
      <4>2. QED
        BY <1>0, <3>1, <4>1 DEF Covered, Cap
    <3>2. ASSUME NEW n \in Months
          PROVE  (/\ bill[n].plus <= Cap(n)
                  /\ bill[n].status # "paid" => payout[n] = Nothing
                  /\ payout[n].plus <= Cap(n))'
      <4>1. Cap(n)' = Cap(n)
        BY <1>7 DEF Cap
      <4>2. CASE n = m
        BY <1>7, <2>1, <4>1, <4>2
      <4>3. CASE n # m
        BY <1>0, <1>7, <2>1, <4>1, <4>3 DEF Covered
      <4>4. QED
        BY <4>2, <4>3
    <3>3. QED
      BY <3>1, <3>2 DEF Covered
  <2>3. QED
    BY <1>0, <1>7, <2>1, <2>2 DEF PayInv, PayTypeOK, BillRows, PayoutRows, ClawRows, Lists
<1>8. ASSUME NEW c \in Listers, ListWrite(c) PROVE PayInv'
  <2> DEFINE t == lister[c]
             m == lister[c].month
  <2>1. /\ t \in Lists /\ m \in Months /\ t.plus <= Cap(m) /\ t.plus \in Nat /\ t.minus \in Nat
        /\ UNCHANGED <<month, earned, settled, clawed, payout>>
    BY <1>0, <1>8 DEF ListWrite, Covered, Lists
  <2>2. lister' \in [Listers -> Lists] /\ \A d \in Listers : lister'[d] \in {lister[d], Closed}
    <3>1. Closed \in Lists
      BY DEF Closed, Lists
    <3>2. QED
      BY <1>0, <1>8, <3>1 DEF ListWrite
  <2>3. /\ bill[m] \in BillRows /\ bill[m].plus <= Cap(m) /\ payout[m].plus <= Cap(m)
        /\ bill[m].status # "paid" => payout[m] = Nothing
    BY <1>0, <2>1 DEF Covered
  <2>4. CASE t.exists
    <3> DEFINE b == [bill[m] EXCEPT !.plus = t.plus, !.minus = t.minus]
    <3>1. b \in BillRows /\ b.plus = t.plus /\ b.status = bill[m].status
      BY <2>1, <2>3 DEF BillRows
    <3>2. bill' = [bill EXCEPT ![m] = b]
      BY <1>0, <1>8, <2>1, <2>4 DEF ListWrite
    <3> HIDE DEF b
    <3>3. QED
      BY <1>0, <1>7, <2>1, <2>2, <2>3, <3>1, <3>2
  <2>5. CASE ~t.exists /\ bill[m].status # "none"
    <3>1. bill' = [bill EXCEPT ![m] = bill[m]]
      BY <1>0, <1>8, <2>1, <2>5 DEF ListWrite
    <3>2. QED
      BY <1>0, <1>7, <2>1, <2>2, <2>3, <3>1
  <2>6. CASE ~t.exists /\ bill[m].status = "none"
    <3> DEFINE b == [status |-> "pending-review", plus |-> t.plus, minus |-> t.minus]
    <3>1. b \in BillRows /\ b.plus = t.plus /\ b.status = "pending-review"
      BY <2>1 DEF BillRows
    <3>2. bill' = [bill EXCEPT ![m] = b]
      BY <1>0, <1>8, <2>6 DEF ListWrite
    <3> HIDE DEF b
    <3>3. QED
      BY <1>0, <1>7, <2>1, <2>2, <2>3, <2>6, <3>1, <3>2
  <2>7. QED
    BY <2>4, <2>5, <2>6
<1>9. ASSUME NEW m \in Months, ConfirmSettlement(m) PROVE PayInv'
  <2> DEFINE b == [bill[m] EXCEPT !.status = "confirmed"]
  <2>1. b \in BillRows /\ b.plus = bill[m].plus /\ b.status = "confirmed" /\ bill' = [bill EXCEPT ![m] = b]
    BY <1>0, <1>9 DEF ConfirmSettlement, BillRows
  <2> HIDE DEF b
  <2>2. bill[m].plus <= Cap(m) /\ payout[m].plus <= Cap(m) /\ payout[m] = Nothing
    BY <1>0, <1>9 DEF ConfirmSettlement, Covered
  <2>3. UNCHANGED <<month, earned, settled, clawed, payout, lister>>
    BY <1>9 DEF ConfirmSettlement
  <2>4. QED
    BY <1>0, <1>7, <2>1, <2>2, <2>3
\* A bill is paid once, and with it nothing was paid for its month before.
<1>10. ASSUME NEW m \in Months, PaySettlement(m) PROVE PayInv'
  <2> DEFINE b == [bill[m] EXCEPT !.status = "paid"]
             paid == [plus |-> payout[m].plus + bill[m].plus, minus |-> payout[m].minus + bill[m].minus]
  <2>1. b \in BillRows /\ b.plus = bill[m].plus /\ b.status = "paid" /\ bill' = [bill EXCEPT ![m] = b]
    BY <1>0, <1>10 DEF PaySettlement, BillRows
  <2> HIDE DEF b
  <2>2. bill[m].plus <= Cap(m) /\ payout[m] = Nothing /\ bill[m].plus \in Nat /\ bill[m].minus \in Nat
    BY <1>0, <1>10 DEF PaySettlement, PayableBill, Covered, BillRows
  <2>3. payout' = [payout EXCEPT ![m] = paid]
    BY <1>0, <1>10 DEF PaySettlement
  <2>4. paid \in PayoutRows /\ paid.plus = bill[m].plus
    BY <2>2 DEF PayoutRows, Nothing
  <2> HIDE DEF paid
  <2>5. payout' \in [Months -> PayoutRows] /\ payout'[m] = paid /\ \A n \in Months \ {m} : payout'[n] = payout[n]
    BY <1>0, <2>3, <2>4
  <2>6. settled' \subseteq Jobs /\ UNCHANGED <<month, earned, clawed, lister>>
    BY <1>0, <1>10 DEF PaySettlement
  <2>7. QED
    BY <1>0, <1>7, <2>1, <2>2, <2>4, <2>5, <2>6
<1>11. QED
  BY <1>2, <1>3, <1>4, <1>5, <1>6, <1>8, <1>9, <1>10 DEF PayNext

\* No commission is paid twice, for any number of orders, months and clerks who
\* open the list of a month while it is confirmed and paid.
THEOREM CommissionsPaidOnce == PaySpec => []PaidWithinEarned
<1>1. PayInv => PaidWithinEarned
  BY DEF PayInv, Covered, Cap, PaidWithinEarned
<1>2. QED
  BY <1>1, PayBegins, PayStep, PTL DEF PaySpec

-----------------------------------------------------------------------------
(* AccessControl: the nodes below a node                                   *)

\* g collects them level by level.
Grows(g, m, N) == g = [n \in N |-> IF n = 0 THEN {m} ELSE g[n - 1] \cup Children(g[n - 1])]

LEMMA GrowsUnique ==
  ASSUME NEW m, NEW a \in Nat, NEW b \in Nat, NEW g, NEW h, Grows(g, m, 0..a), Grows(h, m, 0..b)
  PROVE  \A n \in 0..a \cap 0..b : g[n] = h[n]
<1> DEFINE S == {n \in Nat : n \in 0..a \cap 0..b => g[n] = h[n]}
<1>0. 0 \in 0..a /\ 0 \in 0..b
  OBVIOUS
<1>1. g[0] = {m} /\ \A n \in Nat : n + 1 \in 0..a => g[n + 1] = g[n] \cup Children(g[n])
  <2>1. \A n \in 0..a : g[n] = IF n = 0 THEN {m} ELSE g[n - 1] \cup Children(g[n - 1])
    BY DEF Grows
  <2>2. \A n \in Nat : n + 1 # 0 /\ (n + 1) - 1 = n
    OBVIOUS
  <2>3. QED
    BY <1>0, <2>1, <2>2
<1>2. h[0] = {m} /\ \A n \in Nat : n + 1 \in 0..b => h[n + 1] = h[n] \cup Children(h[n])
  <2>1. \A n \in 0..b : h[n] = IF n = 0 THEN {m} ELSE h[n - 1] \cup Children(h[n - 1])
    BY DEF Grows
  <2>2. \A n \in Nat : n + 1 # 0 /\ (n + 1) - 1 = n
    OBVIOUS
  <2>3. QED
    BY <1>0, <2>1, <2>2
<1>3. 0 \in S
  BY <1>1, <1>2
<1>4. ASSUME NEW n \in S PROVE n + 1 \in S
  <2>1. CASE n + 1 \in 0..a \cap 0..b
    <3>1. n \in 0..a \cap 0..b
      BY <2>1
    <3>2. g[n] = h[n]
      BY <3>1
    <3>3. n \in Nat /\ n + 1 \in Nat /\ n + 1 \in 0..a /\ n + 1 \in 0..b
      BY <2>1
    <3>4. g[n + 1] = h[n + 1]
      BY <1>1, <1>2, <3>2, <3>3
    <3>5. QED
      BY <3>3, <3>4
  <2>2. CASE n + 1 \notin 0..a \cap 0..b
    <3>1. n + 1 \in Nat
      OBVIOUS
    <3>2. QED
      BY <2>2, <3>1
  <2>3. QED
    BY <2>1, <2>2
<1> HIDE DEF S
<1>5. S = Nat
  <2>1. S \in SUBSET Nat
    BY DEF S
  <2>2. QED
    BY <1>3, <1>4, <2>1, Climb
<1>6. QED
  BY <1>5 DEF S

LEMMA GrowsExists == ASSUME NEW m PROVE \E g : Grows(g, m, Nat)
<1> DEFINE N == {n \in Nat : \E g : Grows(g, m, 0..n)}
<1>1. 0 \in N
  <2>1. Grows([n \in 0..0 |-> {m}], m, 0..0)
    BY DEF Grows
  <2>2. QED
    BY <2>1
<1>2. ASSUME NEW n \in N PROVE n + 1 \in N
  <2>1. PICK g : Grows(g, m, 0..n)
    OBVIOUS
  <2>a. 0 \in 0..n
    OBVIOUS
  <2> DEFINE h == [i \in 0..(n + 1) |-> IF i = n + 1 THEN g[n] \cup Children(g[n]) ELSE g[i]]
  <2>2. g[0] = {m} /\ \A i \in Nat : i + 1 \in 0..n => g[i + 1] = g[i] \cup Children(g[i])
    <3>1. \A i \in 0..n : g[i] = IF i = 0 THEN {m} ELSE g[i - 1] \cup Children(g[i - 1])
      BY <2>1 DEF Grows
    <3>2. \A i \in Nat : i + 1 # 0 /\ (i + 1) - 1 = i
      OBVIOUS
    <3>3. QED
      BY <2>a, <3>1, <3>2
  <2>3. ASSUME NEW i \in 0..(n + 1)
        PROVE  h[i] = IF i = 0 THEN {m} ELSE h[i - 1] \cup Children(h[i - 1])
    <3>1. CASE i = 0
      BY <2>2, <3>1
    <3>2. CASE i # 0
      <4>1. i - 1 \in 0..n /\ i - 1 \in 0..(n + 1) /\ i - 1 # n + 1 /\ i - 1 \in Nat /\ (i - 1) + 1 = i
        BY <3>2
      <4>2. h[i - 1] = g[i - 1]
        BY <4>1
      <4>3. CASE i = n + 1
        BY <3>2, <4>1, <4>2, <4>3
      <4>4. CASE i # n + 1
        <5>1. i \in 0..n
          BY <4>4
        <5>2. g[i] = g[i - 1] \cup Children(g[i - 1])
          BY <2>2, <4>1, <5>1
        <5>3. h[i] = g[i]
          BY <4>4
        <5> HIDE DEF h
        <5>4. QED
          BY <3>2, <4>2, <5>2, <5>3
      <4>5. QED
        BY <4>3, <4>4
    <3>3. QED
      BY <3>1, <3>2
  <2>4. h = [i \in 0..(n + 1) |-> h[i]]
    OBVIOUS
  <2> HIDE DEF h
  <2>5. Grows(h, m, 0..(n + 1))
    BY <2>3, <2>4 DEF Grows
  <2>6. QED
    BY <2>5
<1> HIDE DEF N
<1>3. N = Nat
  <2>1. N \in SUBSET Nat
    BY DEF N
  <2>2. QED
    BY <1>1, <1>2, <2>1, Climb
<1> DEFINE up(n) == CHOOSE g : Grows(g, m, 0..n)
           all == [n \in Nat |-> up(n)[n]]
<1>4. \A n \in Nat : Grows(up(n), m, 0..n)
  BY <1>3 DEF N
<1> HIDE DEF up
<1>5. ASSUME NEW n \in Nat PROVE all[n] = IF n = 0 THEN {m} ELSE all[n - 1] \cup Children(all[n - 1])
  <2>1. CASE n = 0
    <3>1. Grows(up(0), m, 0..0) /\ 0 \in 0..0
      BY <1>4
    <3>2. up(0)[0] = {m}
      BY <3>1 DEF Grows
    <3>3. QED
      BY <2>1, <3>2
  <2>2. CASE n # 0
    <3>1. n - 1 \in Nat /\ n - 1 \in 0..n /\ n - 1 \in 0..(n - 1) /\ (n - 1) + 1 = n
      BY <2>2
    <3>2. Grows(up(n), m, 0..n) /\ Grows(up(n - 1), m, 0..(n - 1))
      BY <1>4, <3>1
    <3>3. up(n)[n - 1] = up(n - 1)[n - 1]
      BY <3>1, <3>2, GrowsUnique
    <3>4. up(n)[n] = up(n)[n - 1] \cup Children(up(n)[n - 1])
      <4>1. 0 \in 0..n /\ n \in 0..n
        OBVIOUS
      <4>2. \A k \in 0..n : up(n)[k] = IF k = 0 THEN {m} ELSE up(n)[k - 1] \cup Children(up(n)[k - 1])
        BY <3>2 DEF Grows
      <4>3. QED
        BY <2>2, <4>1, <4>2
    <3>5. QED
      BY <2>2, <3>1, <3>3, <3>4
  <2>3. QED
    BY <2>1, <2>2
<1>6. all = [n \in Nat |-> all[n]]
  OBVIOUS
<1> HIDE DEF all
<1>7. Grows(all, m, Nat)
  BY <1>5, <1>6 DEF Grows
<1>8. QED
  BY <1>7

\* Below(m) is the least set that holds m and the children of its nodes: as
\* many levels as there are nodes are enough.
LEMMA BelowClosed ==
  ASSUME NEW m \in Menus
  PROVE  /\ m \in Below(m) /\ Below(m) \subseteq Menus /\ Children(Below(m)) \subseteq Below(m)
         /\ \A C : m \in C /\ Children(C) \subseteq C => Below(m) \subseteq C
<1> DEFINE g == CHOOSE g : Grows(g, m, Nat)
<1>1. Below(m) = g[Cardinality(Menus)]
  BY DEF Below, Grows
<1>2. Grows(g, m, Nat)
  BY GrowsExists
<1> HIDE DEF g
<1>3. g[0] = {m} /\ \A n \in Nat : g[n + 1] = g[n] \cup Children(g[n])
  <2>1. \A n \in Nat : g[n] = IF n = 0 THEN {m} ELSE g[n - 1] \cup Children(g[n - 1])
    BY <1>2 DEF Grows
  <2>2. \A n \in Nat : n + 1 \in Nat /\ n + 1 # 0 /\ (n + 1) - 1 = n
    OBVIOUS
  <2>3. QED
    BY <2>1, <2>2
<1>4. Cardinality(Menus) \in Nat
  BY MenusAssumption, FS_CardinalityType
<1>5. ASSUME NEW C, m \in C, Children(C) \subseteq C PROVE \A n \in Nat : g[n] \subseteq C
  <2> DEFINE S == {n \in Nat : g[n] \subseteq C}
  <2>1. 0 \in S
    BY <1>3, <1>5
  <2>2. ASSUME NEW n \in S PROVE n + 1 \in S
    <3>1. Children(g[n]) \subseteq Children(C)
      BY DEF Children
    <3>2. QED
      BY <1>3, <1>5, <3>1
  <2> HIDE DEF S
  <2>3. S = Nat
    <3>1. S \in SUBSET Nat
      BY DEF S
    <3>2. QED
      BY <2>1, <2>2, <3>1, Climb
  <2>4. QED
    BY <2>3 DEF S
<1>6. \A n \in Nat : g[n] \subseteq Menus
  <2>1. Children(Menus) \subseteq Menus
    BY DEF Children
  <2>2. QED
    BY <1>5, <2>1
<1>7. \A n \in Nat : m \in g[n]
  <2> DEFINE S == {n \in Nat : m \in g[n]}
  <2>1. 0 \in S /\ \A n \in S : n + 1 \in S
    BY <1>3
  <2> HIDE DEF S
  <2>2. S = Nat
    <3>1. S \in SUBSET Nat
      BY DEF S
    <3>2. QED
      BY <2>1, <3>1, Climb
  <2>3. QED
    BY <2>2 DEF S
\* A level that adds nothing is the last, and every other one adds a node.
<1>8. \A n \in Nat : g[n + 1] = g[n] \/ Cardinality(g[n]) >= n + 1
  <2> DEFINE S == {n \in Nat : g[n + 1] = g[n] \/ Cardinality(g[n]) >= n + 1}
  <2>1. 0 \in S
    <3>1. Cardinality(g[0]) = 1
      BY <1>3, FS_Singleton
    <3>2. QED
      BY <3>1
  <2>2. ASSUME NEW n \in S PROVE n + 1 \in S
    <3>0. g[(n + 1) + 1] = g[n + 1] \cup Children(g[n + 1])
      BY <1>3
    <3>a. n + 1 \in Nat
      OBVIOUS
    <3>1. CASE g[n + 1] = g[n]
      <4>1. g[(n + 1) + 1] = g[n + 1]
        BY <1>3, <3>0, <3>1
      <4>2. QED
        BY <3>a, <4>1
    <3>2. CASE g[n + 1] # g[n]
      <4>1. Cardinality(g[n]) >= n + 1
        BY <3>2
      <4>2. IsFiniteSet(g[n + 1]) /\ g[n] \subseteq g[n + 1]
        BY <1>3, <1>6, MenusAssumption, FS_Subset
      <4>3. /\ Cardinality(g[n]) <= Cardinality(g[n + 1]) /\ Cardinality(g[n]) # Cardinality(g[n + 1])
            /\ IsFiniteSet(g[n])
        BY <3>2, <4>2, FS_Subset
      <4>4. Cardinality(g[n]) \in Nat /\ Cardinality(g[n + 1]) \in Nat
        BY <4>2, <4>3, FS_CardinalityType
      <4>5. Cardinality(g[n + 1]) >= (n + 1) + 1
        BY <4>1, <4>3, <4>4
      <4>6. QED
        BY <4>5
    <3>3. QED
      BY <3>1, <3>2
  <2> HIDE DEF S
  <2>3. S = Nat
    <3>1. S \in SUBSET Nat
      BY DEF S
    <3>2. QED
      BY <2>1, <2>2, <3>1, Climb
  <2>4. QED
    BY <2>3 DEF S
<1> DEFINE N == Cardinality(Menus)
<1>9. g[N + 1] = g[N]
  <2>1. Cardinality(g[N]) <= N /\ Cardinality(g[N]) \in Nat
    BY <1>4, <1>6, MenusAssumption, FS_Subset, FS_CardinalityType
  <2>2. QED
    BY <1>4, <1>8, <2>1
<1>10. Children(g[N]) \subseteq g[N]
  BY <1>3, <1>4, <1>9
<1>11. QED
  BY <1>1, <1>4, <1>5, <1>6, <1>7, <1>10

-----------------------------------------------------------------------------
(* AccessControl: the permission cache                                     *)

AccountRows == [status : {"active", "disabled", "absent"}, sv : Nat, campus : Campuses \cup {"none"},
                reach : Reaches]
RoleRows == [status : {"active", "disabled", "absent"}, menus : SUBSET Menus]
MenuRows == [parent : Menus \cup {"root", "gone"}, perm : Perms]
CacheRows == [by : Accounts, sv : Nat, version : 0..MaxVersion, campus : Campuses \cup {"none"},
              ctx : Contexts, reach : Reaches]
RequestRows == [pc : {"idle", "loaded", "grants", "menus", "decided", "select", "delete"},
                by : Accounts \cup {"none"}, sv : Nat, campus : Campuses \cup {"none"},
                version : 0..MaxVersion, grant : Grants, active : BOOLEAN, ctx : Contexts,
                reach : Reaches, tree : SUBSET Menus]

\* A request that has loaded its account is of one, and the role it found
\* active was one.
Aimed == \A q \in Requests : /\ request[q].pc \in {"loaded", "grants", "menus", "decided", "select"}
                                => request[q].by \in Accounts
                             /\ request[q].pc = "menus" /\ request[q].active
                                => request[q].grant.role \in Roles

\* Nothing is newer than the version, and what was read under the version of
\* now is what stands now.
Versions ==
  /\ \A e \in cache : e.version <= rbacVersion
  /\ RightsTrue
  /\ \A q \in Requests :
       /\ request[q].pc \in {"grants", "menus"} => request[q].version <= rbacVersion
       /\ request[q].pc = "menus" /\ request[q].version = rbacVersion
          => /\ request[q].grant = grant[request[q].by]
             /\ request[q].active = Active(grant[request[q].by].role)

\* What was loaded with the session of now is the reach of now.
Loaded(sv, by, x) == sv <= account[by].sv /\ (sv = account[by].sv => x = account[by].reach)
Cached(e) == /\ e.sv <= account[e.by].sv
             /\ e.sv = account[e.by].sv => InReach(e.reach, account[e.by].reach, e.campus)
\* So for a new entry, and for what a request carries on.
Fresh(e) == e.by \in Accounts /\ e.sv \in Nat /\ Cached(e)
Onward(r) == r.pc \in {"loaded", "grants", "menus"} => r.by \in Accounts /\ r.sv \in Nat /\ Loaded(r.sv, r.by, r.reach)
Sessions ==
  /\ \A e \in cache : Cached(e)
  /\ \A q \in Requests :
       request[q].pc \in {"loaded", "grants", "menus"} => Loaded(request[q].sv, request[q].by, request[q].reach)

AccessInv == AccessTypeOK /\ Aimed /\ Versions /\ Sessions

LEMMA AccessTyped ==
  AccessTypeOK <=> /\ rbacVersion \in 0..MaxVersion /\ account \in [Accounts -> AccountRows]
                   /\ grant \in [Accounts -> Grants] /\ role \in [Roles -> RoleRows]
                   /\ menu \in [Menus -> MenuRows] /\ company \in [Campuses -> Companies \cup {NoCompany}]
                   /\ cache \subseteq CacheRows
                   /\ request \in [Requests -> RequestRows]
BY DEF AccessTypeOK, AccountRows, RoleRows, MenuRows, CacheRows, RequestRows

LEMMA AccessTypedNext ==
  AccessTypeOK' <=> /\ rbacVersion' \in 0..MaxVersion /\ account' \in [Accounts -> AccountRows]
                    /\ grant' \in [Accounts -> Grants] /\ role' \in [Roles -> RoleRows]
                    /\ menu' \in [Menus -> MenuRows] /\ company' \in [Campuses -> Companies \cup {NoCompany}]
                    /\ cache' \subseteq CacheRows
                    /\ request' \in [Requests -> RequestRows]
BY DEF AccessTypeOK, AccountRows, RoleRows, MenuRows, CacheRows, RequestRows

LEMMA NoContextIsOne ==
  NoContext \in Contexts /\ NoGrant \in Grants /\ NoReach \in Reaches /\ NoRequest \in RequestRows
<1>1. NoContext \in Contexts
  BY DEF NoContext, Context, Contexts
<1>2. NoGrant \in Grants
  BY DEF NoGrant, Grants
<1>3. 0 \in 0..MaxVersion
  BY BoundsAssumption
<1>4. NoReach \in Reaches
  BY DEF NoReach, Reach, Reaches
<1>5. QED
  BY <1>1, <1>2, <1>3, <1>4 DEF NoRequest, RequestRows

LEMMA GrantsApart ==
  ASSUME NEW g \in Grants
  PROVE  g.role \in Roles \cup {Super, NoRole} /\ g.at \subseteq Campuses \cup {"platform"}
BY DEF Grants, Scopes, NoGrant

LEMMA ContextIsOne ==
  ASSUME role \in [Roles -> RoleRows], menu \in [Menus -> MenuRows], NEW g \in Grants,
         NEW active \in BOOLEAN, active => g.role \in Roles, NEW c
  PROVE  ContextOf(g, active, c) \in Contexts
<1>1. g.at \ {"platform"} \subseteq Campuses
  BY GrantsApart
<1>2. g.role \in Roles => {menu[m].perm : m \in {x \in role[g.role].menus : Standing(x)}} \subseteq Perms
  <2>1. ASSUME g.role \in Roles PROVE role[g.role].menus \subseteq Menus
    BY <2>1 DEF RoleRows
  <2>2. \A m \in Menus : menu[m].perm \in Perms
    BY DEF MenuRows
  <2>3. QED
    BY <2>1, <2>2
<1>3. Context(TRUE, TRUE, {}, {}) \in Contexts /\ NoContext \in Contexts
  BY NoContextIsOne DEF Context, Contexts
<1>4. \A ps \in SUBSET Perms : Context(FALSE, "platform" \in g.at, ps, g.at \ {"platform"}) \in Contexts
  BY <1>1 DEF Context, Contexts
<1> DEFINE ps == IF g.at \cap {"platform", c} = {} THEN {}
                 ELSE {menu[m].perm : m \in {x \in role[g.role].menus : Standing(x)}}
<1>5. active => ps \in SUBSET Perms
  BY <1>2
<1> HIDE DEF ps
<1>6. active => Context(FALSE, "platform" \in g.at, ps, g.at \ {"platform"}) \in Contexts
  BY <1>4, <1>5
<1>7. CASE g.role = Super \/ ~active
  BY <1>3, <1>7 DEF ContextOf
<1>8. CASE g.role # Super /\ active
  <2>1. ContextOf(g, active, c) = Context(FALSE, "platform" \in g.at, ps, g.at \ {"platform"})
    BY <1>8 DEF ContextOf, ps
  <2>2. QED
    BY <1>6, <1>8, <2>1
<1>9. QED
  BY <1>7, <1>8

\* The level is one of three, and the organisation the row's or the campus's.
LEMMA ReachIsOne ==
  ASSUME NEW own \in Reaches, company \in [Campuses -> Companies \cup {NoCompany}],
         NEW platform, NEW c \in Campuses \cup {"none"}
  PROVE  ReachOf(own, platform, c) \in Reaches
<1>1. LevelOf(own, c) \in {"none", "platform", "org", "campus"} /\ own.org \in Companies \cup {NoCompany}
  BY DEF LevelOf, Reaches
<1>2. c # "none" => company[c] \in Companies \cup {NoCompany}
  OBVIOUS
<1>3. QED
  BY <1>1, <1>2 DEF ReachOf, Reach, Reaches

\* A request moves to a row like the others.
LEMMA RequestMoves ==
  ASSUME request \in [Requests -> RequestRows], NEW q \in Requests, NEW next \in RequestRows,
         request' = [request EXCEPT ![q] = next], Aimed,
         next.pc \in {"loaded", "grants", "menus", "decided", "select"} => next.by \in Accounts,
         next.pc = "menus" /\ next.active => next.grant.role \in Roles
  PROVE  request' \in [Requests -> RequestRows] /\ Aimed'
<1>1. \A p \in Requests : request'[p] = request[p] \/ request'[p] = next
  OBVIOUS
<1>2. QED
  BY <1>1 DEF Aimed

LEMMA AccessBegin == AccessInit => AccessTypeOK /\ Aimed /\ Versions /\ Sessions
<1> SUFFICES ASSUME AccessInit PROVE AccessTypeOK /\ Aimed /\ Versions /\ Sessions
  OBVIOUS
<1>1. 0 \in 0..MaxVersion
  BY BoundsAssumption
<1>2. Campuses # {}
  BY DEF AccessInit
<1>3. account \in [Accounts -> AccountRows]
  BY NoContextIsOne DEF AccessInit, AccountRows
<1>4. grant \in [Accounts -> Grants]
  <2>1. {"platform"} \in Scopes /\ Campuses \in Scopes
    <3>1. Campuses \in (SUBSET Campuses) \ {{}}
      BY <1>2
    <3>2. {"platform"} \in {{"platform"}}
      OBVIOUS
    <3> QED
      BY <3>1, <3>2 DEF Scopes
  <2>2. grant \in [Accounts -> [role : Roles \cup {Super}, at : {{"platform"}, Campuses}]]
    BY DEF AccessInit
  <2>3. QED
    BY <2>1, <2>2 DEF Grants
<1>5. /\ role \in [Roles -> RoleRows] /\ menu \in [Menus -> MenuRows]
      /\ company \in [Campuses -> Companies \cup {NoCompany}]
  BY DEF AccessInit, RoleRows, MenuRows
<1>6. request \in [Requests -> RequestRows] /\ \A q \in Requests : request[q] = NoRequest
  BY NoContextIsOne DEF AccessInit
<1>7. cache = {} /\ rbacVersion = 0
  BY DEF AccessInit
<1>8. AccessTypeOK
  BY <1>1, <1>3, <1>4, <1>5, <1>6, <1>7, AccessTyped
<1>9. NoRequest.pc = "idle"
  BY DEF NoRequest
<1>10. QED
  BY <1>6, <1>7, <1>8, <1>9 DEF Aimed, Versions, RightsTrue, Sessions

\* The reads of a request keep the types ...
LEMMA GuardedTypes ==
  ASSUME AccessTypeOK, Aimed, NEW q \in Requests, Guarded(q)
  PROVE  AccessTypeOK' /\ Aimed'
<1> DEFINE r == request[q]
<1>0. /\ rbacVersion \in 0..MaxVersion /\ account \in [Accounts -> AccountRows]
      /\ grant \in [Accounts -> Grants] /\ role \in [Roles -> RoleRows] /\ menu \in [Menus -> MenuRows]
      /\ company \in [Campuses -> Companies \cup {NoCompany}]
      /\ cache \subseteq CacheRows /\ request \in [Requests -> RequestRows] /\ r \in RequestRows
  BY AccessTyped
<1>a. NoRequest \in RequestRows /\ NoRequest.pc = "idle"
  BY NoContextIsOne DEF NoRequest
<1>b. ASSUME Step(q, NoRequest) \/ request' = [request EXCEPT ![q] = NoRequest]
      PROVE  request' \in [Requests -> RequestRows] /\ Aimed'
  <2>1. request' = [request EXCEPT ![q] = NoRequest]
    BY <1>b DEF Step
  <2>2. QED
    BY <1>0, <1>a, <2>1, RequestMoves
<1>d. ASSUME NEW next \in RequestRows, Step(q, next), cache' \subseteq CacheRows,
             next.pc \in {"loaded", "grants", "menus", "decided", "select"} => next.by \in Accounts,
             next.pc = "menus" /\ next.active => next.grant.role \in Roles
      PROVE  AccessTypeOK' /\ Aimed'
  <2>1. request' \in [Requests -> RequestRows] /\ Aimed'
    BY <1>0, <1>d, RequestMoves DEF Step
  <2>2. QED
    BY <1>0, <1>d, <2>1, AccessTypedNext DEF Step, stored
<1>e. ASSUME NEW ctx \in Contexts, NEW reach \in Reaches, r.by \in Accounts
      PROVE  /\ Decided(q, ctx, reach) \in RequestRows
             /\ Decided(q, ctx, reach).pc = "decided" /\ Decided(q, ctx, reach).by \in Accounts
  BY <1>0, <1>a, <1>e DEF Decided, NoRequest, RequestRows
<1>1. ASSUME NEW a \in Accounts, LoadAccount(q, a) PROVE AccessTypeOK' /\ Aimed'
  <2> DEFINE next == [NoRequest EXCEPT !.pc = "loaded", !.by = a, !.sv = account[a].sv,
                                       !.campus = account[a].campus, !.reach = account[a].reach]
  <2>1. account[a].sv \in Nat /\ account[a].campus \in Campuses \cup {"none"} /\ account[a].reach \in Reaches
    BY <1>0 DEF AccountRows
  <2>2. next \in RequestRows /\ next.pc = "loaded" /\ next.by \in Accounts
    BY <1>a, <2>1 DEF NoRequest, RequestRows
  <2>3. Step(q, next) /\ cache' = cache
    BY <1>1 DEF LoadAccount
  <2> HIDE DEF next
  <2>4. QED
    BY <1>0, <1>d, <2>2, <2>3
<1>2. CASE ReadVersion(q)
  <2>1. r.pc = "loaded" /\ r.by \in Accounts /\ cache' = cache
    BY <1>2 DEF ReadVersion, Aimed
  <2>2. ASSUME NEW e \in Hit(q), Step(q, Decided(q, e.ctx, e.reach)) PROVE AccessTypeOK' /\ Aimed'
    <3>1. e.ctx \in Contexts /\ e.reach \in Reaches
      BY <1>0 DEF Hit, CacheRows
    <3>2. QED
      BY <1>0, <1>d, <1>e, <2>1, <2>2, <3>1
  <2>3. CASE Step(q, [request[q] EXCEPT !.pc = "grants", !.version = rbacVersion])
    <3> DEFINE next == [r EXCEPT !.pc = "grants", !.version = rbacVersion]
    <3>1. next \in RequestRows /\ next.pc = "grants" /\ next.by = r.by
      BY <1>0 DEF RequestRows
    <3>2. Step(q, next)
      BY <2>3
    <3> HIDE DEF next
    <3>3. QED
      BY <1>0, <1>d, <2>1, <3>1, <3>2
  <2>4. QED
    BY <1>2, <2>2, <2>3 DEF ReadVersion
<1>3. CASE ReadGrants(q)
  <2>1. r.pc = "grants" /\ r.by \in Accounts /\ cache' = cache
    BY <1>3 DEF ReadGrants, Aimed
  <2> DEFINE g == grant[r.by]
             next == [r EXCEPT !.pc = "menus", !.grant = g, !.active = Active(g.role)]
  <2>2. g \in Grants
    BY <1>0, <2>1
  <2>3. Active(g.role) \in BOOLEAN /\ (Active(g.role) => g.role \in Roles)
    BY DEF Active
  <2> HIDE DEF g
  <2>4. next \in RequestRows /\ next.pc = "menus" /\ next.by = r.by /\ next.grant = g
        /\ next.active = Active(g.role)
    BY <1>0, <2>2, <2>3 DEF RequestRows
  <2>5. Step(q, next)
    BY <1>3 DEF ReadGrants, g
  <2> HIDE DEF next
  <2>6. QED
    BY <1>0, <1>d, <2>1, <2>3, <2>4, <2>5
<1>4. CASE ReadMenus(q)
  <2> DEFINE ctx == ContextOf(r.grant, r.active, r.campus)
             reach == ReachOf(r.reach, ctx.platform, r.campus)
             e == [by |-> r.by, sv |-> r.sv, version |-> KeyVersion(r), campus |-> r.campus, ctx |-> ctx,
                   reach |-> reach]
  <2>1. r.pc = "menus" /\ r.by \in Accounts /\ (r.active => r.grant.role \in Roles)
    BY <1>4 DEF ReadMenus, Aimed
  <2>2. r.grant \in Grants /\ r.active \in BOOLEAN /\ r.reach \in Reaches /\ r.campus \in Campuses \cup {"none"}
    BY <1>0 DEF RequestRows
  <2>3. ctx \in Contexts
    BY <1>0, <2>1, <2>2, ContextIsOne
  <2>3r. reach \in Reaches
    BY <1>0, <2>2, ReachIsOne
  <2>4. /\ cache' = {x \in cache : x.version = rbacVersion} \cup {e}
        /\ request' = [request EXCEPT ![q] = Decided(q, ctx, reach)] /\ UNCHANGED stored
    BY <1>4 DEF ReadMenus
  <2> HIDE DEF ctx, reach
  <2>5. e \in CacheRows
    BY <1>0, <2>1, <2>3, <2>3r DEF CacheRows, RequestRows, KeyVersion
  <2> HIDE DEF e
  <2>6. cache' \subseteq CacheRows
    BY <1>0, <2>4, <2>5
  <2>7. QED
    BY <1>d, <1>e, <2>1, <2>3, <2>3r, <2>4, <2>6 DEF Step
<1>5. CASE EndRequest(q)
  BY <1>0, <1>5, <1>a, <1>d DEF EndRequest
<1>6. ASSUME NEW c \in Campuses, SelectCampus(q, c) PROVE AccessTypeOK' /\ Aimed'
  <2> DEFINE next == [NoRequest EXCEPT !.pc = "select", !.by = r.by, !.campus = c]
  <2>1. next \in RequestRows /\ next.pc = "select" /\ next.by = r.by
    BY <1>0, NoContextIsOne DEF RequestRows, NoRequest
  <2>2. Step(q, next) /\ cache' = cache /\ r.by \in Accounts
    BY <1>6 DEF SelectCampus, Aimed
  <2> HIDE DEF next
  <2>3. QED
    BY <1>0, <1>d, <2>1, <2>2
<1>7. CASE SelectWrite(q)
  <2>1. request' \in [Requests -> RequestRows] /\ Aimed'
    BY <1>7, <1>b DEF SelectWrite
  <2>2. r.campus \in Campuses \cup {"none"}
    BY <1>0 DEF RequestRows
  <2>3. account' \in [Accounts -> AccountRows]
    <3>1. CASE r.by \in Live
      <4>1. r.by \in Accounts /\ account' = [account EXCEPT ![r.by].campus = r.campus]
        BY <1>7, <3>1 DEF SelectWrite, Live
      <4>2. [account[r.by] EXCEPT !.campus = r.campus] \in AccountRows
        BY <1>0, <2>2, <4>1 DEF AccountRows
      <4>3. QED
        BY <1>0, <4>1, <4>2
    <3>2. CASE r.by \notin Live
      BY <1>0, <1>7, <3>2 DEF SelectWrite
    <3>3. QED
      BY <3>1, <3>2
  <2>4. QED
    BY <1>0, <1>7, <2>1, <2>3, AccessTypedNext DEF SelectWrite
<1>8. ASSUME NEW m \in Menus, DeleteMenuRead(q, m) PROVE AccessTypeOK' /\ Aimed'
  <2> DEFINE next == [NoRequest EXCEPT !.pc = "delete", !.tree = Below(m)]
  <2>1. Below(m) \subseteq Menus
    BY BelowClosed
  <2>2. next \in RequestRows /\ next.pc = "delete"
    BY <1>a, <2>1 DEF NoRequest, RequestRows
  <2>3. Step(q, next) /\ cache' = cache
    BY <1>8 DEF DeleteMenuRead
  <2> HIDE DEF next
  <2>4. QED
    BY <1>0, <1>d, <2>2, <2>3
<1>9. CASE DeleteMenu(q)
  <2>1. request' \in [Requests -> RequestRows] /\ Aimed'
    BY <1>9, <1>b DEF DeleteMenu
  <2>2. \A m \in Menus : menu[m] \in MenuRows /\ [menu[m] EXCEPT !.parent = "gone"] \in MenuRows
    BY <1>0 DEF MenuRows
  <2>3. menu' \in [Menus -> MenuRows]
    BY <1>9, <2>2 DEF DeleteMenu
  <2>4. \A p \in Roles : [role[p] EXCEPT !.menus = @ \ r.tree] \in RoleRows
    BY <1>0 DEF RoleRows
  <2>5. role' \in [Roles -> RoleRows]
    BY <1>9, <2>4 DEF DeleteMenu
  <2>6. rbacVersion' \in 0..MaxVersion
    BY <1>0, <1>9, BoundsAssumption DEF DeleteMenu, Bump
  <2>7. QED
    BY <1>0, <1>9, <2>1, <2>3, <2>5, <2>6, AccessTypedNext DEF DeleteMenu
<1>10. QED
  BY <1>1, <1>2, <1>3, <1>4, <1>5, <1>6, <1>7, <1>8, <1>9 DEF Guarded

\* ... and so do the changes.
LEMMA ChangeTypes ==
  ASSUME AccessTypeOK, Aimed, Change
  PROVE  AccessTypeOK' /\ Aimed'
<1>0. /\ rbacVersion \in 0..MaxVersion /\ account \in [Accounts -> AccountRows]
      /\ grant \in [Accounts -> Grants] /\ role \in [Roles -> RoleRows] /\ menu \in [Menus -> MenuRows]
      /\ company \in [Campuses -> Companies \cup {NoCompany}]
      /\ cache \subseteq CacheRows /\ request \in [Requests -> RequestRows]
  BY AccessTyped
<1>a. ASSUME UNCHANGED <<company, cache, request>>, Bump \/ NoBump, account' \in [Accounts -> AccountRows],
             grant' \in [Accounts -> Grants], role' \in [Roles -> RoleRows], menu' \in [Menus -> MenuRows]
      PROVE  AccessTypeOK' /\ Aimed'
  <2>1. rbacVersion' \in 0..MaxVersion
    BY <1>0, <1>a, BoundsAssumption DEF Bump, NoBump
  <2>2. Aimed'
    BY <1>a DEF Aimed
  <2>3. QED
    BY <1>0, <1>a, <2>1, <2>2, AccessTypedNext
\* An account gets a grant and a campus it allows.
<1>b. ASSUME NEW a \in Accounts, NEW g \in Grants PROVE CampusFor(a, g) \subseteq Campuses \cup {"none"}
  <2>1. account[a].campus \in Campuses \cup {"none"} /\ g.at \ {"platform"} \subseteq Campuses
    BY <1>0, <1>b, GrantsApart DEF AccountRows
  <2>2. QED
    BY <2>1 DEF CampusFor
<1>d. ASSUME NEW a \in Accounts, NEW s \in {"active", "disabled", "absent"}, NEW c \in Campuses \cup {"none"},
             NEW reach \in Reaches, EndSessions(a, s, c, reach)
      PROVE  account' \in [Accounts -> AccountRows]
  <2>1. account[a].sv \in Nat
    BY <1>0, <1>d DEF AccountRows
  <2>2. [status |-> s, sv |-> account[a].sv + 1, campus |-> c, reach |-> reach] \in AccountRows
    BY <2>1 DEF AccountRows
  <2>3. QED
    BY <1>0, <1>d, <2>2 DEF EndSessions
<1>e. Grantable \subseteq Grants /\ GivenReaches \subseteq Reaches
  BY DEF Grantable, GivenReaches
<1>1. ASSUME NEW a \in Accounts, UpdateAccount(a) PROVE AccessTypeOK' /\ Aimed'
  <2>1. PICK g \in {grant[a]} \cup Grantable, s \in {"active", "disabled"}, reach \in GivenReaches :
          /\ grant' = [grant EXCEPT ![a] = g]
          /\ \E c \in IF g # grant[a] THEN CampusFor(a, g) ELSE {account[a].campus} :
               EndSessions(a, s, c, reach)
    BY <1>1 DEF UpdateAccount
  <2>2. g \in Grants
    BY <1>0, <1>e
  <2>3. PICK c \in IF g # grant[a] THEN CampusFor(a, g) ELSE {account[a].campus} : EndSessions(a, s, c, reach)
    BY <2>1
  <2>4. c \in Campuses \cup {"none"}
    <3>1. account[a].campus \in Campuses \cup {"none"}
      BY <1>0 DEF AccountRows
    <3>2. QED
      BY <1>b, <2>2, <2>3, <3>1
  <2>5. account' \in [Accounts -> AccountRows]
    BY <1>d, <1>e, <2>3, <2>4
  <2>6. grant' \in [Accounts -> Grants]
    BY <1>0, <2>1, <2>2
  <2>7. QED
    BY <1>0, <1>1, <1>a, <2>5, <2>6 DEF UpdateAccount
<1>2. ASSUME NEW a \in Accounts, CreateAccount(a) PROVE AccessTypeOK' /\ Aimed'
  <2>1. PICK g \in Grantable, reach \in GivenReaches :
          \E c \in IF g.at \cap Campuses = {} THEN {"none"} ELSE g.at \cap Campuses :
            grant' = [grant EXCEPT ![a] = g] /\ EndSessions(a, "active", c, reach)
    BY <1>2 DEF CreateAccount
  <2>2. PICK c \in Campuses \cup {"none"} :
            grant' = [grant EXCEPT ![a] = g] /\ EndSessions(a, "active", c, reach)
    BY <2>1
  <2>3. account' \in [Accounts -> AccountRows]
    BY <1>d, <1>e, <2>2
  <2>4. grant' \in [Accounts -> Grants]
    BY <1>0, <1>e, <2>2
  <2>5. QED
    BY <1>0, <1>2, <1>a, <2>3, <2>4 DEF CreateAccount
<1>3. ASSUME NEW a \in Accounts, DeleteAccount(a) PROVE AccessTypeOK' /\ Aimed'
  <2>1. [account[a] EXCEPT !.status = "absent"] \in AccountRows
    BY <1>0 DEF AccountRows
  <2>2. account' \in [Accounts -> AccountRows]
    BY <1>0, <1>3, <2>1 DEF DeleteAccount
  <2>3. grant' \in [Accounts -> Grants]
    BY <1>0, <1>3, NoContextIsOne DEF DeleteAccount
  <2>4. QED
    BY <1>0, <1>3, <1>a, <2>2, <2>3 DEF DeleteAccount
<1>4. ASSUME NEW a \in Accounts, NewPassword(a) PROVE AccessTypeOK' /\ Aimed'
  <2>1. [account[a] EXCEPT !.sv = @ + 1] \in AccountRows
    BY <1>0 DEF AccountRows
  <2>2. account' \in [Accounts -> AccountRows]
    BY <1>0, <1>4, <2>1 DEF NewPassword
  <2>3. QED
    BY <1>0, <1>4, <1>a, <2>2 DEF NewPassword
<1>f. ASSUME NEW s \in {"active", "disabled", "absent"}, NEW ms \in SUBSET Menus
      PROVE  [status |-> s, menus |-> ms] \in RoleRows
  BY DEF RoleRows
<1>5. ASSUME NEW r \in Roles, CreateRole(r) PROVE AccessTypeOK' /\ Aimed'
  <2>1. PICK ms \in SUBSET Menus : role' = [role EXCEPT ![r] = [status |-> "active", menus |-> ms]]
    BY <1>5 DEF CreateRole
  <2>2. role' \in [Roles -> RoleRows]
    BY <1>0, <1>f, <2>1
  <2>3. QED
    BY <1>0, <1>5, <1>a, <2>2 DEF CreateRole
<1>6. ASSUME NEW r \in Roles, UpdateRole(r) PROVE AccessTypeOK' /\ Aimed'
  <2>1. PICK s \in {"active", "disabled"}, ms \in SUBSET Menus :
          role' = [role EXCEPT ![r] = [status |-> s, menus |-> ms]]
    BY <1>6 DEF UpdateRole
  <2>2. role' \in [Roles -> RoleRows]
    BY <1>0, <1>f, <2>1
  <2>3. QED
    BY <1>0, <1>6, <1>a, <2>2 DEF UpdateRole, RoleBump
<1>7. ASSUME NEW r \in Roles, DeleteRole(r) PROVE AccessTypeOK' /\ Aimed'
  <2>1. role' \in [Roles -> RoleRows]
    BY <1>0, <1>7, <1>f DEF DeleteRole
  <2>2. QED
    BY <1>0, <1>7, <1>a, <2>1 DEF DeleteRole
<1>g. ASSUME NEW p \in Perms, NEW up \in Menus \cup {"root"}
      PROVE  [parent |-> up, perm |-> p] \in MenuRows
  BY DEF MenuRows
<1>8. ASSUME NEW m \in Menus, CreateMenu(m) PROVE AccessTypeOK' /\ Aimed'
  <2>1. PICK p \in Perms, up \in Menus \cup {"root"} : menu' = [menu EXCEPT ![m] = [parent |-> up, perm |-> p]]
    BY <1>8 DEF CreateMenu
  <2>2. menu' \in [Menus -> MenuRows]
    BY <1>0, <1>g, <2>1
  <2>3. QED
    BY <1>0, <1>8, <1>a, <2>2 DEF CreateMenu
<1>9. ASSUME NEW m \in Menus, UpdateMenu(m) PROVE AccessTypeOK' /\ Aimed'
  <2>1. menu[m].parent \in Menus \cup {"root"}
    BY <1>0, <1>9 DEF UpdateMenu, Standing, MenuRows
  <2>2. PICK p \in Perms, up \in Menus \cup {"root"} : menu' = [menu EXCEPT ![m] = [parent |-> up, perm |-> p]]
    BY <1>9, <2>1 DEF UpdateMenu
  <2>3. menu' \in [Menus -> MenuRows]
    BY <1>0, <1>g, <2>2
  <2>4. QED
    BY <1>0, <1>9, <1>a, <2>3 DEF UpdateMenu
<1>10. CASE SyncRegistry
  <2>1. role' \in [Roles -> RoleRows]
    BY <1>0, <1>10, <1>f DEF SyncRegistry
  <2>2. grant' \in [Accounts -> Grants]
    BY <1>0, <1>10, NoContextIsOne DEF SyncRegistry
  <2>3. QED
    BY <1>0, <1>10, <1>a, <2>1, <2>2 DEF SyncRegistry
<1>11. QED
  BY <1>1, <1>2, <1>3, <1>4, <1>5, <1>6, <1>7, <1>8, <1>9, <1>10 DEF Change

LEMMA AccessTypes ==
  ASSUME AccessTypeOK, Aimed, [AccessNext]_rbacVars
  PROVE  AccessTypeOK' /\ Aimed'
<1>0. /\ rbacVersion \in 0..MaxVersion /\ account \in [Accounts -> AccountRows]
      /\ grant \in [Accounts -> Grants] /\ role \in [Roles -> RoleRows] /\ menu \in [Menus -> MenuRows]
      /\ company \in [Campuses -> Companies \cup {NoCompany}]
      /\ cache \subseteq CacheRows /\ request \in [Requests -> RequestRows]
  BY AccessTyped
<1>1. CASE Forget
  BY <1>0, <1>1, AccessTypedNext DEF Forget, stored, Aimed
<1>2. ASSUME NEW a \in Accounts, Login(a) PROVE AccessTypeOK' /\ Aimed'
  <2>1. PICK c \in CampusFor(a, grant[a]), n \in IF FewSessions THEN 0..1 ELSE {0} :
          account' = [account EXCEPT ![a].campus = c, ![a].sv = @ + n]
    BY <1>2 DEF Login
  <2>2. c \in Campuses \cup {"none"}
    <3>1. account[a].campus \in Campuses \cup {"none"} /\ grant[a] \in Grants
      BY <1>0 DEF AccountRows
    <3>2. grant[a].at \subseteq Campuses \cup {"platform"}
      BY <3>1, GrantsApart
    <3>3. QED
      BY <3>1, <3>2 DEF CampusFor
  <2>3. n \in Nat
    OBVIOUS
  <2>4. [account[a] EXCEPT !.campus = c, !.sv = @ + n] \in AccountRows
    <3>1. account[a] \in AccountRows /\ account[a].sv + n \in Nat
      BY <1>0, <2>3 DEF AccountRows
    <3>2. QED
      BY <2>2, <3>1 DEF AccountRows
  <2>5. account' = [account EXCEPT ![a] = [account[a] EXCEPT !.campus = c, !.sv = @ + n]]
    BY <1>0, <2>1 DEF AccountRows
  <2>6. account' \in [Accounts -> AccountRows]
    BY <1>0, <2>4, <2>5
  <2>7. QED
    BY <1>0, <1>2, <2>6, AccessTypedNext DEF Login, Aimed
<1>3. ASSUME NEW c \in Campuses, NEW o \in Companies, TransferCampus(c, o) PROVE AccessTypeOK' /\ Aimed'
  BY <1>0, <1>3, AccessTypedNext DEF TransferCampus, Aimed
<1>4. CASE UNCHANGED rbacVars
  BY <1>0, <1>4, AccessTypedNext DEF rbacVars, Aimed
<1>5. QED
  BY <1>1, <1>2, <1>3, <1>4, ChangeTypes, GuardedTypes DEF AccessNext

LEMMA WorthStays ==
  ASSUME UNCHANGED <<grant, role, menu>>
  PROVE  /\ \A a, c : Effective(a, c)' = Effective(a, c)
         /\ \A r : Active(r)' = Active(r)
<1>1. \A r : Active(r)' = Active(r)
  BY DEF Active
<1>2. \A m : Standing(m)' = Standing(m)
  BY DEF Standing
<1>3. \A a, c : Effective(a, c)' = Effective(a, c)
  BY <1>1, <1>2 DEF Effective, ContextOf, Active
<1>4. QED
  BY <1>1, <1>3

\* Every change of what an account may do is a new version ...
LEMMA NewVersion ==
  ASSUME AccessTypeOK, Versions, Bump, cache' = cache, request' \in [Requests -> RequestRows],
         \A q \in Requests : request'[q] = request[q] \/ request'[q] = NoRequest
  PROVE  Versions'
<1>0. /\ rbacVersion \in Nat /\ rbacVersion' = rbacVersion + 1
      /\ \A e \in cache : e.version \in Nat /\ \A q \in Requests : request[q].version \in Nat
      /\ \A q \in Requests : request'[q].version \in Nat
  BY AccessTyped DEF Bump, CacheRows, RequestRows
<1>1. \A e \in cache : e.version <= rbacVersion' /\ e.version # rbacVersion'
  BY <1>0 DEF Versions
<1>2. \A q \in Requests : request'[q].pc \in {"grants", "menus"}
                          => request'[q].version <= rbacVersion' /\ request'[q].version # rbacVersion'
  <2>1. NoRequest.pc = "idle"
    BY DEF NoRequest
  <2>2. ASSUME NEW q \in Requests, request'[q].pc \in {"grants", "menus"}
        PROVE  request'[q].version <= rbacVersion' /\ request'[q].version # rbacVersion'
    <3>1. request'[q] = request[q]
      BY <2>1, <2>2
    <3>2. request[q].version <= rbacVersion /\ request[q].version \in Nat
      <4>1. request[q] \in RequestRows
        BY AccessTyped
      <4>2. request[q].version \in Nat
        BY <4>1 DEF RequestRows
      <4>3. QED
        BY <2>2, <3>1, <4>2 DEF Versions
    <3>3. QED
      BY <1>0, <3>1, <3>2
  <2>3. QED
    BY <2>2
<1>3. QED
  BY <1>1, <1>2 DEF Versions, RightsTrue

\* ... and every other step leaves what an account may do.
LEMMA SameVersion ==
  ASSUME Versions, UNCHANGED <<rbacVersion, grant, role, menu>>,
         \A e \in cache' : e.version <= rbacVersion /\ (e.version = rbacVersion => e.ctx = Effective(e.by, e.campus)),
         \A q \in Requests :
           \/ request'[q] = request[q]
           \/ LET r == request'[q] IN
              /\ r.pc \in {"grants", "menus"} => r.version <= rbacVersion
              /\ r.pc = "menus" /\ r.version = rbacVersion
                 => r.grant = grant[r.by] /\ r.active = Active(grant[r.by].role)
  PROVE  Versions'
<1>1. \A e \in cache' : e.version <= rbacVersion' /\ (e.version = rbacVersion' => e.ctx = Effective(e.by, e.campus)')
  BY WorthStays
<1>2. RightsTrue'
  BY <1>1 DEF RightsTrue
<1>3. ASSUME NEW q \in Requests
      PROVE  /\ request'[q].pc \in {"grants", "menus"} => request'[q].version <= rbacVersion'
             /\ request'[q].pc = "menus" /\ request'[q].version = rbacVersion'
                => /\ request'[q].grant = grant'[request'[q].by]
                   /\ request'[q].active = Active(grant[request'[q].by].role)
  <2>1. CASE request'[q] = request[q]
    BY <2>1 DEF Versions
  <2>2. CASE request'[q] # request[q]
    BY <2>2
  <2>3. QED
    BY <2>1, <2>2
<1>4. \A q \in Requests : Active(grant[request[q].by].role)' = Active(grant[request'[q].by].role)
  BY DEF Active
<1>5. QED
  BY <1>1, <1>2, <1>3, <1>4 DEF Versions

LEMMA VersionsStep ==
  ASSUME AccessTypeOK, Aimed, Versions, [AccessNext]_rbacVars
  PROVE  Versions'
<1>0. /\ request \in [Requests -> RequestRows] /\ cache \subseteq CacheRows /\ request' \in [Requests -> RequestRows]
      /\ rbacVersion \in Nat
  BY AccessTypes, AccessTyped, AccessTypedNext
<1>a. NoRequest.pc = "idle"
  BY DEF NoRequest
<1>b. \A e \in cache : e.version <= rbacVersion /\ (e.version = rbacVersion => e.ctx = Effective(e.by, e.campus))
  BY DEF Versions, RightsTrue
<1>1. CASE Change
  <2>1. cache' = cache /\ request' = request
    BY <1>1 DEF Change, UpdateAccount, CreateAccount, DeleteAccount, NewPassword, CreateRole, UpdateRole,
                DeleteRole, CreateMenu, UpdateMenu, SyncRegistry
  <2>2. ASSUME NEW a \in Accounts, NewPassword(a) PROVE Versions'
    <3>1. UNCHANGED <<rbacVersion, grant, role, menu>>
      BY <2>2 DEF NewPassword, NoBump
    <3>2. QED
      BY <1>b, <2>1, <3>1, SameVersion
  <2>3. CASE \A a \in Accounts : ~NewPassword(a)
    <3>1. Bump
      BY <1>1, <2>3 DEF Change, UpdateAccount, CreateAccount, DeleteAccount, CreateRole, UpdateRole, RoleBump,
                        DeleteRole, CreateMenu, UpdateMenu, SyncRegistry
    <3>2. QED
      BY <1>0, <2>1, <3>1, NewVersion
  <2>4. QED
    BY <2>2, <2>3
<1>2. CASE Forget
  BY <1>2, SameVersion DEF Forget, stored
<1>3. ASSUME NEW a \in Accounts, Login(a) PROVE Versions'
  BY <1>3, <1>b, SameVersion DEF Login
<1>4. ASSUME NEW q \in Requests, Guarded(q) PROVE Versions'
  <2> DEFINE r == request[q]
  <2>a. r.pc = "menus" /\ r.version = rbacVersion => r.grant = grant[r.by] /\ r.active = Active(grant[r.by].role)
    BY DEF Versions
  <2>b. r.pc \in {"grants", "menus"} => r.version <= rbacVersion
    BY DEF Versions
  <2>d. ASSUME NEW next \in RequestRows, Step(q, next), cache' = cache,
               next.pc \in {"grants", "menus"} => next.version <= rbacVersion,
               next.pc = "menus" /\ next.version = rbacVersion
                 => next.grant = grant[next.by] /\ next.active = Active(grant[next.by].role)
        PROVE  Versions'
    <3>1. UNCHANGED <<rbacVersion, grant, role, menu>>
      BY <2>d DEF Step, stored
    <3>2. \A p \in Requests : request'[p] = request[p] \/ request'[p] = next
      BY <1>0, <2>d DEF Step
    <3>3. QED
      BY <1>b, <2>d, <3>1, <3>2, SameVersion
  <2>1. ASSUME NEW a \in Accounts, LoadAccount(q, a) PROVE Versions'
    <3> DEFINE next == [NoRequest EXCEPT !.pc = "loaded", !.by = a, !.sv = account[a].sv,
                                         !.campus = account[a].campus, !.reach = account[a].reach]
    <3>1. next.pc = "loaded"
      BY DEF NoRequest
    <3>2. Step(q, next) /\ cache' = cache
      BY <2>1 DEF LoadAccount
    <3> HIDE DEF next
    <3>3. request'[q] = next
      BY <1>0, <3>2 DEF Step
    <3>4. next \in RequestRows
      BY <1>0, <3>3
    <3>5. QED
      BY <2>d, <3>1, <3>2, <3>4
  <2>2. CASE ReadVersion(q)
    <3>1. cache' = cache
      BY <2>2 DEF ReadVersion
    <3>2. ASSUME NEW e \in Hit(q), Step(q, Decided(q, e.ctx, e.reach)) PROVE Versions'
      <4>1. Decided(q, e.ctx, e.reach).pc = "decided"
        BY DEF Decided, NoRequest
      <4>2. Decided(q, e.ctx, e.reach) \in RequestRows
        <5>1. request'[q] = Decided(q, e.ctx, e.reach)
          BY <1>0, <3>2 DEF Step
        <5>2. QED
          BY <1>0, <5>1
      <4>3. QED
        BY <2>d, <3>1, <3>2, <4>1, <4>2
    <3>3. CASE Step(q, [request[q] EXCEPT !.pc = "grants", !.version = rbacVersion])
      <4> DEFINE next == [r EXCEPT !.pc = "grants", !.version = rbacVersion]
      <4>1. next.pc = "grants" /\ next.version = rbacVersion
        BY <1>0 DEF RequestRows
      <4>2. Step(q, next)
        BY <3>3
      <4> HIDE DEF next
      <4>3. next \in RequestRows
        <5>1. request'[q] = next
          BY <1>0, <4>2 DEF Step
        <5>2. QED
          BY <1>0, <5>1
      <4>4. QED
        BY <1>0, <2>d, <3>1, <4>1, <4>2, <4>3
    <3>4. QED
      BY <2>2, <3>2, <3>3 DEF ReadVersion
  <2>3. CASE ReadGrants(q)
    <3> DEFINE g == grant[r.by]
               next == [r EXCEPT !.pc = "menus", !.grant = g, !.active = Active(g.role)]
    <3>1. /\ next.pc = "menus" /\ next.by = r.by /\ next.grant = g /\ next.active = Active(g.role)
          /\ next.version = r.version
      BY <1>0 DEF RequestRows
    <3>2. Step(q, next) /\ cache' = cache /\ r.version <= rbacVersion
      BY <2>3, <2>b DEF ReadGrants
    <3> HIDE DEF next
    <3>3. next \in RequestRows
      <4>1. request'[q] = next
        BY <1>0, <3>2 DEF Step
      <4>2. QED
        BY <1>0, <4>1
    <3>4. QED
      BY <2>d, <3>1, <3>2, <3>3
  <2>4. CASE ReadMenus(q)
    <3> DEFINE ctx == ContextOf(r.grant, r.active, r.campus)
               reach == ReachOf(r.reach, ctx.platform, r.campus)
               e == [by |-> r.by, sv |-> r.sv, version |-> KeyVersion(r), campus |-> r.campus, ctx |-> ctx,
                     reach |-> reach]
    <3>1. /\ r.pc = "menus" /\ cache' = {x \in cache : x.version = rbacVersion} \cup {e}
          /\ request' = [request EXCEPT ![q] = Decided(q, ctx, reach)] /\ UNCHANGED stored
      BY <2>4 DEF ReadMenus
    <3> HIDE DEF reach
    <3>2. e.version <= rbacVersion /\ (e.version = rbacVersion => e.ctx = Effective(e.by, e.campus))
      BY <2>a, <2>b, <3>1 DEF Effective, KeyVersion
    <3>3. Decided(q, ctx, reach).pc = "decided"
      BY DEF Decided, NoRequest
    <3> HIDE DEF e, ctx
    <3>4. \A x \in cache' : x.version <= rbacVersion /\ (x.version = rbacVersion => x.ctx = Effective(x.by, x.campus))
      BY <1>b, <3>1, <3>2
    <3>5. \A p \in Requests : request'[p] = request[p] \/ request'[p].pc = "decided"
      BY <1>0, <3>1, <3>3
    <3>6. UNCHANGED <<rbacVersion, grant, role, menu>>
      BY <3>1 DEF stored
    <3>7. QED
      BY <3>4, <3>5, <3>6, SameVersion
  <2>5. CASE EndRequest(q)
    <3>1. Step(q, NoRequest) /\ cache' = cache
      BY <2>5 DEF EndRequest
    <3>2. QED
      BY <1>a, <2>d, <3>1, NoContextIsOne
  <2>6. ASSUME NEW c \in Campuses, SelectCampus(q, c) PROVE Versions'
    <3> DEFINE next == [NoRequest EXCEPT !.pc = "select", !.by = r.by, !.campus = c]
    <3>1. next.pc = "select"
      BY DEF NoRequest
    <3>2. Step(q, next) /\ cache' = cache
      BY <2>6 DEF SelectCampus
    <3> HIDE DEF next
    <3>3. next \in RequestRows
      <4>1. request'[q] = next
        BY <1>0, <3>2 DEF Step
      <4>2. QED
        BY <1>0, <4>1
    <3>4. QED
      BY <2>d, <3>1, <3>2, <3>3
  <2>7. CASE SelectWrite(q)
    <3>1. \A p \in Requests : request'[p] = request[p] \/ request'[p].pc = "idle"
      BY <1>0, <1>a, <2>7 DEF SelectWrite
    <3>2. UNCHANGED <<rbacVersion, grant, role, menu, cache>>
      BY <2>7 DEF SelectWrite
    <3>3. QED
      BY <1>b, <3>1, <3>2, SameVersion
  <2>8. ASSUME NEW m \in Menus, DeleteMenuRead(q, m) PROVE Versions'
    <3> DEFINE next == [NoRequest EXCEPT !.pc = "delete", !.tree = Below(m)]
    <3>1. next.pc = "delete"
      BY DEF NoRequest
    <3>2. Step(q, next) /\ cache' = cache
      BY <2>8 DEF DeleteMenuRead
    <3> HIDE DEF next
    <3>3. next \in RequestRows
      <4>1. request'[q] = next
        BY <1>0, <3>2 DEF Step
      <4>2. QED
        BY <1>0, <4>1
    <3>4. QED
      BY <2>d, <3>1, <3>2, <3>3
  <2>9. CASE DeleteMenu(q)
    <3>1. \A p \in Requests : request'[p] = request[p] \/ request'[p] = NoRequest
      BY <1>0, <2>9 DEF DeleteMenu
    <3>2. QED
      BY <1>0, <2>9, <3>1, NewVersion DEF DeleteMenu
  <2>10. QED
    BY <1>4, <2>1, <2>2, <2>3, <2>4, <2>5, <2>6, <2>7, <2>8, <2>9 DEF Guarded
<1>5. ASSUME NEW c \in Campuses, NEW o \in Companies, TransferCampus(c, o) PROVE Versions'
  BY <1>5, <1>b, SameVersion DEF TransferCampus
<1>6. CASE UNCHANGED rbacVars
  BY <1>6, <1>b, SameVersion DEF rbacVars
<1>7. QED
  BY <1>1, <1>2, <1>3, <1>4, <1>5, <1>6 DEF AccessNext

\* No session comes back, and a change of reach ends the session it was in.
LEMMA SessionsGrow ==
  ASSUME AccessTypeOK, Aimed, Sessions,
         \A a \in Accounts : /\ account'[a].sv \in Nat /\ account'[a].sv >= account[a].sv
                             /\ account'[a].sv = account[a].sv => account'[a].reach = account[a].reach,
         \A e \in cache' : e \in cache \/ Fresh(e),
         \A q \in Requests : request'[q] = request[q] \/ Onward(request'[q])
  PROVE  Sessions'
<1>0. /\ account \in [Accounts -> AccountRows] /\ cache \subseteq CacheRows
      /\ request \in [Requests -> RequestRows] /\ \A a \in Accounts : account[a].sv \in Nat
  BY AccessTyped DEF AccountRows
<1>1. ASSUME NEW e \in cache' PROVE Cached(e)'
  <2>1. Cached(e) /\ e.by \in Accounts /\ e.sv \in Nat
    <3>1. CASE Fresh(e)
      BY <3>1 DEF Fresh
    <3>2. CASE e \in cache
      BY <1>0, <3>2 DEF Sessions, CacheRows
    <3>3. QED
      BY <3>1, <3>2
  <2>2. account[e.by].sv \in Nat /\ account'[e.by].sv \in Nat /\ account'[e.by].sv >= account[e.by].sv
    BY <1>0, <2>1
  <2>3. e.sv <= account'[e.by].sv
    BY <2>1, <2>2 DEF Cached
  <2>4. ASSUME e.sv = account'[e.by].sv PROVE InReach(e.reach, account'[e.by].reach, e.campus)
    <3>1. e.sv = account[e.by].sv /\ account'[e.by].reach = account[e.by].reach
      BY <2>1, <2>2, <2>4 DEF Cached
    <3>2. QED
      BY <2>1, <3>1 DEF Cached
  <2>5. QED
    BY <2>3, <2>4 DEF Cached, InReach, LevelOf
<1>2. ASSUME NEW q \in Requests, request'[q].pc \in {"loaded", "grants", "menus"}
      PROVE  Loaded(request[q].sv, request[q].by, request[q].reach)'
  <2> DEFINE r == request'[q]
  <2>1. r.by \in Accounts /\ r.sv \in Nat /\ Loaded(r.sv, r.by, r.reach)
    <3>1. CASE request'[q] = request[q]
      <4>1. request[q] \in RequestRows
        BY <1>0
      <4>2. request[q].by \in Accounts /\ request[q].sv \in Nat
        BY <1>2, <3>1, <4>1 DEF Aimed, RequestRows
      <4>3. QED
        BY <1>2, <3>1, <4>2 DEF Sessions
    <3>2. CASE request'[q] # request[q]
      BY <1>2, <3>2 DEF Onward
    <3>3. QED
      BY <3>1, <3>2
  <2>2. account[r.by].sv \in Nat /\ account'[r.by].sv \in Nat /\ account'[r.by].sv >= account[r.by].sv
    BY <1>0, <2>1
  <2>3. r.sv <= account'[r.by].sv /\ (r.sv = account'[r.by].sv => r.reach = account'[r.by].reach)
    BY <2>1, <2>2 DEF Loaded
  <2>4. QED
    BY <2>3 DEF Loaded
<1>3. QED
  BY <1>1, <1>2 DEF Sessions

LEMMA SessionsStep ==
  ASSUME AccessTypeOK, Aimed, Sessions, [AccessNext]_rbacVars
  PROVE  Sessions'
<1>0. /\ account \in [Accounts -> AccountRows] /\ cache \subseteq CacheRows
      /\ request \in [Requests -> RequestRows] /\ request' \in [Requests -> RequestRows]
      /\ account' \in [Accounts -> AccountRows]
  BY AccessTypes, AccessTyped, AccessTypedNext
<1>a. /\ NoRequest.pc = "idle"
      /\ \A a \in Accounts : account[a].sv \in Nat /\ account'[a].sv \in Nat
  BY <1>0 DEF NoRequest, AccountRows
\* Sessions stand or end.
<1>b. ASSUME \A a \in Accounts : \/ account'[a].sv > account[a].sv
                                 \/ account'[a].sv = account[a].sv /\ account'[a].reach = account[a].reach,
             cache' \subseteq cache, \A q \in Requests : request'[q] = request[q] \/ request'[q].pc = "idle"
      PROVE  Sessions'
  <2>1. \A a \in Accounts : /\ account'[a].sv >= account[a].sv
                            /\ account'[a].sv = account[a].sv => account'[a].reach = account[a].reach
    BY <1>a, <1>b
  <2>2. \A q \in Requests : request'[q] = request[q] \/ Onward(request'[q])
    BY <1>b DEF Onward
  <2>3. \A e \in cache' : e \in cache \/ Fresh(e)
    BY <1>b
  <2>4. \A a \in Accounts : /\ account'[a].sv \in Nat /\ account'[a].sv >= account[a].sv
                            /\ account'[a].sv = account[a].sv => account'[a].reach = account[a].reach
    BY <1>a, <2>1
  <2>5. QED
    BY <2>2, <2>3, <2>4, SessionsGrow
<1>d. ASSUME NEW q \in Requests, UNCHANGED account, request' = [request EXCEPT ![q] = request'[q]],
             \A e \in cache' : e \in cache \/ Fresh(e), Onward(request'[q])
      PROVE  Sessions'
  <2>1. \A p \in Requests : request'[p] = request[p] \/ Onward(request'[p])
    BY <1>0, <1>d
  <2>2. \A a \in Accounts : /\ account'[a].sv \in Nat /\ account'[a].sv >= account[a].sv
                            /\ account'[a].sv = account[a].sv => account'[a].reach = account[a].reach
    BY <1>a, <1>d
  <2>3. QED
    BY <1>d, <2>1, <2>2, SessionsGrow
<1>1. ASSUME NEW a \in Accounts, UpdateAccount(a) \/ CreateAccount(a) PROVE Sessions'
  <2>1. PICK s, c, reach : EndSessions(a, s, c, reach)
    BY <1>1 DEF UpdateAccount, CreateAccount
  <2>2. account'[a].sv = account[a].sv + 1 /\ \A x \in Accounts \ {a} : account'[x] = account[x]
    BY <1>0, <2>1 DEF EndSessions
  <2>3. cache' = cache /\ request' = request
    BY <1>1 DEF UpdateAccount, CreateAccount
  <2>4. QED
    BY <1>a, <1>b, <2>2, <2>3
<1>2. ASSUME NEW a \in Accounts, DeleteAccount(a) \/ NewPassword(a) \/ Login(a) PROVE Sessions'
  <2>1. /\ \A x \in Accounts \ {a} : account'[x] = account[x]
        /\ account'[a].reach = account[a].reach /\ account'[a].sv >= account[a].sv
    <3>1. CASE DeleteAccount(a)
      BY <1>0, <1>a, <3>1 DEF DeleteAccount, AccountRows
    <3>2. CASE NewPassword(a)
      BY <1>0, <1>a, <3>2 DEF NewPassword, AccountRows
    <3>3. CASE Login(a)
      BY <1>0, <1>a, <3>3 DEF Login, AccountRows
    <3>4. QED
      BY <1>2, <3>1, <3>2, <3>3
  <2>2. cache' = cache /\ request' = request
    BY <1>2 DEF DeleteAccount, NewPassword, Login
  <2>3. QED
    BY <1>a, <1>b, <2>1, <2>2
<1>3. ASSUME UNCHANGED account, cache' \subseteq cache,
             \A q \in Requests : request'[q] = request[q] \/ request'[q].pc = "idle"
      PROVE  Sessions'
  BY <1>3, <1>b
<1>4. CASE Change
  <2>1. ASSUME \A a \in Accounts : ~(UpdateAccount(a) \/ CreateAccount(a) \/ DeleteAccount(a) \/ NewPassword(a))
        PROVE  UNCHANGED <<account, cache, request>>
    BY <1>4, <2>1 DEF Change, CreateRole, UpdateRole, DeleteRole, CreateMenu, UpdateMenu, SyncRegistry
  <2>2. QED
    BY <1>1, <1>2, <1>3, <2>1
<1>5. ASSUME NEW q \in Requests, Guarded(q) PROVE Sessions'
  <2> DEFINE r == request[q]
  <2>0. /\ r \in RequestRows /\ r.sv \in Nat
        /\ r.pc \in {"loaded", "grants", "menus"} => r.by \in Accounts /\ Loaded(r.sv, r.by, r.reach)
    BY <1>0 DEF RequestRows, Aimed, Sessions
  <2>1. ASSUME NEW a \in Accounts, LoadAccount(q, a) PROVE Sessions'
    <3>1. /\ request' = [request EXCEPT ![q] = request'[q]] /\ account' = account /\ cache' = cache
          /\ request'[q].by = a /\ request'[q].sv = account[a].sv /\ request'[q].reach = account[a].reach
      BY <1>0, <2>1 DEF LoadAccount, Step, stored, NoRequest
    <3>2. Loaded(account[a].sv, a, account[a].reach)
      BY <1>a DEF Loaded
    <3>3. Onward(request'[q])
      BY <1>a, <3>1, <3>2 DEF Onward
    <3>4. QED
      BY <1>d, <3>1, <3>3
  <2>2. ASSUME UNCHANGED <<account, cache>>, request' = [request EXCEPT ![q] = request'[q]],
               \/ request'[q].pc \notin {"loaded", "grants", "menus"}
               \/ /\ r.pc \in {"loaded", "grants", "menus"} /\ request'[q].by = r.by
                  /\ request'[q].sv = r.sv /\ request'[q].reach = r.reach
        PROVE  Sessions'
    <3>1. Onward(request'[q])
      BY <2>0, <2>2 DEF Onward
    <3>2. QED
      BY <1>d, <2>2, <3>1
  <2>3. CASE ReadVersion(q)
    <3>1. UNCHANGED <<account, cache>> /\ r.pc = "loaded"
      BY <2>3 DEF ReadVersion, Step, stored
    <3>2. ASSUME NEW e \in Hit(q), Step(q, Decided(q, e.ctx, e.reach)) PROVE Sessions'
      BY <1>0, <2>2, <3>1, <3>2 DEF Step, Decided, NoRequest
    <3>3. CASE Step(q, [request[q] EXCEPT !.pc = "grants", !.version = rbacVersion])
      BY <1>0, <2>0, <2>2, <3>1, <3>3 DEF Step, RequestRows
    <3>4. QED
      BY <2>3, <3>2, <3>3 DEF ReadVersion
  <2>4. CASE ReadGrants(q)
    BY <1>0, <2>0, <2>2, <2>4 DEF ReadGrants, Step, stored, RequestRows
  <2>5. CASE ReadMenus(q)
    <3> DEFINE ctx == ContextOf(r.grant, r.active, r.campus)
               reach == ReachOf(r.reach, ctx.platform, r.campus)
               e == [by |-> r.by, sv |-> r.sv, version |-> KeyVersion(r), campus |-> r.campus, ctx |-> ctx,
                     reach |-> reach]
    <3>1. /\ r.pc = "menus" /\ cache' \subseteq cache \cup {e} /\ account' = account
          /\ request' = [request EXCEPT ![q] = Decided(q, ctx, reach)]
      BY <2>5 DEF ReadMenus, stored
    <3>2. InReach(reach, r.reach, r.campus)
      BY DEF InReach, ReachOf, Reach
    <3>3. e.by = r.by /\ e.sv = r.sv /\ e.reach = reach /\ e.campus = r.campus
      OBVIOUS
    <3> HIDE DEF ctx, reach, e
    <3>4. Cached(e)
      BY <2>0, <3>1, <3>2, <3>3 DEF Cached, Loaded
    <3>5. request'[q].pc = "decided" /\ request' = [request EXCEPT ![q] = request'[q]]
      BY <1>0, <3>1 DEF Decided, NoRequest
    <3>6. Fresh(e) /\ Onward(request'[q])
      BY <2>0, <3>1, <3>3, <3>4, <3>5 DEF Fresh, Onward
    <3>7. QED
      BY <1>d, <3>1, <3>5, <3>6
  <2>6. CASE EndRequest(q)
    BY <1>0, <1>a, <2>2, <2>6 DEF EndRequest, Step, stored
  <2>7. ASSUME NEW c \in Campuses, SelectCampus(q, c) PROVE Sessions'
    BY <1>0, <2>2, <2>7 DEF SelectCampus, Step, stored, NoRequest
  <2>8. CASE SelectWrite(q)
    <3>1. \A a \in Accounts : account'[a].sv = account[a].sv /\ account'[a].reach = account[a].reach
      BY <1>0, <2>8 DEF SelectWrite, AccountRows
    <3>2. \A p \in Requests : request'[p] = request[p] \/ request'[p].pc = "idle"
      BY <1>0, <1>a, <2>8 DEF SelectWrite
    <3>3. cache' = cache
      BY <2>8 DEF SelectWrite
    <3>4. QED
      BY <1>b, <3>1, <3>2, <3>3
  <2>9. ASSUME NEW m \in Menus, DeleteMenuRead(q, m) PROVE Sessions'
    BY <1>0, <2>2, <2>9 DEF DeleteMenuRead, Step, stored, NoRequest
  <2>10. CASE DeleteMenu(q)
    BY <1>0, <1>3, <1>a, <2>10 DEF DeleteMenu
  <2>11. QED
    BY <1>5, <2>1, <2>3, <2>4, <2>5, <2>6, <2>7, <2>8, <2>9, <2>10 DEF Guarded
<1>6. ASSUME NEW c \in Campuses, NEW o \in Companies, TransferCampus(c, o) PROVE Sessions'
  BY <1>3, <1>6 DEF TransferCampus
<1>7. CASE Forget \/ UNCHANGED rbacVars
  BY <1>3, <1>7 DEF Forget, stored, rbacVars
<1>8. QED
  BY <1>2, <1>4, <1>5, <1>6, <1>7 DEF AccessNext

LEMMA AccessInvariant == AccessSpec => []AccessInv
<1>1. AccessInit => AccessInv
  BY AccessBegin DEF AccessInv
<1>2. AccessInv /\ [AccessNext]_rbacVars => AccessInv'
  BY AccessTypes, VersionsStep, SessionsStep DEF AccessInv
<1>3. QED
  BY <1>1, <1>2, PTL DEF AccessSpec

\* What a request finds in the cache under the version of now is what the
\* account may do now, and under the session of now it is within the account's
\* level and organisation (RbacService.getEffective, however its reads and the
\* changes interleave).
THEOREM CachedIsEffective == AccessSpec => []CacheTrue
<1>1. AccessInv => CacheTrue
  BY DEF AccessInv, Versions, Sessions, Cached, CacheTrue
<1>2. QED
  BY <1>1, AccessInvariant, PTL

-----------------------------------------------------------------------------
(* AccessControl: who can administer, and the tree of menus                *)

\* A standing node is in a set of nodes that nothing leaves downwards and that
\* its parent is not in.  Unlike Below, it needs no number of levels.
Rooted == \A m \in Menus : Standing(m) =>
            \E C \in SUBSET Menus : m \in C /\ Children(C) \subseteq C /\ menu[m].parent \notin C

LEMMA ForestIsRooted == MenuForest <=> Rooted
<1>1. ASSUME MenuForest PROVE Rooted
  <2>1. ASSUME NEW m \in Menus, Standing(m)
        PROVE  \E C \in SUBSET Menus : m \in C /\ Children(C) \subseteq C /\ menu[m].parent \notin C
    <3>1. Below(m) \in SUBSET Menus /\ m \in Below(m) /\ Children(Below(m)) \subseteq Below(m)
      BY BelowClosed
    <3>2. menu[m].parent \notin Below(m)
      BY <1>1, <2>1 DEF MenuForest
    <3>3. QED
      BY <3>1, <3>2
  <2>2. QED
    BY <2>1 DEF Rooted
<1>2. ASSUME Rooted PROVE MenuForest
  <2>1. ASSUME NEW m \in Menus, Standing(m) PROVE menu[m].parent \notin Below(m)
    <3>1. PICK C \in SUBSET Menus : m \in C /\ Children(C) \subseteq C /\ menu[m].parent \notin C
      BY <1>2, <2>1 DEF Rooted
    <3>2. Below(m) \subseteq C
      BY <3>1, BelowClosed
    <3>3. QED
      BY <3>1, <3>2
  <2>2. QED
    BY <2>1 DEF MenuForest
<1>3. QED
  BY <1>1, <1>2

\* Whoever is the only one left is not regranted, disabled or deleted.
LEMMA SuperStays ==
  ASSUME AccessTypeOK, SuperRemains, [AccessNext]_rbacVars
  PROVE  SuperRemains'
<1>0. account \in [Accounts -> AccountRows] /\ grant \in [Accounts -> Grants]
  BY AccessTyped
<1>a. PICK w \in Accounts : grant[w] = TheSuper /\ account[w].status = "active"
  BY DEF SuperRemains
\* Another account changes, or this one keeps its grant and status.
<1>b. ASSUME NEW v \in Accounts, grant'[v] = TheSuper, account'[v].status = "active" PROVE SuperRemains'
  BY <1>b DEF SuperRemains, TheSuper
<1>d. ASSUME NEW a \in Accounts, ~(a \in ActiveSupers /\ Cardinality(ActiveSupers) <= 1),
             \A x \in Accounts \ {a} : grant'[x] = grant[x] /\ account'[x] = account[x]
      PROVE  SuperRemains'
  <2>1. PICK v \in ActiveSupers : v # a
    <3>1. CASE \A v \in ActiveSupers : v = a
      <4>1. ActiveSupers = {a}
        BY <1>a, <3>1 DEF ActiveSupers
      <4>2. Cardinality({a}) = 1
        BY FS_Singleton
      <4>3. QED
        BY <1>d, <4>1, <4>2
    <3>2. QED
      BY <3>1
  <2>2. v \in Accounts /\ grant'[v] = TheSuper /\ account'[v].status = "active"
    BY <1>d, <2>1 DEF ActiveSupers
  <2>3. QED
    BY <1>b, <2>2
<1>1. ASSUME NEW a \in Accounts, UpdateAccount(a) PROVE SuperRemains'
  <2>1. PICK g \in {grant[a]} \cup Grantable, status \in {"active", "disabled"}, reach \in GivenReaches :
          /\ g # grant[a] /\ account[a].status = "active" => ~LastSuper(a)
          /\ status = "disabled" => MayDisable(a, g)
          /\ grant' = [grant EXCEPT ![a] = g]
          /\ \E c \in IF g # grant[a] THEN CampusFor(a, g) ELSE {account[a].campus} :
               EndSessions(a, status, c, reach)
    BY <1>1 DEF UpdateAccount
  <2>2. /\ grant'[a] = g /\ account'[a].status = status
        /\ \A x \in Accounts \ {a} : grant'[x] = grant[x] /\ account'[x] = account[x]
    BY <1>0, <2>1 DEF EndSessions
  <2>3. CASE a \in ActiveSupers /\ Cardinality(ActiveSupers) <= 1
    <3>1. account[a].status = "active" /\ LastSuper(a) /\ grant[a] = TheSuper
      BY <2>3 DEF ActiveSupers, LastSuper
    <3>2. g = TheSuper
      BY <2>1, <3>1
    <3>3. status = "active"
      BY <2>1, <2>3, <3>1, <3>2 DEF MayDisable
    <3>4. QED
      BY <1>b, <2>2, <3>2, <3>3
  <2>4. QED
    BY <1>d, <2>2, <2>3
<1>2. ASSUME NEW a \in Accounts, CreateAccount(a) PROVE SuperRemains'
  <2>1. a \notin ActiveSupers
    BY <1>2 DEF CreateAccount, ActiveSupers
  <2>2. \A x \in Accounts \ {a} : grant'[x] = grant[x] /\ account'[x] = account[x]
    BY <1>0, <1>2 DEF CreateAccount, EndSessions
  <2>3. QED
    BY <1>d, <2>1, <2>2
<1>3. ASSUME NEW a \in Accounts, DeleteAccount(a) PROVE SuperRemains'
  <2>1. ~(a \in ActiveSupers /\ Cardinality(ActiveSupers) <= 1)
    BY <1>3 DEF DeleteAccount, ActiveSupers, LastSuper
  <2>2. \A x \in Accounts \ {a} : grant'[x] = grant[x] /\ account'[x] = account[x]
    BY <1>0, <1>3 DEF DeleteAccount
  <2>3. QED
    BY <1>d, <2>1, <2>2
\* The rest keeps the grants and the status of all, but for grants of roles
\* that are not the built-in one.
<1>e. ASSUME grant'[w] = grant[w], account'[w].status = account[w].status PROVE SuperRemains'
  BY <1>a, <1>b, <1>e
<1>4. ASSUME NEW a \in Accounts, NewPassword(a) \/ Login(a) PROVE SuperRemains'
  <2>1. account'[w].status = account[w].status
    <3>1. CASE NewPassword(a)
      BY <1>0, <3>1 DEF NewPassword, AccountRows
    <3>2. CASE Login(a)
      BY <1>0, <3>2 DEF Login, AccountRows
    <3>3. QED
      BY <1>4, <3>1, <3>2
  <2>2. grant' = grant
    BY <1>4 DEF NewPassword, Login
  <2>3. QED
    BY <1>e, <2>1, <2>2
<1>5. CASE SyncRegistry
  <2>1. grant[w].role \notin Retired
    BY <1>a, RolesAssumption DEF TheSuper
  <2>2. grant'[w] = grant[w] /\ account' = account
    BY <1>5, <2>1 DEF SyncRegistry
  <2>3. QED
    BY <1>e, <2>2
<1>6. ASSUME UNCHANGED <<account, grant>> PROVE SuperRemains'
  BY <1>6, <1>e
<1>7. ASSUME NEW q \in Requests, Guarded(q) PROVE SuperRemains'
  <2>1. CASE SelectWrite(q)
    <3>1. account'[w].status = account[w].status
      BY <1>0, <2>1 DEF SelectWrite, AccountRows
    <3>2. QED
      BY <1>e, <2>1, <3>1 DEF SelectWrite
  <2>2. CASE ~SelectWrite(q)
    BY <1>6, <1>7, <2>2 DEF Guarded, LoadAccount, ReadVersion, ReadGrants, ReadMenus, EndRequest, SelectCampus,
                            DeleteMenuRead, DeleteMenu, Step, stored
  <2>3. QED
    BY <2>1, <2>2
<1>8. CASE Forget \/ UNCHANGED rbacVars \/ \E c \in Campuses, o \in Companies : TransferCampus(c, o)
  BY <1>6, <1>8 DEF Forget, stored, rbacVars, TransferCampus
<1>9. ASSUME NEW r \in Roles, CreateRole(r) \/ UpdateRole(r) \/ DeleteRole(r) PROVE SuperRemains'
  BY <1>6, <1>9 DEF CreateRole, UpdateRole, DeleteRole
<1>10. ASSUME NEW m \in Menus, CreateMenu(m) \/ UpdateMenu(m) PROVE SuperRemains'
  BY <1>6, <1>10 DEF CreateMenu, UpdateMenu
<1>11. QED
  BY <1>1, <1>2, <1>3, <1>4, <1>5, <1>7, <1>8, <1>9, <1>10 DEF AccessNext, Change

\* A node is hung under one that is not below it, a new node has no children,
\* and what is deleted is nobody's parent.
LEMMA RootedStays ==
  ASSUME AccessTypeOK, Rooted, [AccessNext]_rbacVars
  PROVE  Rooted'
<1>0. menu \in [Menus -> MenuRows] /\ "root" \notin Menus /\ "gone" \notin Menus
  BY AccessTyped, MarksAssumption
<1>a. ASSUME UNCHANGED menu PROVE Rooted'
  BY <1>a DEF Rooted, Standing, Children
\* What is closed after the step.
<1>b. ASSUME \A x \in Menus : menu'[x].parent # "gone" =>
               \E C \in SUBSET Menus : /\ x \in C /\ menu'[x].parent \notin C
                                       /\ \A y \in Menus : menu'[y].parent \in C => y \in C
      PROVE  Rooted'
  <2>1. \A C : (\A y \in Menus : menu'[y].parent \in C => y \in C) => Children(C)' \subseteq C
    BY DEF Children
  <2>2. QED
    BY <1>b, <2>1 DEF Rooted, Standing
<1>d. ASSUME NEW x \in Menus, menu[x].parent # "gone"
      PROVE  \E C \in SUBSET Menus : /\ x \in C /\ menu[x].parent \notin C
                                     /\ \A y \in Menus : menu[y].parent \in C => y \in C
  BY <1>d DEF Rooted, Standing, Children
<1>1. ASSUME NEW m \in Menus, CreateMenu(m) PROVE Rooted'
  <2>1. PICK p \in Perms, up \in {"root"} \cup {x \in Menus : Standing(x)} :
          menu' = [menu EXCEPT ![m] = [parent |-> up, perm |-> p]]
    BY <1>1 DEF CreateMenu
  <2>2. menu[m].parent = "gone" /\ up # m /\ \A x \in Menus : menu[x].parent # m
    BY <1>0, <1>1 DEF CreateMenu, NewId, Standing
  <2>3. menu'[m].parent = up /\ \A x \in Menus \ {m} : menu'[x] = menu[x]
    BY <1>0, <2>1
  <2>4. ASSUME NEW x \in Menus, menu'[x].parent # "gone"
        PROVE  \E C \in SUBSET Menus : /\ x \in C /\ menu'[x].parent \notin C
                                       /\ \A y \in Menus : menu'[y].parent \in C => y \in C
    <3>1. CASE x = m
      <4>1. m \in {m} /\ menu'[m].parent \notin {m} /\ \A y \in Menus : menu'[y].parent \in {m} => y \in {m}
        BY <2>2, <2>3
      <4>2. {m} \in SUBSET Menus
        OBVIOUS
      <4>3. QED
        BY <3>1, <4>1, <4>2
    <3>2. CASE x # m
      <4>1. PICK C \in SUBSET Menus : /\ x \in C /\ menu[x].parent \notin C
                                      /\ \A y \in Menus : menu[y].parent \in C => y \in C
        BY <1>d, <2>3, <2>4, <3>2
      <4> DEFINE D == IF up \in C THEN C \cup {m} ELSE C \ {m}
      <4>2. D \in SUBSET Menus /\ x \in D /\ menu'[x].parent \notin D
        BY <2>2, <2>3, <3>2, <4>1
      <4>3. \A y \in Menus : menu'[y].parent \in D => y \in D
        BY <2>2, <2>3, <4>1
      <4> HIDE DEF D
      <4>4. QED
        BY <4>2, <4>3
    <3>3. QED
      BY <3>1, <3>2
  <2>5. QED
    BY <1>b, <2>4
<1>2. ASSUME NEW m \in Menus, UpdateMenu(m) PROVE Rooted'
  <2> DEFINE B == Below(m)
  <2>1. PICK p \in Perms, up \in {menu[m].parent, "root"} \cup {x \in Menus : Standing(x) /\ MayHang(m, x)} :
          menu' = [menu EXCEPT ![m] = [parent |-> up, perm |-> p]]
    BY <1>2 DEF UpdateMenu
  <2>2. Standing(m) /\ menu[m].parent # "gone"
    BY <1>2 DEF UpdateMenu, Standing
  <2>3. menu[m].parent \notin B
    BY <2>2, ForestIsRooted DEF MenuForest
  <2>4. /\ m \in B /\ B \in SUBSET Menus
        /\ \A y \in Menus : menu[y].parent \in B => y \in B
    BY BelowClosed DEF Children
  <2>5. up \notin B
    BY <1>0, <2>3, <2>4 DEF MayHang
  <2>6. menu'[m].parent = up /\ \A x \in Menus \ {m} : menu'[x] = menu[x]
    BY <1>0, <2>1
  <2> HIDE DEF B
  <2>7. ASSUME NEW x \in Menus, menu'[x].parent # "gone"
        PROVE  \E C \in SUBSET Menus : /\ x \in C /\ menu'[x].parent \notin C
                                       /\ \A y \in Menus : menu'[y].parent \in C => y \in C
    <3>1. CASE x = m
      <4>1. \A y \in Menus : menu'[y].parent \in B => y \in B
        BY <2>4, <2>5, <2>6
      <4>2. QED
        BY <2>4, <2>5, <2>6, <3>1, <4>1
    <3>2. CASE x # m
      <4>0. menu'[x].parent = menu[x].parent
        BY <2>6, <3>2
      <4>1. PICK C \in SUBSET Menus : /\ x \in C /\ menu[x].parent \notin C
                                      /\ \A y \in Menus : menu[y].parent \in C => y \in C
        BY <1>d, <2>7, <4>0
      <4>2. CASE m \in C \/ up \notin C
        <5>1. \A y \in Menus : menu'[y].parent \in C => y \in C
          BY <2>6, <4>1, <4>2
        <5>2. QED
          BY <4>0, <4>1, <5>1
      <4>3. CASE m \notin C /\ up \in C /\ x \in B
        <5>1. \A y \in Menus : menu'[y].parent \in C \cap B => y \in C \cap B
          BY <2>4, <2>5, <2>6, <4>1
        <5>2. C \cap B \in SUBSET Menus /\ x \in C \cap B /\ menu'[x].parent \notin C \cap B
          BY <4>0, <4>1, <4>3
        <5>3. QED
          BY <5>1, <5>2
      <4>4. CASE m \notin C /\ up \in C /\ x \notin B
        <5>1. \A y \in Menus : menu'[y].parent \in C \cup B => y \in C \cup B
          BY <2>4, <2>6, <4>1
        <5>2. C \cup B \in SUBSET Menus /\ x \in C \cup B /\ menu'[x].parent \notin C \cup B
          BY <2>4, <4>0, <4>1, <4>4
        <5>3. QED
          BY <5>1, <5>2
      <4>5. QED
        BY <4>2, <4>3, <4>4
    <3>3. QED
      BY <3>1, <3>2
  <2>8. QED
    BY <1>b, <2>7
<1>3. ASSUME NEW q \in Requests, DeleteMenu(q) PROVE Rooted'
  <2>1. \A y \in Menus : menu'[y].parent = "gone" \/ menu'[y].parent = menu[y].parent
    BY <1>0, <1>3 DEF DeleteMenu, MenuRows
  <2>2. ASSUME NEW x \in Menus, menu'[x].parent # "gone"
        PROVE  \E C \in SUBSET Menus : /\ x \in C /\ menu'[x].parent \notin C
                                       /\ \A y \in Menus : menu'[y].parent \in C => y \in C
    <3>1. menu[x].parent = menu'[x].parent
      BY <2>1, <2>2
    <3>2. PICK C \in SUBSET Menus : /\ x \in C /\ menu[x].parent \notin C
                                    /\ \A y \in Menus : menu[y].parent \in C => y \in C
      BY <1>d, <2>2, <3>1
    <3>3. "gone" \notin C
      BY <1>0
    <3>4. \A y \in Menus : menu'[y].parent \in C => y \in C
      BY <2>1, <3>2, <3>3
    <3>5. QED
      BY <3>1, <3>2, <3>4
  <2>3. QED
    BY <1>b, <2>2
<1>4. CASE UNCHANGED menu
  BY <1>4, <1>a
<1>5. CASE menu' # menu
  BY <1>1, <1>2, <1>3, <1>5 DEF AccessNext, Change, Guarded, UpdateAccount, CreateAccount, DeleteAccount,
       NewPassword, CreateRole, UpdateRole, DeleteRole, SyncRegistry, Forget, Login, LoadAccount, ReadVersion,
       ReadGrants, ReadMenus, EndRequest, SelectCampus, SelectWrite, DeleteMenuRead, Step, stored, rbacVars,
       TransferCampus
<1>6. QED
  BY <1>4, <1>5

\* Somebody who can give permissions remains, and no node hangs below itself
\* (replaceAccountGrants, changeAccountStatus, deleteAccount; updateMenu).
THEOREM AccessStaysUsable == AccessSpec => []AccessKept
<1>1. AccessInit => SuperRemains
  BY DEF AccessInit, SuperRemains
<1>2. AccessInit => Rooted
  <2> SUFFICES ASSUME AccessInit PROVE Rooted
    OBVIOUS
  <2>1. \A m \in Menus : menu[m].parent = "root"
    BY DEF AccessInit
  <2>2. \A m \in Menus : Menus \in SUBSET Menus /\ Children(Menus) \subseteq Menus /\ menu[m].parent \notin Menus
    BY <2>1, MarksAssumption DEF Children
  <2>3. QED
    BY <2>2 DEF Rooted
<1>3. AccessInv /\ SuperRemains /\ Rooted /\ [AccessNext]_rbacVars => SuperRemains' /\ Rooted'
  BY SuperStays, RootedStays DEF AccessInv
<1>4. SuperRemains /\ Rooted => AccessKept
  BY ForestIsRooted DEF AccessKept
<1>5. QED
  BY <1>1, <1>2, <1>3, <1>4, AccessInvariant, PTL DEF AccessSpec

-----------------------------------------------------------------------------
(* StaffCover: invitations and their answers                               *)

InviteRows == [to : Wardens \cup {"none"}, of : Houses \cup {"none"},
               status : {"none", "invited", "cancelled"} \cup Answers]
LeaveShapes == [by : Wardens \cup {"none"}, substitute : Wardens \cup {"none"},
                status : {"none", "pending", "cancelled"}]
ErrandRows == [on : Invites \cup {"none"}, answer : Answers \cup {"none"}]

\* Who is under way has an answer to give.
ErrandsHaveAnswers == \A e \in Errands : errand[e].on # "none" => errand[e].answer \in Answers

CoverInv == CoverTypeOK /\ ErrandsHaveAnswers /\ AnswersStand

LEMMA CoverTyped ==
  CoverTypeOK <=> /\ post \in [Wardens -> Houses \cup {"none"}] /\ invitation \in [Invites -> InviteRows]
                  /\ told \in [Invites -> SUBSET ({"cancelled"} \cup Answers)]
                  /\ leave \in [LeaveRows -> LeaveShapes] /\ errand \in [Errands -> ErrandRows]
BY DEF CoverTypeOK, InviteRows, LeaveShapes, ErrandRows

LEMMA CoverTypedNext ==
  CoverTypeOK' <=> /\ post' \in [Wardens -> Houses \cup {"none"}] /\ invitation' \in [Invites -> InviteRows]
                   /\ told' \in [Invites -> SUBSET ({"cancelled"} \cup Answers)]
                   /\ leave' \in [LeaveRows -> LeaveShapes] /\ errand' \in [Errands -> ErrandRows]
BY DEF CoverTypeOK, InviteRows, LeaveShapes, ErrandRows

LEMMA CoverBegins == CoverInit => CoverInv
<1> SUFFICES ASSUME CoverInit PROVE CoverInv
  OBVIOUS
<1>1. NoInvite \in InviteRows /\ NoLeave \in LeaveShapes /\ NoErrand \in ErrandRows /\ NoErrand.on = "none"
  BY DEF NoInvite, InviteRows, NoLeave, LeaveShapes, NoErrand, ErrandRows
<1>2. CoverTypeOK
  BY <1>1, CoverTyped DEF CoverInit
<1>3. QED
  BY <1>1, <1>2 DEF CoverInit, CoverInv, ErrandsHaveAnswers, AnswersStand

LEMMA CoverStep == CoverInv /\ [CoverNext]_coverVars => CoverInv'
<1> SUFFICES ASSUME CoverInv, [CoverNext]_coverVars PROVE CoverInv'
  OBVIOUS
<1>0. /\ post \in [Wardens -> Houses \cup {"none"}] /\ invitation \in [Invites -> InviteRows]
      /\ told \in [Invites -> SUBSET ({"cancelled"} \cup Answers)]
      /\ leave \in [LeaveRows -> LeaveShapes] /\ errand \in [Errands -> ErrandRows]
  BY CoverTyped DEF CoverInv
<1>a. \A i \in Invites : told[i] \cap Answers # {} => invitation[i].status \in told[i] \cap Answers
  BY DEF CoverInv, AnswersStand
<1>b. \A e \in Errands : errand[e].on # "none" => errand[e].answer \in Answers
  BY DEF CoverInv, ErrandsHaveAnswers
<1>c. "none" \notin Answers /\ "invited" \notin Answers /\ "cancelled" \notin Answers
  BY DEF Answers
\* A step that leaves invitations and what was told, or errands.
<1>d. ASSUME CoverTypeOK',
             \A i \in Invites : \/ invitation'[i].status = invitation[i].status /\ told'[i] = told[i]
                                \/ told'[i] \cap Answers = {}
                                \/ invitation'[i].status \in told'[i] \cap Answers,
             \A e \in Errands : errand'[e] = errand[e] \/ errand'[e].on = "none" \/ errand'[e].answer \in Answers
      PROVE  CoverInv'
  BY <1>a, <1>b, <1>d DEF CoverInv, AnswersStand, ErrandsHaveAnswers
<1>1. ASSUME NEW w \in Wardens, NEW h \in Houses \cup {"none"}, Rebind(w, h) PROVE CoverInv'
  <2>1. CoverTypeOK'
    BY <1>0, <1>1, CoverTypedNext DEF Rebind
  <2>2. QED
    BY <1>1, <1>d, <2>1 DEF Rebind
<1>2. ASSUME NEW i \in Invites, CancelDispatchInvitation(i) PROVE CoverInv'
  <2>1. invitation[i].status = "invited"
    BY <1>2 DEF CancelDispatchInvitation, Cancellable
  <2>2. told[i] \cap Answers = {}
    BY <1>a, <1>c, <2>1
  <2>3. /\ invitation' = [invitation EXCEPT ![i].status = "cancelled"]
        /\ told' = [told EXCEPT ![i] = @ \cup {"cancelled"}] /\ UNCHANGED <<post, leave, errand>>
    BY <1>2 DEF CancelDispatchInvitation
  <2>4. [invitation[i] EXCEPT !.status = "cancelled"] \in InviteRows
    BY <1>0 DEF InviteRows
  <2>5. CoverTypeOK'
    BY <1>0, <2>3, <2>4, CoverTypedNext
  <2>6. told'[i] \cap Answers = {}
    BY <1>0, <1>c, <2>2, <2>3
  <2>7. QED
    BY <1>0, <1>d, <2>3, <2>5, <2>6
<1>3. ASSUME NEW i \in Invites, NEW w \in Wardens, NEW h \in Houses, CreateDispatchInvitation(i, w, h)
      PROVE  CoverInv'
  <2>1. told[i] \cap Answers = {}
    BY <1>3, <1>a, <1>c DEF CreateDispatchInvitation, NoInvite
  <2>2. [to |-> w, of |-> h, status |-> "invited"] \in InviteRows
    BY DEF InviteRows
  <2>3. CoverTypeOK'
    BY <1>0, <1>3, <2>2, CoverTypedNext DEF CreateDispatchInvitation
  <2>4. QED
    BY <1>0, <1>3, <1>d, <2>1, <2>3 DEF CreateDispatchInvitation
<1>4. ASSUME NEW e \in Errands, NEW i \in Invites, NEW answer \in Answers, RespondRead(e, i, answer)
      PROVE  CoverInv'
  <2>1. [on |-> i, answer |-> answer] \in ErrandRows
    BY DEF ErrandRows
  <2>2. CoverTypeOK'
    BY <1>0, <1>4, <2>1, CoverTypedNext DEF RespondRead
  <2>3. QED
    BY <1>0, <1>4, <1>d, <2>2 DEF RespondRead
<1>5. ASSUME NEW e \in Errands, RespondWrite(e) PROVE CoverInv'
  <2> DEFINE i == errand[e].on
             a == errand[e].answer
  <2>1. i \in Invites /\ a \in Answers
    BY <1>0, <1>5, <1>b DEF RespondWrite, ErrandRows
  <2>2. /\ invitation' = [invitation EXCEPT ![i].status = a]
        /\ told' = [told EXCEPT ![i] = @ \cup {a}]
        /\ errand' = [errand EXCEPT ![e] = NoErrand]
        /\ UNCHANGED <<post, leave>>
    BY <1>5 DEF RespondWrite
  <2> HIDE DEF i, a
  <2>3. [invitation[i] EXCEPT !.status = a] \in InviteRows
    BY <1>0, <2>1 DEF InviteRows
  <2>4. NoErrand \in ErrandRows /\ NoErrand.on = "none"
    BY DEF NoErrand, ErrandRows
  <2>5. CoverTypeOK'
    BY <1>0, <2>1, <2>2, <2>3, <2>4, CoverTypedNext
  <2>6. invitation'[i].status = a /\ told'[i] = told[i] \cup {a}
    <3>1. invitation[i] \in InviteRows
      BY <1>0, <2>1
    <3>2. QED
      BY <1>0, <2>1, <2>2, <3>1 DEF InviteRows
  <2>7. \A j \in Invites : j # i => invitation'[j] = invitation[j] /\ told'[j] = told[j]
    BY <1>0, <2>2
  <2>8. \A j \in Invites : \/ invitation'[j].status = invitation[j].status /\ told'[j] = told[j]
                           \/ invitation'[j].status \in told'[j] \cap Answers
    BY <2>1, <2>6, <2>7
  <2>9. \A x \in Errands : errand'[x] = errand[x] \/ errand'[x].on = "none"
    BY <1>0, <2>2, <2>4
  <2>10. QED
    BY <1>d, <2>5, <2>8, <2>9
<1>6. ASSUME NEW l \in LeaveRows, CancelLeave(l) PROVE CoverInv'
  <2>1. [leave[l] EXCEPT !.status = "cancelled"] \in LeaveShapes
    BY <1>0 DEF LeaveShapes
  <2>2. CoverTypeOK'
    BY <1>0, <1>6, <2>1, CoverTypedNext DEF CancelLeave
  <2>3. QED
    BY <1>6, <1>d, <2>2 DEF CancelLeave
<1>7. ASSUME NEW l \in LeaveRows, NEW w \in Wardens, NEW s \in Wardens \cup {"none"}, CreateLeave(l, w, s)
      PROVE  CoverInv'
  <2>1. [by |-> w, substitute |-> s, status |-> "pending"] \in LeaveShapes
    BY DEF LeaveShapes
  <2>2. CoverTypeOK'
    BY <1>0, <1>7, <2>1, CoverTypedNext DEF CreateLeave
  <2>3. QED
    BY <1>7, <1>d, <2>2 DEF CreateLeave
<1>8. CASE UNCHANGED coverVars
  <2>1. CoverTypeOK'
    BY <1>0, <1>8, CoverTypedNext DEF coverVars
  <2>2. QED
    BY <1>8, <1>d, <2>1 DEF coverVars
<1>9. QED
  BY <1>1, <1>2, <1>3, <1>4, <1>5, <1>6, <1>7, <1>8 DEF CoverNext

LEMMA CoverInvariant == CoverSpec => []CoverInv
BY CoverBegins, CoverStep, PTL DEF CoverSpec

-----------------------------------------------------------------------------
(* Workforce: managers of buildings and candidates                         *)

StaffRows == [status : {"absent", "online", "paused", "deleted"}, role : Duties, building : Places, no : Nat,
              dismissed : BOOLEAN]
ApplicationRows == [status : {"none", "pending", "interviewing", "approved", "rejected"},
                    building : Places, staff : Staffs \cup {"none"}]
Decisions == {"interview", "reject", "approve"}
SeatRows == [pc : {"idle", "create", "edit", "delete", "interview", "reject", "approve"},
             on : Staffs \cup {"none"}, app : Applied \cup {0},
             role : Duties \cup {"keep"}, building : Places \cup {"keep"}, no : Nat]
FormRows == [pc : {"idle", "apply", "amend"}, app : Applied \cup {0}]

\* What a request is about is there.
SeatOfSomething(w) == /\ w.pc = "create" => w.role \in Duties /\ w.building \in Places
                      /\ w.pc \in {"edit", "delete"} => w.on \in Staffs
                      /\ w.pc \in Decisions => w.app \in Applied
StaffSound == /\ StaffTypeOK /\ \A c \in StaffClerks : SeatOfSomething(seat[c])
              /\ \A s \in Staffs : staff[s].status = "deleted" => staff[s].dismissed

\* Another manager in service there whom no clerk has deleted.
InPost(s, b) == Manages(s, b) /\ ~staff[s].dismissed
RivalIn(s, b) == \E t \in Staffs \ {s} : InPost(t, b)

\* The role and the building an edit leads to.
RoleAfter(w) == IF w.role = "keep" THEN staff[w.on].role ELSE w.role
BuildingAfter(w) == IF w.building = "keep" THEN staff[w.on].building ELSE w.building

\* With one clerk, what it read of the managers still holds when it writes.
Vacancy(w) == /\ w.pc = "create" /\ w.role = "manager" => ~RivalIn("none", w.building)
              /\ w.pc = "edit" /\ RoleAfter(w) = "manager" /\ BuildingAfter(w) \in Buildings
                   /\ ~staff[w.on].dismissed => ~RivalIn(w.on, BuildingAfter(w))
Vacancies == \A c \in StaffClerks : Vacancy(seat[c])

\* With one clerk and one form, one application at most is open or approved;
\* a decision is about an open one, and a new application follows none.
OneInTheWay ==
  /\ \A a, b \in Applied : application[a].status \in InTheWay /\ application[b].status \in InTheWay => a = b
  /\ \A a \in Applied : application[a].staff # "none" => application[a].status = "approved"
  /\ \A c \in StaffClerks : seat[c].pc \in Decisions => application[seat[c].app].status \in OpenOnly
  /\ \A f \in Forms : form[f].pc = "apply" => \A a \in Applied : application[a].status \notin InTheWay

LEMMA StaffTyped ==
  StaffTypeOK <=> /\ staff \in [Staffs -> StaffRows] /\ application \in [Applied -> ApplicationRows]
                  /\ seat \in [StaffClerks -> SeatRows] /\ form \in [Forms -> FormRows]
BY DEF StaffTypeOK, StaffRows, ApplicationRows, SeatRows, FormRows

LEMMA StaffTypedNext ==
  StaffTypeOK' <=> /\ staff' \in [Staffs -> StaffRows] /\ application' \in [Applied -> ApplicationRows]
                   /\ seat' \in [StaffClerks -> SeatRows] /\ form' \in [Forms -> FormRows]
BY DEF StaffTypeOK, StaffRows, ApplicationRows, SeatRows, FormRows

LEMMA NoStaffRows ==
  /\ NoStaff \in StaffRows /\ NoApplication \in ApplicationRows /\ NoTask \in SeatRows /\ Blank \in FormRows
  /\ NoTask.pc = "idle" /\ Blank.pc = "idle" /\ NoApplication.status = "none" /\ NoApplication.staff = "none"
  /\ NoStaff.status = "absent"
BY DEF NoStaff, StaffRows, NoApplication, ApplicationRows, NoTask, SeatRows, Blank, FormRows, Places, Duties

LEMMA NextNoType ==
  ASSUME staff \in [Staffs -> StaffRows]
  PROVE  NextNo \in Nat
<1>1. Numbered \subseteq Nat
  BY DEF Numbered, StaffRows
<1>2. IsFiniteSet(Numbered)
  <2>1. IsFiniteSet({staff[s].no : s \in Staffs})
    <3> DEFINE f == [s \in Staffs |-> staff[s].no]
               T == {staff[s].no : s \in Staffs}
    <3>1. f \in Surjection(Staffs, T)
      BY DEF Surjection
    <3> HIDE DEF f, T
    <3>2. IsFiniteSet(T)
      BY <3>1, StaffAssumption, FS_Surjection
    <3>3. QED
      BY <3>2 DEF T
  <2>2. QED
    BY <2>1, FS_Subset DEF Numbered
<1>3. CASE Numbered = {}
  BY <1>3 DEF NextNo
<1>4. CASE Numbered # {}
  <2> DEFINE f == [n \in Numbered |-> TextRank(n)]
  <2>1. \A n \in Numbered : f[n] \in Int
    BY <1>1 DEF TextRank
  <2>2. \E n \in Numbered : \A k \in Numbered : f[k] <= f[n]
    <3> HIDE DEF f
    <3>1. QED
      BY <1>2, <1>4, <2>1, Greatest
  <2>3. \E n \in Numbered : \A k \in Numbered : TextRank(k) <= TextRank(n)
    BY <2>2
  <2>4. LastNo \in Numbered
    BY <2>3 DEF LastNo
  <2>5. QED
    BY <1>1, <1>4, <2>4 DEF NextNo
<1>5. QED
  BY <1>3, <1>4

LEMMA StaffBegins == StaffInit => StaffSound /\ OneAppointed /\ Vacancies /\ OneInTheWay
<1> SUFFICES ASSUME StaffInit PROVE StaffSound /\ OneAppointed /\ Vacancies /\ OneInTheWay
  OBVIOUS
<1>1. StaffTypeOK
  BY NoStaffRows, StaffTyped DEF StaffInit
<1>2. StaffSound
  BY <1>1, NoStaffRows DEF StaffSound, StaffInit, SeatOfSomething, Decisions
<1>3. OneAppointed
  BY NoStaffRows DEF StaffInit, OneAppointed, Manages, Employed
<1>4. Vacancies
  BY NoStaffRows DEF StaffInit, Vacancies, Vacancy
<1>5. OneInTheWay
  BY NoStaffRows DEF StaffInit, OneInTheWay, InTheWay, Decisions
<1>6. QED
  BY <1>2, <1>3, <1>4, <1>5

LEMMA StaffSoundStep ==
  ASSUME StaffSound, [StaffNext]_staffVars
  PROVE  StaffSound'
<1>0. /\ staff \in [Staffs -> StaffRows] /\ application \in [Applied -> ApplicationRows]
      /\ seat \in [StaffClerks -> SeatRows] /\ form \in [Forms -> FormRows]
      /\ \A c \in StaffClerks : SeatOfSomething(seat[c])
  BY StaffTyped DEF StaffSound
<1>a. ASSUME NEW c \in StaffClerks, NEW w \in SeatRows, SeatOfSomething(w), seat' = [seat EXCEPT ![c] = w]
      PROVE  seat' \in [StaffClerks -> SeatRows] /\ \A x \in StaffClerks : SeatOfSomething(seat[x])'
  <2>1. \A x \in StaffClerks : seat'[x] = seat[x] \/ seat'[x] = w
    BY <1>0, <1>a
  <2>2. \A x \in StaffClerks : SeatOfSomething(seat[x])' = SeatOfSomething(seat'[x])
    BY DEF SeatOfSomething
  <2>3. QED
    BY <1>0, <1>a, <2>1, <2>2
<1>b. ASSUME NEW c \in StaffClerks, Finish(c)
      PROVE  seat' \in [StaffClerks -> SeatRows] /\ \A x \in StaffClerks : SeatOfSomething(seat[x])'
  <2>1. SeatOfSomething(NoTask)
    BY NoStaffRows DEF SeatOfSomething, Decisions
  <2>2. QED
    BY <1>b, <1>a, <2>1, NoStaffRows DEF Finish
<1>c. ASSUME UNCHANGED seat
      PROVE  seat' \in [StaffClerks -> SeatRows] /\ \A x \in StaffClerks : SeatOfSomething(seat[x])'
  BY <1>0, <1>c DEF SeatOfSomething
<1>d. ASSUME seat' \in [StaffClerks -> SeatRows] /\ \A x \in StaffClerks : SeatOfSomething(seat[x])',
             staff' \in [Staffs -> StaffRows], application' \in [Applied -> ApplicationRows],
             form' \in [Forms -> FormRows],
             \A s \in Staffs : staff'[s].status = "deleted" => staff'[s].dismissed
      PROVE  StaffSound'
  BY <1>d, StaffTypedNext DEF StaffSound
<1>e. \A s \in Staffs : staff[s].status = "deleted" => staff[s].dismissed
  BY DEF StaffSound
\* A row that is written but by a deletion.
<1>f. ASSUME NEW s \in Staffs, NEW row, staff' = [staff EXCEPT ![s] = row],
             row.status = "deleted" => row.dismissed
      PROVE  \A t \in Staffs : staff'[t].status = "deleted" => staff'[t].dismissed
  BY <1>0, <1>e, <1>f
<1>1. ASSUME NEW c \in StaffClerks, NEW duty \in Duties, NEW b \in Places, NEW n \in HandNos,
             CreateCheck(c, duty, b, n)
      PROVE  StaffSound'
  <2> DEFINE w == [NoTask EXCEPT !.pc = "create", !.role = duty, !.building = b, !.no = n]
  <2>1. n \in Nat
    <3>1. n \in 1..9999
      BY StaffAssumption
    <3>2. QED
      BY <3>1
  <2>2. w \in SeatRows /\ w.pc = "create" /\ w.role = duty /\ w.building = b
    BY <2>1 DEF NoTask, SeatRows
  <2>3. seat' = [seat EXCEPT ![c] = w] /\ UNCHANGED <<staff, application, form>>
    BY <1>1 DEF CreateCheck, Begin
  <2> HIDE DEF w
  <2>4. SeatOfSomething(w)
    BY <2>2 DEF SeatOfSomething, Decisions
  <2>5. QED
    BY <1>0, <1>a, <1>d, <1>e, <2>2, <2>3, <2>4
<1>2. ASSUME NEW c \in StaffClerks, CreateWrite(c) PROVE StaffSound'
  <2>1. PICK s \in Staffs :
          staff' = IF seat[c].no \in Numbered THEN staff
                   ELSE [staff EXCEPT ![s] = [status |-> "online", role |-> seat[c].role,
                                              building |-> seat[c].building, no |-> seat[c].no,
                                              dismissed |-> FALSE]]
    BY <1>2 DEF CreateWrite
  <2>2. [status |-> "online", role |-> seat[c].role, building |-> seat[c].building, no |-> seat[c].no,
                                              dismissed |-> FALSE] \in StaffRows
    <3>1. seat[c].role \in Duties /\ seat[c].building \in Places
      BY <1>0, <1>2 DEF CreateWrite, SeatOfSomething
    <3>2. seat[c].no \in Nat
      BY <1>0 DEF SeatRows
    <3>3. QED
      BY <3>1, <3>2 DEF StaffRows
  <2>3. staff' \in [Staffs -> StaffRows]
    BY <1>0, <2>1, <2>2
  <2>4. \A t \in Staffs : staff'[t].status = "deleted" => staff'[t].dismissed
    BY <1>e, <1>f, <2>1
  <2>5. QED
    BY <1>0, <1>2, <1>b, <1>d, <2>3, <2>4 DEF CreateWrite
<1>3. ASSUME NEW c \in StaffClerks, NEW s \in Staffs, NEW duty \in Duties \cup {"keep"},
             NEW b \in Places \cup {"keep"}, EditCheck(c, s, duty, b)
      PROVE  StaffSound'
  <2>1. PICK b2 \in Places \cup {"keep"} :
          /\ seat' = [seat EXCEPT ![c] = [NoTask EXCEPT !.pc = "edit", !.on = s, !.role = duty, !.building = b2]]
          /\ UNCHANGED <<staff, application, form>>
    <3>1. "none" \in Places
      BY DEF Places
    <3>2. QED
      BY <1>3, <3>1 DEF EditCheck, Begin
  <2> DEFINE w == [NoTask EXCEPT !.pc = "edit", !.on = s, !.role = duty, !.building = b2]
  <2>2. w \in SeatRows /\ w.pc = "edit" /\ w.on = s
    BY DEF NoTask, SeatRows
  <2>3. seat' = [seat EXCEPT ![c] = w]
    BY <2>1
  <2> HIDE DEF w
  <2>4. SeatOfSomething(w)
    BY <2>2 DEF SeatOfSomething, Decisions
  <2>5. QED
    BY <1>0, <1>a, <1>d, <1>e, <2>1, <2>2, <2>3, <2>4
<1>4. ASSUME NEW c \in StaffClerks, EditWrite(c) PROVE StaffSound'
  <2> DEFINE w == seat[c]
  <2>1. w.on \in Staffs /\ w.role \in Duties \cup {"keep"} /\ w.building \in Places \cup {"keep"}
    <3>1. w.on \in Staffs
      BY <1>0, <1>4 DEF EditWrite, SeatOfSomething
    <3>2. QED
      BY <1>0, <3>1 DEF SeatRows
  <2> DEFINE row == [staff[w.on] EXCEPT !.role = RoleAfter(w), !.building = BuildingAfter(w)]
  <2>2. row \in StaffRows /\ (row.status = "deleted" => row.dismissed)
    BY <1>0, <1>e, <2>1 DEF StaffRows, RoleAfter, BuildingAfter
  <2>3. staff' = [staff EXCEPT ![w.on] = row]
    BY <1>0, <1>4, <2>1 DEF EditWrite, RoleAfter, BuildingAfter, StaffRows
  <2> HIDE DEF row
  <2>4. staff' \in [Staffs -> StaffRows]
    BY <1>0, <2>2, <2>3
  <2>5. \A t \in Staffs : staff'[t].status = "deleted" => staff'[t].dismissed
    BY <1>f, <2>1, <2>2, <2>3
  <2>6. QED
    BY <1>0, <1>4, <1>b, <1>d, <2>4, <2>5 DEF EditWrite
<1>5. ASSUME NEW c \in StaffClerks, NEW s \in Staffs, DeleteCheck(c, s) PROVE StaffSound'
  <2> DEFINE w == [NoTask EXCEPT !.pc = "delete", !.on = s]
  <2>1. w \in SeatRows /\ w.pc = "delete" /\ w.on = s
    BY DEF NoTask, SeatRows
  <2>2. seat' = [seat EXCEPT ![c] = w] /\ UNCHANGED <<staff, application, form>>
    BY <1>5 DEF DeleteCheck, Begin
  <2> HIDE DEF w
  <2>3. SeatOfSomething(w)
    BY <2>1 DEF SeatOfSomething, Decisions
  <2>4. QED
    BY <1>0, <1>a, <1>d, <1>e, <2>1, <2>2, <2>3
<1>6. ASSUME NEW c \in StaffClerks, DeleteWrite(c) PROVE StaffSound'
  <2>1. seat[c].on \in Staffs
    BY <1>0, <1>6 DEF DeleteWrite, SeatOfSomething
  <2> DEFINE row == [staff[seat[c].on] EXCEPT !.status = "deleted", !.dismissed = TRUE]
  <2>2. row \in StaffRows /\ row.dismissed /\ staff' = [staff EXCEPT ![seat[c].on] = row]
    BY <1>0, <1>6, <2>1 DEF DeleteWrite, StaffRows
  <2> HIDE DEF row
  <2>3. staff' \in [Staffs -> StaffRows]
    BY <1>0, <2>1, <2>2
  <2>4. \A t \in Staffs : staff'[t].status = "deleted" => staff'[t].dismissed
    BY <1>f, <2>1, <2>2
  <2>5. QED
    BY <1>0, <1>6, <1>b, <1>d, <2>3, <2>4 DEF DeleteWrite
<1>7. ASSUME NEW s \in Staffs, SetOwnStatus(s) PROVE StaffSound'
  <2>1. PICK status \in {"online", "paused"} : staff' = [staff EXCEPT ![s].status = status]
    BY <1>7 DEF SetOwnStatus
  <2> DEFINE row == [staff[s] EXCEPT !.status = status]
  <2>2. row \in StaffRows /\ row.status # "deleted" /\ staff' = [staff EXCEPT ![s] = row]
    BY <1>0, <2>1 DEF StaffRows
  <2> HIDE DEF row
  <2>3. staff' \in [Staffs -> StaffRows]
    BY <1>0, <2>2
  <2>4. \A t \in Staffs : staff'[t].status = "deleted" => staff'[t].dismissed
    BY <1>f, <2>2
  <2>5. QED
    BY <1>0, <1>7, <1>c, <1>d, <2>3, <2>4 DEF SetOwnStatus
<1>8. ASSUME NEW f \in Forms, ApplyRead(f) PROVE StaffSound'
  <2>1. [form[f] EXCEPT !.pc = "apply"] \in FormRows
    BY <1>0 DEF FormRows
  <2>2. form' \in [Forms -> FormRows]
    BY <1>0, <1>8, <2>1 DEF ApplyRead
  <2>3. QED
    BY <1>0, <1>8, <1>c, <1>d, <1>e, <2>2 DEF ApplyRead
<1>9. ASSUME NEW f \in Forms, NEW b \in Buildings, ApplyWrite(f, b) PROVE StaffSound'
  <2>1. [status |-> "pending", building |-> b, staff |-> "none"] \in ApplicationRows
    BY DEF ApplicationRows, Places
  <2>2. application' \in [Applied -> ApplicationRows]
    BY <1>0, <1>9, <2>1 DEF ApplyWrite
  <2>3. form' \in [Forms -> FormRows]
    BY <1>0, <1>9, NoStaffRows DEF ApplyWrite
  <2>4. QED
    BY <1>0, <1>9, <1>c, <1>d, <1>e, <2>2, <2>3 DEF ApplyWrite
<1>10. ASSUME NEW f \in Forms, AmendRead(f) PROVE StaffSound'
  <2>1. PICK a \in Applied : form' = [form EXCEPT ![f] = [pc |-> "amend", app |-> a]]
    BY <1>10 DEF AmendRead
  <2>2. [pc |-> "amend", app |-> a] \in FormRows
    BY DEF FormRows
  <2>3. form' \in [Forms -> FormRows]
    BY <1>0, <2>1, <2>2
  <2>4. QED
    BY <1>0, <1>10, <1>c, <1>d, <1>e, <2>3 DEF AmendRead
<1>11. ASSUME NEW f \in Forms, NEW b \in Buildings, AmendWrite(f, b) PROVE StaffSound'
  <2>1. \A a \in Applied : [application[a] EXCEPT !.building = b] \in ApplicationRows
    BY <1>0 DEF ApplicationRows, Places
  <2>2. application' = [application EXCEPT ![form[f].app].building = b]
    BY <1>11 DEF AmendWrite
  <2>3. application' \in [Applied -> ApplicationRows]
    <3>1. CASE form[f].app \in Applied
      BY <1>0, <2>1, <2>2, <3>1
    <3>2. CASE form[f].app \notin Applied
      BY <1>0, <2>2, <3>2
    <3>3. QED
      BY <3>1, <3>2
  <2>4. form' \in [Forms -> FormRows]
    BY <1>0, <1>11, NoStaffRows DEF AmendWrite
  <2>5. QED
    BY <1>0, <1>11, <1>c, <1>d, <1>e, <2>3, <2>4 DEF AmendWrite
<1>12. ASSUME NEW c \in StaffClerks, NEW a \in Applied, NEW d \in Decisions, DecisionRead(c, a, d) PROVE StaffSound'
  <2> DEFINE w == [NoTask EXCEPT !.pc = d, !.app = a]
  <2>1. w \in SeatRows /\ w.pc = d /\ w.app = a
    BY DEF NoTask, SeatRows, Decisions
  <2>2. seat' = [seat EXCEPT ![c] = w] /\ UNCHANGED <<staff, application, form>>
    BY <1>12 DEF DecisionRead, Begin
  <2> HIDE DEF w
  <2>3. SeatOfSomething(w)
    BY <2>1 DEF SeatOfSomething, Decisions
  <2>4. QED
    BY <1>0, <1>a, <1>d, <1>e, <2>1, <2>2, <2>3
<1>13. ASSUME NEW c \in StaffClerks, InterviewWrite(c) \/ RejectWrite(c) PROVE StaffSound'
  <2>1. seat[c].app \in Applied
    BY <1>0, <1>13 DEF InterviewWrite, RejectWrite, SeatOfSomething, Decisions
  <2>2. /\ [application[seat[c].app] EXCEPT !.status = "interviewing"] \in ApplicationRows
        /\ [application[seat[c].app] EXCEPT !.status = "rejected"] \in ApplicationRows
    BY <1>0, <2>1 DEF ApplicationRows
  <2>3. application' \in [Applied -> ApplicationRows]
    BY <1>0, <1>13, <2>1, <2>2 DEF InterviewWrite, RejectWrite
  <2>4. QED
    BY <1>0, <1>13, <1>b, <1>d, <1>e, <2>3 DEF InterviewWrite, RejectWrite
<1>14. ASSUME NEW c \in StaffClerks, ApproveWrite(c) PROVE StaffSound'
  <2> DEFINE a == seat[c].app
  <2>1. a \in Applied
    BY <1>0, <1>14 DEF ApproveWrite, SeatOfSomething, Decisions
  <2>2. PICK s \in Staffs :
          IF NextNo \in Numbered THEN UNCHANGED <<staff, application>>
          ELSE /\ staff' = [staff EXCEPT ![s] = [status |-> "online", role |-> "intern",
                                                 building |-> application[a].building, no |-> NextNo,
                                                 dismissed |-> FALSE]]
               /\ application' = [application EXCEPT ![a].status = "approved", ![a].staff = s]
    BY <1>14 DEF ApproveWrite
  <2>3. [status |-> "online", role |-> "intern", building |-> application[a].building, no |-> NextNo,
                                                 dismissed |-> FALSE] \in StaffRows
    <3>1. application[a].building \in Places
      BY <1>0, <2>1 DEF ApplicationRows
    <3>2. QED
      BY <1>0, <3>1, NextNoType DEF StaffRows, Duties
  <2>4. [application[a] EXCEPT !.status = "approved", !.staff = s] \in ApplicationRows
    BY <1>0, <2>1 DEF ApplicationRows
  <2> HIDE DEF a
  <2>5. staff' \in [Staffs -> StaffRows]
    BY <1>0, <2>2, <2>3
  <2>6. application' \in [Applied -> ApplicationRows]
    <3>1. CASE application' = application
      BY <1>0, <3>1
    <3>2. CASE application' = [application EXCEPT ![a].status = "approved", ![a].staff = s]
      <4>1. application' = [application EXCEPT ![a] = [application[a] EXCEPT !.status = "approved", !.staff = s]]
        BY <1>0, <2>1, <3>2 DEF ApplicationRows
      <4>2. QED
        BY <1>0, <2>4, <4>1
    <3>3. QED
      BY <2>2, <3>1, <3>2
  <2>7. \A t \in Staffs : staff'[t].status = "deleted" => staff'[t].dismissed
    BY <1>e, <1>f, <2>2
  <2>8. QED
    BY <1>0, <1>14, <1>b, <1>d, <2>5, <2>6, <2>7 DEF ApproveWrite
<1>15. CASE UNCHANGED staffVars
  BY <1>0, <1>15, <1>c, <1>d, <1>e DEF staffVars
<1>16. QED
  BY <1>1, <1>2, <1>3, <1>4, <1>5, <1>6, <1>7, <1>8, <1>9, <1>10, <1>11, <1>12, <1>13, <1>14, <1>15
  DEF StaffNext, Decisions

\* One clerk works at a time, who is the only one to change who manages what;
\* those who come back after a deletion do not count.
LEMMA ManagersStep ==
  ASSUME StaffSound, OneAppointed, Vacancies, [StaffNext]_staffVars,
         \A c, d \in StaffClerks : c = d
  PROVE  OneAppointed' /\ Vacancies'
<1>0. /\ staff \in [Staffs -> StaffRows] /\ application \in [Applied -> ApplicationRows]
      /\ seat \in [StaffClerks -> SeatRows] /\ form \in [Forms -> FormRows]
      /\ \A c \in StaffClerks : SeatOfSomething(seat[c])
  BY StaffTyped DEF StaffSound
\* A step that leaves who is employed where.
<1>a. ASSUME UNCHANGED staff PROVE OneAppointed'
  BY <1>a DEF OneAppointed, Manages, Employed
<1>b. ASSUME UNCHANGED staff,
             \A c \in StaffClerks : seat'[c] = seat[c] \/ Vacancy(seat'[c])
      PROVE  Vacancies'
  <2>1. \A c \in StaffClerks : Vacancy(seat[c])' = Vacancy(seat'[c])
    BY <1>b DEF Vacancy, RivalIn, InPost, Manages, RoleAfter, BuildingAfter, Employed
  <2>2. QED
    BY <1>b, <2>1 DEF Vacancies
\* The only clerk has nothing in hand.
<1>c. ASSUME NEW c \in StaffClerks, seat'[c].pc \notin {"create", "edit"} PROVE Vacancies'
  BY <1>c DEF Vacancies, Vacancy
<1>d. ASSUME NEW c \in StaffClerks, Finish(c) PROVE seat'[c].pc = "idle"
  BY <1>0, <1>d, NoStaffRows DEF Finish
\* A row that is written leaves one manager when it is not a manager's, when
\* it was deleted before, or when nobody else manages the building.
<1>e. ASSUME NEW s \in Staffs, \A t \in Staffs \ {s} : staff'[t] = staff[t],
             staff'[s].status \notin {"absent", "deleted"} /\ staff'[s].role = "manager"
               /\ staff'[s].building \in Buildings /\ ~staff'[s].dismissed => ~RivalIn(s, staff'[s].building)
      PROVE  OneAppointed'
  <2>1. \A t \in Staffs \ {s}, b \in Buildings : InPost(t, b)' <=> InPost(t, b)
    BY <1>e DEF InPost, Manages, Employed
  <2>2. \A b \in Buildings : InPost(s, b)' => ~RivalIn(s, b)
    BY <1>e DEF InPost, Manages, Employed
  <2>3. ASSUME NEW x \in Staffs, NEW y \in Staffs, NEW b \in Buildings, InPost(x, b)', InPost(y, b)'
        PROVE  x = y
    <3>1. CASE x = s \/ y = s
      BY <2>1, <2>2, <2>3, <3>1 DEF RivalIn
    <3>2. CASE x # s /\ y # s
      BY <2>1, <2>3, <3>2 DEF OneAppointed, InPost
    <3>3. QED
      BY <3>1, <3>2
  <2>4. QED
    BY <2>3 DEF OneAppointed, InPost
\* Where no manager is in service, no rival is.
<1>f. \A s, b : ~ManagerElse(s, b) => ~RivalIn(s, b)
  BY DEF ManagerElse, RivalIn, InPost, Manages
<1>1. ASSUME NEW c \in StaffClerks, NEW duty \in Duties, NEW b \in Places, NEW n \in HandNos,
             CreateCheck(c, duty, b, n)
      PROVE  OneAppointed' /\ Vacancies'
  <2> DEFINE w == [NoTask EXCEPT !.pc = "create", !.role = duty, !.building = b, !.no = n]
  <2>1. w.pc = "create" /\ w.role = duty /\ w.building = b
    BY DEF NoTask
  <2>2. seat' = [seat EXCEPT ![c] = w] /\ UNCHANGED staff /\ (duty = "manager" => ~ManagerElse("none", b))
    BY <1>1 DEF CreateCheck, Begin
  <2> HIDE DEF w
  <2>3. Vacancy(w)
    BY <1>f, <2>1, <2>2 DEF Vacancy
  <2>4. QED
    BY <1>0, <1>a, <1>b, <2>2, <2>3
<1>2. ASSUME NEW c \in StaffClerks, CreateWrite(c) PROVE OneAppointed' /\ Vacancies'
  <2>1. Vacancies'
    BY <1>2, <1>c, <1>d DEF CreateWrite
  <2>2. PICK s \in Staffs :
          /\ staff[s].status = "absent"
          /\ staff' = IF seat[c].no \in Numbered THEN staff
                      ELSE [staff EXCEPT ![s] = [status |-> "online", role |-> seat[c].role,
                                                 building |-> seat[c].building, no |-> seat[c].no,
                                              dismissed |-> FALSE]]
    BY <1>2 DEF CreateWrite
  <2>3. CASE UNCHANGED staff
    BY <1>a, <2>1, <2>3
  <2>4. CASE staff' = [staff EXCEPT ![s] = [status |-> "online", role |-> seat[c].role,
                                            building |-> seat[c].building, no |-> seat[c].no,
                                              dismissed |-> FALSE]]
    <3>1. /\ staff'[s].role = seat[c].role /\ staff'[s].building = seat[c].building
          /\ \A t \in Staffs \ {s} : staff'[t] = staff[t]
      BY <1>0, <2>4
    <3>2. seat[c].role = "manager" => ~RivalIn("none", seat[c].building)
      BY <1>2 DEF Vacancies, Vacancy, CreateWrite
    <3>3. \A b : ~RivalIn("none", b) => ~RivalIn(s, b)
      BY StaffAssumption DEF RivalIn
    <3>4. OneAppointed'
      BY <1>e, <3>1, <3>2, <3>3
    <3>5. QED
      BY <2>1, <3>4
  <2>5. QED
    BY <2>2, <2>3, <2>4
<1>3. ASSUME NEW c \in StaffClerks, NEW s \in Staffs, NEW duty \in Duties \cup {"keep"},
             NEW b \in Places \cup {"keep"}, EditCheck(c, s, duty, b)
      PROVE  OneAppointed' /\ Vacancies'
  <2> DEFINE newRole == IF duty = "keep" THEN staff[s].role ELSE duty
             newBuilding == IF b = "keep" THEN staff[s].building ELSE b
             b2 == IF newRole = "rider" /\ b = "keep" THEN "none" ELSE b
             w == [NoTask EXCEPT !.pc = "edit", !.on = s, !.role = duty, !.building = b2]
  <2>1. w.pc = "edit" /\ w.on = s /\ w.role = duty /\ w.building = b2
    BY DEF NoTask
  <2>2. /\ seat' = [seat EXCEPT ![c] = w] /\ UNCHANGED staff /\ Employed(s)
        /\ NeedsCheck(s, newRole, newBuilding) => ~ManagerElse(s, newBuilding)
    BY <1>3 DEF EditCheck, Begin
  <2>3. RoleAfter(w) = newRole /\ (newRole = "manager" => BuildingAfter(w) = newBuilding)
    BY <2>1 DEF RoleAfter, BuildingAfter
  <2> HIDE DEF w, newRole, newBuilding
  <2>4. newRole = "manager" /\ newBuilding \in Buildings /\ ~staff[s].dismissed => ~RivalIn(s, newBuilding)
    <3>1. CASE NeedsCheck(s, newRole, newBuilding)
      BY <1>f, <2>2, <3>1
    <3>2. CASE ~NeedsCheck(s, newRole, newBuilding)
      <4>1. newRole = "manager" /\ newBuilding \in Buildings => Manages(s, newBuilding)
        BY StaffAssumption, <2>2, <3>2 DEF NeedsCheck, Manages
      <4>2. QED
        BY <4>1 DEF OneAppointed, RivalIn, InPost
    <3>3. QED
      BY <3>1, <3>2
  <2>5. Vacancy(w)
    BY <2>1, <2>3, <2>4 DEF Vacancy
  <2>6. QED
    BY <1>0, <1>a, <1>b, <2>2, <2>5
<1>4. ASSUME NEW c \in StaffClerks, EditWrite(c) PROVE OneAppointed' /\ Vacancies'
  <2> DEFINE w == seat[c]
  <2>1. Vacancies'
    BY <1>4, <1>c, <1>d DEF EditWrite
  <2>2. w.on \in Staffs /\ w.pc = "edit"
    BY <1>0, <1>4 DEF EditWrite, SeatOfSomething
  <2>3. /\ staff'[w.on].role = RoleAfter(w) /\ staff'[w.on].building = BuildingAfter(w)
        /\ staff'[w.on].dismissed = staff[w.on].dismissed
        /\ \A t \in Staffs \ {w.on} : staff'[t] = staff[t]
    BY <1>0, <1>4, <2>2 DEF EditWrite, RoleAfter, BuildingAfter, StaffRows
  <2>4. RoleAfter(w) = "manager" /\ BuildingAfter(w) \in Buildings /\ ~staff[w.on].dismissed
        => ~RivalIn(w.on, BuildingAfter(w))
    BY <2>2 DEF Vacancies, Vacancy
  <2>5. OneAppointed'
    BY <1>e, <2>2, <2>3, <2>4
  <2>6. QED
    BY <2>1, <2>5
<1>5. ASSUME NEW c \in StaffClerks, NEW s \in Staffs, DeleteCheck(c, s) PROVE OneAppointed' /\ Vacancies'
  <2> DEFINE w == [NoTask EXCEPT !.pc = "delete", !.on = s]
  <2>1. w.pc = "delete"
    BY DEF NoTask
  <2>2. seat' = [seat EXCEPT ![c] = w] /\ UNCHANGED staff
    BY <1>5 DEF DeleteCheck, Begin
  <2> HIDE DEF w
  <2>3. seat'[c] = w
    BY <1>0, <2>2
  <2>4. QED
    BY <1>a, <1>c, <2>1, <2>2, <2>3
<1>6. ASSUME NEW c \in StaffClerks, DeleteWrite(c) PROVE OneAppointed' /\ Vacancies'
  <2>1. Vacancies'
    BY <1>6, <1>c, <1>d DEF DeleteWrite
  <2>2. seat[c].on \in Staffs
    BY <1>0, <1>6 DEF DeleteWrite, SeatOfSomething
  <2>3. staff'[seat[c].on].status = "deleted" /\ \A t \in Staffs \ {seat[c].on} : staff'[t] = staff[t]
    BY <1>0, <1>6, <2>2 DEF DeleteWrite, StaffRows
  <2>4. OneAppointed'
    BY <1>e, <2>2, <2>3
  <2>5. QED
    BY <2>1, <2>4
<1>7. ASSUME NEW s \in Staffs, SetOwnStatus(s) PROVE OneAppointed' /\ Vacancies'
  <2>1. staff[s].status # "absent" /\ UNCHANGED seat
    BY <1>7 DEF SetOwnStatus
  <2>2. PICK status \in {"online", "paused"} : staff' = [staff EXCEPT ![s].status = status]
    BY <1>7 DEF SetOwnStatus
  <2>3. \A t \in Staffs : /\ staff'[t].role = staff[t].role /\ staff'[t].building = staff[t].building
                          /\ staff'[t].dismissed = staff[t].dismissed
                          /\ staff'[t].status = staff[t].status \/ t = s
    BY <1>0, <2>2 DEF StaffRows
  <2>4. \A b : \A t \in Staffs : InPost(t, b)' => InPost(t, b)
    <3>1. staff[s].status = "deleted" => staff[s].dismissed
      BY DEF StaffSound
    <3>2. QED
      BY <2>1, <2>3, <3>1 DEF InPost, Manages, Employed
  <2>5. OneAppointed'
    BY <2>4 DEF OneAppointed, InPost
  <2>6. ASSUME NEW c \in StaffClerks PROVE Vacancy(seat[c])'
    <3>1. Vacancy(seat[c]) /\ SeatOfSomething(seat[c])
      BY <1>0 DEF Vacancies
    <3>2. seat[c].pc = "edit" => /\ RoleAfter(seat[c])' = RoleAfter(seat[c])
                                 /\ BuildingAfter(seat[c])' = BuildingAfter(seat[c])
                                 /\ staff'[seat[c].on].dismissed = staff[seat[c].on].dismissed
      BY <2>1, <2>3, <3>1 DEF RoleAfter, BuildingAfter, SeatOfSomething
    <3>3. ~RivalIn("none", seat[c].building) => ~RivalIn("none", seat[c].building)'
      BY <2>1, <2>4 DEF RivalIn
    <3>4. seat[c].pc = "edit" /\ ~RivalIn(seat[c].on, BuildingAfter(seat[c]))
          => ~RivalIn(seat[c].on, BuildingAfter(seat[c]))'
      BY <2>1, <2>4, <3>2 DEF RivalIn
    <3>5. QED
      BY <2>1, <3>1, <3>2, <3>3, <3>4 DEF Vacancy
  <2>7. QED
    BY <2>5, <2>6 DEF Vacancies
<1>8. ASSUME NEW c \in StaffClerks, NEW a \in Applied, NEW d \in Decisions, DecisionRead(c, a, d)
      PROVE OneAppointed' /\ Vacancies'
  <2> DEFINE w == [NoTask EXCEPT !.pc = d, !.app = a]
  <2>1. w.pc \notin {"create", "edit"}
    BY DEF NoTask, Decisions
  <2>2. seat' = [seat EXCEPT ![c] = w] /\ UNCHANGED staff
    BY <1>8 DEF DecisionRead, Begin
  <2> HIDE DEF w
  <2>3. seat'[c] = w
    BY <1>0, <2>2
  <2>4. QED
    BY <1>a, <1>c, <2>1, <2>2, <2>3
<1>9. ASSUME NEW c \in StaffClerks, InterviewWrite(c) \/ RejectWrite(c) PROVE OneAppointed' /\ Vacancies'
  BY <1>9, <1>a, <1>c, <1>d DEF InterviewWrite, RejectWrite
<1>10. ASSUME NEW c \in StaffClerks, ApproveWrite(c) PROVE OneAppointed' /\ Vacancies'
  <2>1. Vacancies'
    BY <1>10, <1>c, <1>d DEF ApproveWrite
  <2> DEFINE a == seat[c].app
  <2>2. PICK s \in Staffs :
          IF NextNo \in Numbered THEN UNCHANGED <<staff, application>>
          ELSE /\ staff' = [staff EXCEPT ![s] = [status |-> "online", role |-> "intern",
                                                 building |-> application[a].building, no |-> NextNo,
                                                 dismissed |-> FALSE]]
               /\ application' = [application EXCEPT ![a].status = "approved", ![a].staff = s]
    BY <1>10 DEF ApproveWrite
  <2>3. CASE UNCHANGED staff
    BY <1>a, <2>1, <2>3
  <2>4. CASE staff' = [staff EXCEPT ![s] = [status |-> "online", role |-> "intern",
                                            building |-> application[a].building, no |-> NextNo,
                                                 dismissed |-> FALSE]]
    <3>1. staff'[s].role = "intern" /\ \A t \in Staffs \ {s} : staff'[t] = staff[t]
      BY <1>0, <2>4
    <3>2. OneAppointed'
      BY <1>e, <3>1
    <3>3. QED
      BY <2>1, <3>2
  <2>5. QED
    BY <2>2, <2>3, <2>4
<1>11. CASE UNCHANGED <<staff, seat>>
  BY <1>11, <1>a, <1>b
<1>12. ASSUME NEW f \in Forms, ApplyRead(f) \/ AmendRead(f) \/ \E b \in Buildings : ApplyWrite(f, b) \/ AmendWrite(f, b)
       PROVE  OneAppointed' /\ Vacancies'
  BY <1>11, <1>12 DEF ApplyRead, AmendRead, ApplyWrite, AmendWrite
<1>13. CASE UNCHANGED staffVars
  BY <1>11, <1>13 DEF staffVars
<1>14. QED
  BY <1>1, <1>2, <1>3, <1>4, <1>5, <1>6, <1>7, <1>8, <1>9, <1>10, <1>12, <1>13 DEF StaffNext, Decisions

\* One clerk decides, on what the candidate's one form lets stand.
LEMMA CandidateStep ==
  ASSUME StaffSound, OneInTheWay, [StaffNext]_staffVars,
         \A c, d \in StaffClerks : c = d, \A f, g \in Forms : f = g
  PROVE  OneInTheWay'
<1>0. /\ staff \in [Staffs -> StaffRows] /\ application \in [Applied -> ApplicationRows]
      /\ seat \in [StaffClerks -> SeatRows] /\ form \in [Forms -> FormRows]
      /\ \A c \in StaffClerks : SeatOfSomething(seat[c])
  BY StaffTyped DEF StaffSound
<1>a. /\ \A a, b \in Applied : application[a].status \in InTheWay /\ application[b].status \in InTheWay => a = b
      /\ \A a \in Applied : application[a].staff # "none" => application[a].status = "approved"
      /\ \A c \in StaffClerks : seat[c].pc \in Decisions => application[seat[c].app].status \in OpenOnly
      /\ \A f \in Forms : form[f].pc = "apply" => \A a \in Applied : application[a].status \notin InTheWay
  BY DEF OneInTheWay
<1>b. OpenOnly \subseteq InTheWay /\ "approved" \in InTheWay /\ "rejected" \notin InTheWay /\ "none" \notin InTheWay
      /\ "idle" \notin Decisions /\ "pending" \in OpenOnly /\ "interviewing" \in OpenOnly /\ "approved" \notin OpenOnly
  BY DEF OpenOnly, InTheWay, Decisions
\* Nothing about applications.
<1>c. ASSUME \A a \in Applied : /\ application'[a].status = application[a].status
                                /\ application'[a].staff = application[a].staff,
             \A c \in StaffClerks : \/ seat'[c] = seat[c]
                                    \/ seat'[c].pc \notin Decisions
                                    \/ seat'[c].app \in Applied /\ application[seat'[c].app].status \in OpenOnly,
             \A f \in Forms : \/ form'[f] = form[f]
                              \/ form'[f].pc # "apply"
                              \/ \A a \in Applied : application[a].status \notin InTheWay
      PROVE  OneInTheWay'
  <2>1. \A c \in StaffClerks : seat'[c].pc \in Decisions =>
          seat'[c].app \in Applied /\ application[seat'[c].app].status \in OpenOnly
    BY <1>0, <1>a, <1>c DEF SeatOfSomething
  <2>2. \A c \in StaffClerks : seat'[c].pc \in Decisions => application'[seat'[c].app].status \in OpenOnly
    BY <1>c, <2>1
  <2>3. \A f \in Forms : form'[f].pc = "apply" => \A a \in Applied : application'[a].status \notin InTheWay
    BY <1>a, <1>c
  <2>4. QED
    BY <1>a, <1>c, <2>2, <2>3 DEF OneInTheWay
<1>d. ASSUME NEW c \in StaffClerks, Finish(c) PROVE \A x \in StaffClerks : seat'[x].pc = "idle"
  BY <1>0, <1>d, NoStaffRows DEF Finish
\* The clerk writes a decision on the one that is in the way.
<1>e. ASSUME NEW c \in StaffClerks, seat[c].pc \in Decisions, Finish(c), UNCHANGED form, NEW row,
             application' = [application EXCEPT ![seat[c].app] = row],
             row.staff = application[seat[c].app].staff \/ row.status = "approved"
      PROVE  OneInTheWay'
  <2> DEFINE a == seat[c].app
  <2>1. a \in Applied /\ application[a].status \in OpenOnly
    BY <1>0, <1>a, <1>e DEF SeatOfSomething
  <2>2. \A x \in Applied : x # a => application'[x] = application[x] /\ application[x].status \notin InTheWay
    BY <1>0, <1>a, <1>b, <1>e, <2>1
  <2>3. application'[a] = row /\ application[a].staff = "none"
    BY <1>0, <1>a, <1>b, <1>e, <2>1
  <2>4. \A f \in Forms : form'[f].pc # "apply"
    BY <1>a, <1>b, <1>e, <2>1
  <2>5. \A x \in StaffClerks : seat'[x].pc \notin Decisions
    BY <1>b, <1>d, <1>e
  <2> HIDE DEF a
  <2>6. \A x, y \in Applied : application'[x].status \in InTheWay /\ application'[y].status \in InTheWay => x = y
    BY <2>2
  <2>7. \A x \in Applied : application'[x].staff # "none" => application'[x].status = "approved"
    BY <1>a, <1>e, <2>2, <2>3 DEF a
  <2>8. QED
    BY <2>4, <2>5, <2>6, <2>7 DEF OneInTheWay
<1>1. ASSUME NEW c \in StaffClerks, InterviewWrite(c) PROVE OneInTheWay'
  <2> DEFINE row == [application[seat[c].app] EXCEPT !.status = "interviewing"]
  <2>1. row.staff = application[seat[c].app].staff
    BY <1>0, <1>1 DEF InterviewWrite, SeatOfSomething, Decisions, ApplicationRows
  <2>2. /\ application' = [application EXCEPT ![seat[c].app] = row]
        /\ seat[c].pc \in Decisions /\ Finish(c) /\ UNCHANGED form
    BY <1>1 DEF InterviewWrite, Decisions
  <2> HIDE DEF row
  <2>3. QED
    BY <1>e, <2>1, <2>2
<1>2. ASSUME NEW c \in StaffClerks, RejectWrite(c) PROVE OneInTheWay'
  <2> DEFINE row == [application[seat[c].app] EXCEPT !.status = "rejected"]
  <2>1. row.staff = application[seat[c].app].staff
    BY <1>0, <1>2 DEF RejectWrite, SeatOfSomething, Decisions, ApplicationRows
  <2>2. /\ application' = [application EXCEPT ![seat[c].app] = row]
        /\ seat[c].pc \in Decisions /\ Finish(c) /\ UNCHANGED form
    BY <1>2 DEF RejectWrite, Decisions
  <2> HIDE DEF row
  <2>3. QED
    BY <1>e, <2>1, <2>2
<1>3. ASSUME NEW c \in StaffClerks, ApproveWrite(c) PROVE OneInTheWay'
  <2> DEFINE a == seat[c].app
  <2>1. PICK s \in Staffs :
          IF NextNo \in Numbered THEN UNCHANGED <<staff, application>>
          ELSE /\ staff' = [staff EXCEPT ![s] = [status |-> "online", role |-> "intern",
                                                 building |-> application[a].building, no |-> NextNo,
                                                 dismissed |-> FALSE]]
               /\ application' = [application EXCEPT ![a].status = "approved", ![a].staff = s]
    BY <1>3 DEF ApproveWrite
  <2>2. a \in Applied /\ seat[c].pc \in Decisions /\ Finish(c) /\ UNCHANGED form
    BY <1>0, <1>3 DEF ApproveWrite, SeatOfSomething, Decisions
  <2>3. CASE UNCHANGED application
    BY <1>b, <1>c, <1>d, <2>2, <2>3
  <2>4. CASE application' = [application EXCEPT ![a].status = "approved", ![a].staff = s]
    <3> DEFINE row == [application[a] EXCEPT !.status = "approved", !.staff = s]
    <3>1. application' = [application EXCEPT ![a] = row] /\ row.status = "approved"
      BY <1>0, <2>2, <2>4 DEF ApplicationRows
    <3> HIDE DEF row
    <3>2. QED
      BY <1>e, <2>2, <3>1
  <2>5. QED
    BY <2>1, <2>3, <2>4
<1>4. ASSUME NEW c \in StaffClerks, NEW a \in Applied, NEW d \in Decisions, DecisionRead(c, a, d)
      PROVE  OneInTheWay'
  <2> DEFINE w == [NoTask EXCEPT !.pc = d, !.app = a]
  <2>1. w.app = a
    BY DEF NoTask
  <2>2. seat' = [seat EXCEPT ![c] = w] /\ UNCHANGED <<application, form>> /\ application[a].status \in OpenOnly
    BY <1>4 DEF DecisionRead, Begin, OpenOnly
  <2> HIDE DEF w
  <2>3. QED
    BY <1>0, <1>c, <2>1, <2>2
<1>5. ASSUME NEW f \in Forms, ApplyRead(f) PROVE OneInTheWay'
  BY <1>0, <1>5, <1>c DEF ApplyRead
<1>6. ASSUME NEW f \in Forms, NEW b \in Buildings, ApplyWrite(f, b) PROVE OneInTheWay'
  <2>1. PICK a \in Applied :
          application' = [application EXCEPT ![a] = [status |-> "pending", building |-> b, staff |-> "none"]]
    BY <1>6 DEF ApplyWrite
  <2>2. \A x \in Applied : application[x].status \notin InTheWay
    BY <1>6, <1>a DEF ApplyWrite
  <2>3. \A c \in StaffClerks : seat'[c].pc \notin Decisions
    BY <1>0, <1>6, <1>a, <1>b, <2>2 DEF ApplyWrite, SeatOfSomething
  <2>4. \A g \in Forms : form'[g].pc # "apply"
    BY <1>0, <1>6, NoStaffRows DEF ApplyWrite
  <2>5. /\ application'[a].staff = "none" /\ \A x \in Applied : x # a => application'[x] = application[x]
    BY <1>0, <2>1
  <2>6. QED
    BY <1>a, <2>2, <2>3, <2>4, <2>5 DEF OneInTheWay
<1>7. ASSUME NEW f \in Forms, AmendRead(f) PROVE OneInTheWay'
  <2>1. \A g \in Forms : form'[g] = form[g] \/ form'[g].pc # "apply"
    BY <1>0, <1>7 DEF AmendRead
  <2>2. QED
    BY <1>7, <1>c, <2>1 DEF AmendRead
<1>8. ASSUME NEW f \in Forms, NEW b \in Buildings, AmendWrite(f, b) PROVE OneInTheWay'
  <2>1. \A a \in Applied : application'[a].status = application[a].status /\ application'[a].staff = application[a].staff
    BY <1>0, <1>8 DEF AmendWrite, ApplicationRows
  <2>2. \A g \in Forms : form'[g] = form[g] \/ form'[g].pc # "apply"
    BY <1>0, <1>8, NoStaffRows DEF AmendWrite
  <2>3. QED
    BY <1>8, <1>c, <2>1, <2>2 DEF AmendWrite
<1>9. CASE UNCHANGED <<application, form>> /\ \A c \in StaffClerks : seat'[c] = seat[c] \/ seat'[c].pc \notin Decisions
  BY <1>9, <1>c
<1>10. ASSUME NEW c \in StaffClerks, NEW duty \in Duties, NEW b \in Places, NEW n \in HandNos,
              CreateCheck(c, duty, b, n)
       PROVE  OneInTheWay'
  <2>1. \A x \in StaffClerks : seat'[x] = seat[x] \/ seat'[x].pc = "create"
    BY <1>0, <1>10 DEF CreateCheck, Begin, NoTask
  <2>2. QED
    BY <1>9, <1>10, <2>1 DEF CreateCheck, Decisions
<1>11. ASSUME NEW c \in StaffClerks, NEW s \in Staffs, NEW duty \in Duties \cup {"keep"},
              NEW b \in Places \cup {"keep"}, EditCheck(c, s, duty, b)
       PROVE  OneInTheWay'
  <2>1. \A x \in StaffClerks : seat'[x] = seat[x] \/ seat'[x].pc = "edit"
    BY <1>0, <1>11 DEF EditCheck, Begin, NoTask
  <2>2. QED
    BY <1>9, <1>11, <2>1 DEF EditCheck, Decisions
<1>12. ASSUME NEW c \in StaffClerks, NEW s \in Staffs, DeleteCheck(c, s) PROVE OneInTheWay'
  <2>1. \A x \in StaffClerks : seat'[x] = seat[x] \/ seat'[x].pc = "delete"
    BY <1>0, <1>12 DEF DeleteCheck, Begin, NoTask
  <2>2. QED
    BY <1>9, <1>12, <2>1 DEF DeleteCheck, Decisions
<1>13. ASSUME NEW c \in StaffClerks, CreateWrite(c) \/ EditWrite(c) \/ DeleteWrite(c) PROVE OneInTheWay'
  <2>1. Finish(c) /\ UNCHANGED <<application, form>>
    BY <1>13 DEF CreateWrite, EditWrite, DeleteWrite
  <2>2. QED
    BY <1>9, <1>b, <1>d, <2>1
<1>14. ASSUME NEW s \in Staffs, SetOwnStatus(s) PROVE OneInTheWay'
  BY <1>9, <1>14 DEF SetOwnStatus
<1>15. CASE UNCHANGED staffVars
  BY <1>9, <1>15 DEF staffVars
<1>16. QED
  BY <1>1, <1>2, <1>3, <1>4, <1>5, <1>6, <1>7, <1>8, <1>10, <1>11, <1>12, <1>13, <1>14, <1>15
  DEF StaffNext, Decisions

-----------------------------------------------------------------------------
(* StaffMessages: followers and notices                                    *)

FixedTyped == /\ home \in [People -> Firms] /\ wardens \subseteq People
              /\ circle \in [Persons -> SUBSET ServiceAccounts]
BindTyped == /\ bound \subseteq Persons \X People
             /\ openid \in [People -> Persons \cup {Nobody}] /\ unionId \in [People -> Persons \cup {Nobody}]
             /\ learned \in [People -> BOOLEAN]
             /\ gzhOpenid \in [People -> FollowerSet]
WeixinTyped == /\ follows \in [Persons -> SUBSET ServiceAccounts]
               /\ event \in [Persons -> EventSet]
               /\ sync \in [People -> SyncSet]
               /\ missed \in BOOLEAN
QuotaTyped == /\ credit \in [Persons -> [Firms -> 0..MaxCredit]] /\ consented \in [People -> 0..MaxCredit]
              /\ notifyQuota \in [People -> Nat] /\ failedAt \in [People -> BOOLEAN]
NoticeTyped == touch \in [Notices -> [People -> TouchSet]] /\ got \in [Notices -> [People -> 0..2]]

\* Every id, and every callback or reconciliation about to write one, is of a
\* person who has bound the member.
OwnIds ==
  /\ \A s \in People : openid[s] # Nobody => <<openid[s], s>> \in bound
  /\ \A s \in People : unionId[s] # Nobody => <<unionId[s], s>> \in bound
  /\ \A w \in Persons : event[w].pc = "bind" => <<w, event[w].to>> \in bound
  /\ \A x \in People : sync[x].pc = "bind" => <<sync[x].who, sync[x].to>> \in bound
  /\ OwnFollower

\* Callbacks come from the person's circle, and he has left what he leaves.
InCircle == \A w \in Persons :
  /\ event[w].pc # "none" => event[w].at \in circle[w]
  /\ event[w].pc = "unsubscribe" => event[w].at \notin follows[w]

\* A reconciliation that will still look at a person, or is about to bind him.
Awaits(x, w) == sync[x].pc = "list" \/ w \in sync[x].todo \/ (sync[x].pc = "bind" /\ sync[x].who = w)

\* He is bound, or a callback or a reconciliation will bind him, ...
Reached(s, w) == \/ gzhOpenid[s] = Follower(w, PlatformFirm)
                 \/ event[w].pc \in {"subscribe", "bind"}
                 \/ \E x \in People : Awaits(x, w)

\* ... until WeChat fails.
WillBeBound == ~missed => \A s \in People, w \in Persons : Entitled(s, w) => Reached(s, w)

\* What a member got of a notice, by where the notice stands with him.
Tally(t, k, told2) ==
  /\ t.pc \in {"none", "template"} => k = 0 /\ ~t.late
  /\ t.pc \in {"subscribe", "no-quota", "failed"} => k = IF t.late THEN 1 ELSE 0
  /\ t.pc = "ok" => k = IF t.late THEN 2 ELSE 1
  /\ t.pc = "ended" => (k = 2 => t.late) /\ (k = 0 => told2)
Tallies == \A n \in Notices, s \in People : Tally(touch[n][s], got[n][s], failedAt[s])

MessagesInv == MessagesTypeOK /\ OwnIds /\ InCircle /\ WillBeBound /\ Tallies

LEMMA MessagesTyped ==
  MessagesTypeOK <=> FixedTyped /\ BindTyped /\ WeixinTyped /\ QuotaTyped /\ NoticeTyped
BY DEF MessagesTypeOK, FixedTyped, BindTyped, WeixinTyped, QuotaTyped, NoticeTyped

LEMMA MessagesTypedNext ==
  MessagesTypeOK' <=> FixedTyped' /\ BindTyped' /\ WeixinTyped' /\ QuotaTyped' /\ NoticeTyped'
BY DEF MessagesTypeOK, FixedTyped, BindTyped, WeixinTyped, QuotaTyped, NoticeTyped

LEMMA NoEventRows ==
  /\ NoEvent \in EventSet /\ NoSync \in SyncSet /\ Untouched \in TouchSet
  /\ NoEvent.pc = "none" /\ NoSync.pc = "off" /\ NoSync.todo = {} /\ Untouched.pc = "none" /\ ~Untouched.late
  /\ NoFollower \in FollowerSet
BY MessagesAssumption DEF NoEvent, EventSet, NoSync, SyncSet, Untouched, TouchSet, FollowerSet, Nobody

LEMMA MessagesBegin == MessagesInit => MessagesInv
<1> SUFFICES ASSUME MessagesInit PROVE MessagesInv
  OBVIOUS
<1>1. 0 \in 0..MaxCredit
  BY MessagesAssumption
<1>2. FixedTyped /\ BindTyped
  BY NoEventRows DEF MessagesInit, FixedTyped, BindTyped
<1>3. WeixinTyped
  BY NoEventRows DEF MessagesInit, WeixinTyped
<1>4. QuotaTyped
  BY <1>1 DEF MessagesInit, QuotaTyped
<1>5. NoticeTyped
  BY NoEventRows DEF MessagesInit, NoticeTyped
<1>6. OwnIds /\ InCircle
  BY NoEventRows DEF MessagesInit, OwnIds, OwnFollower, InCircle
<1>7. WillBeBound
  BY DEF MessagesInit, WillBeBound, Entitled
<1>8. Tallies
  BY NoEventRows DEF MessagesInit, Tallies, Tally
<1>9. QED
  BY <1>2, <1>3, <1>4, <1>5, <1>6, <1>7, <1>8, MessagesTyped DEF MessagesInv

\* The steps of members' bindings, of callbacks and of reconciliations.
BindSteps(s) == \/ \E w \in Persons, withUnion \in BOOLEAN : StaffBind(s, w, withUnion)
                \/ WechatUnbind(s) \/ DeliveryLogin(s)
EventSteps(w) == \/ OnSubscribe(w) \/ BindGzh(w) \/ OnUnsubscribe(w)
                 \/ \E a \in ServiceAccounts : FollowOrLeave(w, a)
SyncSteps(x) == SyncList(x) \/ SyncLook(x) \/ SyncBind(x) \/ SyncFails(x)

\* A member's row gets a follower's open id, or the key refuses it.
LEMMA GzhWritten ==
  ASSUME BindTyped, NEW s \in People, NEW g \in FollowerSet, WriteGzh(s, g)
  PROVE  /\ gzhOpenid' \in [People -> FollowerSet]
         /\ \A t \in People : t # s => gzhOpenid'[t] = gzhOpenid[t]
         /\ gzhOpenid'[s] \in {g, gzhOpenid[s]}
         /\ FollowerFree(g, s) => gzhOpenid'[s] = g
BY DEF BindTyped, WriteGzh

LEMMA BindStep ==
  ASSUME MessagesInv, NEW s \in People, BindSteps(s)
  PROVE  BindTyped' /\ WeixinTyped' /\ OwnIds' /\ InCircle' /\ WillBeBound'
<1>0. BindTyped /\ WeixinTyped /\ OwnIds /\ InCircle /\ WillBeBound
  BY MessagesTyped DEF MessagesInv
<1>1. UNCHANGED <<home, wardens, circle, gzhOpenid, follows, event, missed>>
  BY DEF BindSteps, StaffBind, WechatUnbind, DeliveryLogin, fixedVars, weixinVars
<1>2. InCircle'
  BY <1>0, <1>1 DEF InCircle
\* Who is entitled was so before, or his reconciliation starts.
<1>3. ASSUME bound \subseteq bound',
             \A x \in People : \/ UNCHANGED sync[x]
                               \/ sync'[x].pc = "list" /\ sync[x] = NoSync,
             \A x \in People, w \in Persons :
               (unionId[x] = w /\ learned[x] /\ OnlyEachOther(w, x))'
               => (unionId[x] = w /\ learned[x]) \/ \E y \in People : sync'[y].pc = "list"
      PROVE  WillBeBound'
  <2> SUFFICES ASSUME ~missed, NEW x \in People, NEW w \in Persons, Entitled(x, w)' PROVE Reached(x, w)'
    BY <1>1 DEF WillBeBound
  <2>1. CASE \E y \in People : sync'[y].pc = "list"
    BY <2>1 DEF Reached, Awaits
  <2>2. CASE ~\E y \in People : sync'[y].pc = "list"
    <3>1. unionId[x] = w /\ learned[x]
      BY <1>3, <2>2 DEF Entitled
    <3>2. OnlyEachOther(w, x)
      BY <1>3 DEF Entitled, OnlyEachOther
    <3>3. Entitled(x, w)
      BY <1>1, <3>1, <3>2 DEF Entitled
    <3>4. Reached(x, w)
      BY <1>0, <3>3 DEF WillBeBound
    <3>5. \A y \in People : UNCHANGED sync[y]
      BY <1>3, <2>2
    <3>6. QED
      BY <1>1, <3>4, <3>5 DEF Reached, Awaits
  <2>3. QED
    BY <2>1, <2>2
<1>4. ASSUME NEW w \in Persons, NEW withUnion \in BOOLEAN, StaffBind(s, w, withUnion)
      PROVE  BindTyped' /\ WeixinTyped' /\ OwnIds' /\ WillBeBound'
  <2>1. /\ bound' = bound \cup {<<w, s>>} /\ UNCHANGED sync
        /\ \A t \in People : openid'[t] = IF t = s THEN w
                               ELSE IF openid[t] = w /\ home[t] = home[s] THEN Nobody ELSE openid[t]
    BY <1>4 DEF StaffBind, weixinVars
  <2>2. \/ UNCHANGED <<unionId, learned>>
        \/ /\ unionId' = [unionId EXCEPT ![s] = w]
           /\ learned' = [learned EXCEPT ![s] = @ /\ unionId[s] = w]
    BY <1>4 DEF StaffBind
  <2>3. /\ \A t \in People : t # s => unionId'[t] = unionId[t] /\ learned'[t] = learned[t]
        /\ unionId'[s] \in {unionId[s], w}
        /\ learned'[s] => learned[s] /\ unionId'[s] = unionId[s]
        /\ unionId' \in [People -> Persons \cup {Nobody}] /\ learned' \in [People -> BOOLEAN]
    BY <1>0, <2>2 DEF BindTyped
  <2>4. openid' \in [People -> Persons \cup {Nobody}]
    BY <1>0, <1>4 DEF StaffBind, BindTyped
  <2>5. BindTyped' /\ WeixinTyped'
    BY <1>0, <1>1, <2>1, <2>3, <2>4 DEF BindTyped, WeixinTyped
  <2>6. OwnIds'
    <3>1. /\ \A t \in People : openid'[t] # Nobody => <<openid'[t], t>> \in bound'
          /\ \A t \in People : unionId'[t] # Nobody => <<unionId'[t], t>> \in bound'
      BY <1>0, <2>1, <2>3 DEF OwnIds
    <3>2. OwnFollower'
      BY <1>0, <1>1, <2>1 DEF OwnIds, OwnFollower
    <3>3. QED
      BY <1>0, <1>1, <2>1, <3>1, <3>2 DEF OwnIds
  <2>7. WillBeBound'
    BY <1>3, <2>1, <2>3
  <2>8. QED
    BY <2>5, <2>6, <2>7
<1>5. CASE WechatUnbind(s)
  <2>1. UNCHANGED <<bound, unionId, learned, sync>> /\ openid' = [openid EXCEPT ![s] = Nobody]
    BY <1>5 DEF WechatUnbind, weixinVars
  <2>2. BindTyped' /\ WeixinTyped'
    BY <1>0, <1>1, <2>1 DEF BindTyped, WeixinTyped
  <2>3. \A t \in People : openid'[t] # Nobody => openid'[t] = openid[t]
    BY <1>0, <2>1 DEF BindTyped
  <2>4. OwnIds'
    BY <1>0, <1>1, <2>1, <2>3 DEF OwnIds, OwnFollower
  <2>5. WillBeBound'
    BY <1>3, <2>1
  <2>6. QED
    BY <1>2, <2>2, <2>4, <2>5
<1>6. CASE DeliveryLogin(s)
  <2>1. /\ UNCHANGED <<bound, openid>> /\ openid[s] # Nobody /\ sync[s] = NoSync
        /\ sync' = [sync EXCEPT ![s].pc = "list"]
    BY <1>6 DEF DeliveryLogin
  <2>2. \/ UNCHANGED <<unionId, learned>>
        \/ /\ unionId' = [unionId EXCEPT ![s] = openid[s]]
           /\ learned' = [learned EXCEPT ![s] = TRUE]
    BY <1>6 DEF DeliveryLogin, LearnUnion
  <2>3. [NoSync EXCEPT !.pc = "list"] \in SyncSet /\ [NoSync EXCEPT !.pc = "list"].pc = "list"
    BY DEF SyncSet, NoSync
  <2>4. /\ sync'[s] = [NoSync EXCEPT !.pc = "list"] /\ \A x \in People : x # s => sync'[x] = sync[x]
        /\ sync' \in [People -> SyncSet]
    BY <1>0, <2>1, <2>3 DEF WeixinTyped
  <2>5. openid[s] \in Persons
    BY <1>0, <2>1 DEF BindTyped
  <2>6. BindTyped' /\ WeixinTyped'
    BY <1>0, <1>1, <2>1, <2>2, <2>4, <2>5 DEF BindTyped, WeixinTyped
  <2>7. OwnIds'
    <3>1. \A t \in People : unionId'[t] # Nobody => <<unionId'[t], t>> \in bound
      BY <1>0, <2>1, <2>2 DEF OwnIds, BindTyped
    <3>2. \A x \in People : sync'[x].pc = "bind" => sync'[x] = sync[x]
      BY <2>3, <2>4
    <3>3. QED
      BY <1>0, <1>1, <2>1, <3>1, <3>2 DEF OwnIds, OwnFollower
  <2>8. WillBeBound'
    BY <1>3, <2>1, <2>3, <2>4
  <2>9. QED
    BY <1>2, <2>6, <2>7, <2>8
<1>7. QED
  BY <1>2, <1>4, <1>5, <1>6 DEF BindSteps

LEMMA EventStep ==
  ASSUME MessagesInv, NEW w \in Persons, EventSteps(w)
  PROVE  BindTyped' /\ WeixinTyped' /\ OwnIds' /\ InCircle' /\ WillBeBound'
<1>0. /\ BindTyped /\ WeixinTyped /\ OwnIds /\ InCircle /\ WillBeBound /\ FixedTyped
      /\ w \in DOMAIN event /\ event[w] \in EventSet
  BY MessagesTyped DEF MessagesInv, WeixinTyped
<1>1. UNCHANGED <<home, wardens, circle, bound, openid, unionId, learned, sync>>
  BY DEF EventSteps, OnSubscribe, BindGzh, OnUnsubscribe, FollowOrLeave, fixedVars, bindVars
\* One callback is answered, or goes on.
<1>2. ASSUME NEW ev \in EventSet, event' = [event EXCEPT ![w] = ev], missed' \in BOOLEAN, ~missed' => ~missed,
             follows' \in [Persons -> SUBSET ServiceAccounts],
             \A v \in Persons : v # w => follows'[v] = follows[v],
             gzhOpenid' \in [People -> FollowerSet], OwnFollower',
             ev.pc = "bind" => <<w, ev.to>> \in bound,
             ev.pc # "none" => ev.at \in circle[w],
             ev.pc = "unsubscribe" => ev.at \notin follows'[w],
             \A s \in People, v \in Persons :
               v # w /\ gzhOpenid[s] = Follower(v, PlatformFirm) /\ Entitled(s, v)
               => gzhOpenid'[s] = Follower(v, PlatformFirm),
             \A s \in People : ~missed' /\ Entitled(s, w)' =>
               \/ gzhOpenid'[s] = Follower(w, PlatformFirm)
               \/ ev.pc \in {"subscribe", "bind"}
               \/ \E x \in People : Awaits(x, w)
      PROVE  BindTyped' /\ WeixinTyped' /\ OwnIds' /\ InCircle' /\ WillBeBound'
  <2>1. event'[w] = ev /\ (\A v \in Persons : v # w => event'[v] = event[v]) /\ event' \in [Persons -> EventSet]
    BY <1>0, <1>2 DEF WeixinTyped
  <2>2. BindTyped' /\ WeixinTyped'
    BY <1>0, <1>1, <1>2, <2>1 DEF BindTyped, WeixinTyped
  <2>3. OwnIds' /\ InCircle'
    BY <1>0, <1>1, <1>2, <2>1 DEF OwnIds, InCircle
  <2>4. ASSUME ~missed', NEW s \in People, NEW v \in Persons, Entitled(s, v)' PROVE Reached(s, v)'
    <3>1. \A x \in People : Awaits(x, v) => Awaits(x, v)'
      BY <1>1 DEF Awaits
    <3>2. CASE v = w
      BY <1>2, <2>1, <2>4, <3>1, <3>2 DEF Reached
    <3>3. CASE v # w
      <4>1. Entitled(s, v)
        BY <1>1, <1>2, <2>4, <3>3 DEF Entitled, OnlyEachOther
      <4>2. Reached(s, v)
        BY <1>0, <1>2, <2>4, <4>1 DEF WillBeBound
      <4>3. QED
        BY <1>2, <2>1, <3>1, <3>3, <4>1, <4>2 DEF Reached
    <3>4. QED
      BY <3>2, <3>3
  <2>5. QED
    BY <2>2, <2>3, <2>4 DEF WillBeBound
<1>a. ASSUME NEW s \in People, Entitled(s, w)', UNCHANGED follows PROVE Entitled(s, w)
  BY <1>1, <1>a DEF Entitled, OnlyEachOther
<1>b. ASSUME UNCHANGED gzhOpenid PROVE gzhOpenid' \in [People -> FollowerSet] /\ OwnFollower'
  BY <1>0, <1>1, <1>b DEF BindTyped, OwnIds, OwnFollower
<1>3. CASE OnSubscribe(w)
  <2>1. UNCHANGED <<follows, gzhOpenid>> /\ event[w].pc = "subscribe" /\ missed' \in BOOLEAN
        /\ (~missed' => ~missed)
    BY <1>0, <1>3 DEF OnSubscribe, bindVars, WeixinTyped
  <2>2. follows' \in [Persons -> SUBSET ServiceAccounts]
    BY <1>0, <2>1 DEF WeixinTyped
  <2>3. CASE event' = [event EXCEPT ![w] = NoEvent] /\ (missed' \/ Matched(w) = {})
    <3>1. \A s \in People : Entitled(s, w)' => missed'
      BY <1>a, <2>1, <2>3 DEF Entitled, Matched
    <3>2. QED
      BY <1>2, <1>b, <2>1, <2>2, <2>3, <3>1, NoEventRows
  <2>4. ASSUME NEW s \in Matched(w), event' = [event EXCEPT ![w].pc = "bind", ![w].to = s]
        PROVE  BindTyped' /\ WeixinTyped' /\ OwnIds' /\ InCircle' /\ WillBeBound'
    <3> DEFINE ev == [event[w] EXCEPT !.pc = "bind", !.to = s]
    <3>1. s \in People /\ <<w, s>> \in bound
      BY <1>0, MessagesAssumption DEF Matched, OwnIds, Nobody
    <3>2. ev \in EventSet /\ ev.pc = "bind" /\ ev.to = s /\ ev.at = event[w].at
      BY <1>0, <3>1 DEF EventSet
    <3>3. event' = [event EXCEPT ![w] = ev]
      BY <1>0, <2>4
    <3>4. event[w].at \in circle[w]
      BY <1>0, <2>1 DEF InCircle
    <3> HIDE DEF ev
    <3>5. QED
      BY <1>2, <1>b, <2>1, <2>2, <3>1, <3>2, <3>3, <3>4
  <2>5. QED
    BY <1>3, <2>3, <2>4 DEF OnSubscribe
<1>4. CASE BindGzh(w)
  <2> DEFINE s == event[w].to
             a == event[w].at
             g == Follower(w, a)
  <2>1. /\ event[w].pc = "bind" /\ WriteGzh(s, g) /\ event' = [event EXCEPT ![w] = NoEvent]
        /\ UNCHANGED <<follows, missed>>
    BY <1>4 DEF BindGzh
  <2>2. s \in People /\ <<w, s>> \in bound /\ a \in circle[w] /\ a \in ServiceAccounts
    BY <1>0, <2>1 DEF OwnIds, BindTyped, InCircle, FixedTyped
  <2>3. g \in FollowerSet /\ g.who = w
    BY <2>2 DEF FollowerSet, Follower
  <2> HIDE DEF g, s
  <2>4. /\ gzhOpenid' \in [People -> FollowerSet]
        /\ \A t \in People : t # s => gzhOpenid'[t] = gzhOpenid[t]
        /\ gzhOpenid'[s] \in {g, gzhOpenid[s]}
        /\ FollowerFree(g, s) => gzhOpenid'[s] = g
    BY <1>0, <2>1, <2>2, <2>3, GzhWritten
  <2>5. OwnFollower'
    BY <1>0, <1>1, <2>2, <2>3, <2>4 DEF OwnIds, OwnFollower
  <2>6. ASSUME NEW t \in People, NEW v \in Persons, v # w, Entitled(t, v) PROVE t # s
    BY <2>2, <2>6 DEF Entitled, OnlyEachOther
  <2>7. ASSUME NEW t \in People, Entitled(t, w)' PROVE gzhOpenid'[t] = Follower(w, PlatformFirm)
    <3>1. Entitled(t, w)
      BY <1>a, <2>1, <2>7
    <3>2. t = s /\ g = Follower(w, PlatformFirm)
      BY <2>2, <3>1 DEF Entitled, OnlyEachOther, g
    <3>3. FollowerFree(g, s)
      <4> SUFFICES ASSUME NEW u \in People \ {s}, gzhOpenid[u] = g PROVE FALSE
        BY DEF FollowerFree
      <4>1. g # NoFollower
        BY <2>3, MessagesAssumption DEF NoFollower, Follower, Nobody
      <4>2. <<w, u>> \in bound
        BY <1>0, <2>3, <4>1 DEF OwnIds, OwnFollower
      <4>3. QED
        BY <3>1, <3>2, <4>2 DEF Entitled, OnlyEachOther
    <3>4. QED
      BY <2>4, <3>2, <3>3
  <2>8. follows' \in [Persons -> SUBSET ServiceAccounts] /\ missed' \in BOOLEAN
    BY <1>0, <2>1 DEF WeixinTyped
  <2>9. QED
    BY <1>2, <2>1, <2>4, <2>5, <2>6, <2>7, <2>8, NoEventRows
<1>5. CASE OnUnsubscribe(w)
  <2> DEFINE g == Follower(w, event[w].at)
  <2>1. /\ event[w].pc = "unsubscribe" /\ event' = [event EXCEPT ![w] = NoEvent]
        /\ gzhOpenid' = [s \in People |-> IF gzhOpenid[s] = g THEN NoFollower ELSE gzhOpenid[s]]
        /\ UNCHANGED <<follows, missed>>
    BY <1>5 DEF OnUnsubscribe
  <2>2. gzhOpenid' \in [People -> FollowerSet]
    BY <1>0, <2>1, NoEventRows DEF BindTyped
  <2>3. OwnFollower'
    BY <1>0, <1>1, <2>1 DEF OwnIds, OwnFollower
  <2>4. \A v \in Persons : v # w => Follower(v, PlatformFirm) # g
    BY DEF Follower
  <2>5. \A s \in People :
        \/ ~Entitled(s, w)'
        \/ Reached(s, w) /\ g # Follower(w, PlatformFirm)
        \/ missed
    <3>1. \A s \in People : Entitled(s, w)' => event[w].at # PlatformFirm
      BY <1>0, <1>a, <2>1 DEF Entitled, InCircle
    <3>2. QED
      BY <1>0, <1>a, <2>1, <3>1 DEF WillBeBound, Follower
  <2>6. follows' \in [Persons -> SUBSET ServiceAccounts] /\ missed' \in BOOLEAN
    BY <1>0, <2>1 DEF WeixinTyped
  <2> HIDE DEF g
  <2>7. \A s \in People : ~missed' /\ Entitled(s, w)' =>
          gzhOpenid'[s] = Follower(w, PlatformFirm) \/ \E x \in People : Awaits(x, w)
    BY <2>1, <2>5 DEF Reached
  <2>8. \A s \in People, v \in Persons :
          v # w /\ gzhOpenid[s] = Follower(v, PlatformFirm) => gzhOpenid'[s] = Follower(v, PlatformFirm)
    BY <2>1, <2>4
  <2>9. QED
    BY <1>2, <2>1, <2>2, <2>3, <2>6, <2>7, <2>8, NoEventRows
<1>6. ASSUME NEW a \in ServiceAccounts, FollowOrLeave(w, a)
      PROVE  BindTyped' /\ WeixinTyped' /\ OwnIds' /\ InCircle' /\ WillBeBound'
  <2> DEFINE ev == [NoEvent EXCEPT !.pc = IF a \in follows[w] THEN "unsubscribe" ELSE "subscribe", !.at = a]
             fs == IF a \in follows[w] THEN follows[w] \ {a} ELSE follows[w] \cup {a}
  <2>1. /\ follows' = [follows EXCEPT ![w] = fs] /\ event' = [event EXCEPT ![w] = ev]
        /\ UNCHANGED <<gzhOpenid, missed>> /\ a \in circle[w] /\ event[w] = NoEvent
    BY <1>6 DEF FollowOrLeave, bindVars
  <2>2. /\ ev \in EventSet /\ ev.at = a /\ ev.pc \in {"subscribe", "unsubscribe"}
        /\ ev.pc = "unsubscribe" <=> a \in follows[w]
    BY DEF EventSet, NoEvent
  <2>3. fs \subseteq ServiceAccounts /\ (a \in follows[w] => a \notin fs)
    BY <1>0 DEF WeixinTyped
  <2> HIDE DEF ev, fs
  <2>4. /\ follows' \in [Persons -> SUBSET ServiceAccounts] /\ missed' \in BOOLEAN
        /\ \A v \in Persons : v # w => follows'[v] = follows[v]
        /\ follows'[w] = fs
    BY <1>0, <2>1, <2>3 DEF WeixinTyped
  <2>5. \A s \in People : Entitled(s, w)' => ev.pc = "subscribe"
    <3>1. ASSUME NEW s \in People, Entitled(s, w)' PROVE a = PlatformFirm /\ PlatformFirm \in fs
      BY <1>1, <2>1, <2>4, <3>1 DEF Entitled
    <3>2. QED
      BY <2>2, <2>3, <3>1
  <2>6. QED
    BY <1>2, <1>b, <2>1, <2>2, <2>3, <2>4, <2>5
<1>7. QED
  BY <1>3, <1>4, <1>5, <1>6 DEF EventSteps

LEMMA SyncStep ==
  ASSUME MessagesInv, NEW x \in People, SyncSteps(x)
  PROVE  BindTyped' /\ WeixinTyped' /\ OwnIds' /\ InCircle' /\ WillBeBound'
<1>0. /\ BindTyped /\ WeixinTyped /\ OwnIds /\ InCircle /\ WillBeBound
      /\ x \in DOMAIN sync /\ sync[x] \in SyncSet
  BY MessagesTyped DEF MessagesInv, WeixinTyped
<1>1. UNCHANGED <<home, wardens, circle, bound, openid, unionId, learned, follows, event>>
  BY DEF SyncSteps, SyncList, SyncLook, SyncBind, SyncFails, fixedVars, bindVars
<1>2. InCircle'
  BY <1>0, <1>1 DEF InCircle
<1>a. \A s \in People, w \in Persons : Entitled(s, w)' <=> Entitled(s, w)
  BY <1>1 DEF Entitled, OnlyEachOther
<1>b. ASSUME UNCHANGED gzhOpenid PROVE gzhOpenid' \in [People -> FollowerSet] /\ OwnFollower'
  BY <1>0, <1>1, <1>b DEF BindTyped, OwnIds, OwnFollower
\* One reconciliation goes on.
<1>3. ASSUME NEW row \in SyncSet, sync' = [sync EXCEPT ![x] = row], missed' \in BOOLEAN, ~missed' => ~missed,
             gzhOpenid' \in [People -> FollowerSet], OwnFollower',
             row.pc = "bind" => <<row.who, row.to>> \in bound,
             \A s \in People, w \in Persons : Entitled(s, w) /\ ~missed' =>
               /\ gzhOpenid[s] = Follower(w, PlatformFirm) => gzhOpenid'[s] = Follower(w, PlatformFirm)
               /\ Awaits(x, w) => \/ gzhOpenid'[s] = Follower(w, PlatformFirm)
                                  \/ row.pc = "list" \/ w \in row.todo \/ (row.pc = "bind" /\ row.who = w)
      PROVE  BindTyped' /\ WeixinTyped' /\ OwnIds' /\ InCircle' /\ WillBeBound'
  <2>1. sync'[x] = row /\ (\A y \in People : y # x => sync'[y] = sync[y]) /\ sync' \in [People -> SyncSet]
    BY <1>0, <1>3 DEF WeixinTyped
  <2>2. BindTyped' /\ WeixinTyped'
    BY <1>0, <1>1, <1>3, <2>1 DEF BindTyped, WeixinTyped
  <2>3. OwnIds'
    BY <1>0, <1>1, <1>3, <2>1 DEF OwnIds
  <2>4. ASSUME ~missed', NEW s \in People, NEW w \in Persons, Entitled(s, w)' PROVE Reached(s, w)'
    <3>1. Entitled(s, w) /\ Reached(s, w)
      BY <1>0, <1>3, <1>a, <2>4 DEF WillBeBound
    <3>2. ASSUME NEW y \in People, Awaits(y, w), y # x PROVE Awaits(y, w)'
      BY <2>1, <3>2 DEF Awaits
    <3>3. CASE gzhOpenid[s] = Follower(w, PlatformFirm) \/ event[w].pc \in {"subscribe", "bind"}
      BY <1>1, <1>3, <2>4, <3>1, <3>3 DEF Reached
    <3>4. CASE Awaits(x, w)
      <4>1. \/ gzhOpenid'[s] = Follower(w, PlatformFirm)
            \/ row.pc = "list" \/ w \in row.todo \/ (row.pc = "bind" /\ row.who = w)
        BY <1>3, <2>4, <3>1, <3>4
      <4>2. QED
        BY <2>1, <4>1 DEF Reached, Awaits
    <3>5. QED
      BY <3>1, <3>2, <3>3, <3>4 DEF Reached
  <2>5. QED
    BY <1>2, <2>2, <2>3, <2>4 DEF WillBeBound
<1>4. CASE SyncList(x)
  <2> DEFINE row == [sync[x] EXCEPT !.pc = "walk", !.todo = {w \in Persons : PlatformFirm \in follows[w]}]
  <2>1. sync' = [sync EXCEPT ![x] = row] /\ UNCHANGED <<gzhOpenid, missed>>
    BY <1>0, <1>4 DEF SyncList, bindVars
  <2>2. row \in SyncSet /\ row.pc = "walk" /\ row.todo = {w \in Persons : PlatformFirm \in follows[w]}
    BY <1>0 DEF SyncSet
  <2> HIDE DEF row
  <2>3. missed' \in BOOLEAN
    BY <1>0, <2>1 DEF WeixinTyped
  <2>4. \A s \in People, w \in Persons : Entitled(s, w) => w \in row.todo
    BY <2>2 DEF Entitled
  <2>5. QED
    BY <1>3, <1>b, <2>1, <2>2, <2>3, <2>4
<1>5. CASE SyncLook(x)
  <2>1. sync[x].pc = "walk" /\ sync[x].todo \subseteq Persons /\ UNCHANGED <<gzhOpenid, missed>>
    BY <1>0, <1>5 DEF SyncLook, bindVars, SyncSet
  <2>2. missed' \in BOOLEAN
    BY <1>0, <2>1 DEF WeixinTyped
  <2>3. CASE sync[x].todo = {} /\ sync' = [sync EXCEPT ![x] = NoSync]
    <3>1. \A w \in Persons : ~Awaits(x, w)
      BY <2>1, <2>3 DEF Awaits
    <3>2. QED
      BY <1>3, <1>b, <2>1, <2>2, <2>3, <3>1, NoEventRows
  <2>4. ASSUME NEW w \in sync[x].todo, ~MayBind(w) \/ Matched(w) = {},
               sync' = [sync EXCEPT ![x].todo = @ \ {w}]
        PROVE  BindTyped' /\ WeixinTyped' /\ OwnIds' /\ InCircle' /\ WillBeBound'
    <3> DEFINE row == [sync[x] EXCEPT !.todo = sync[x].todo \ {w}]
    <3>1. sync' = [sync EXCEPT ![x] = row]
      BY <1>0, <2>4
    <3>2. row \in SyncSet /\ row.pc = "walk" /\ row.todo = sync[x].todo \ {w}
      BY <1>0, <2>1 DEF SyncSet
    <3> HIDE DEF row
    <3>3. ASSUME NEW s \in People, Entitled(s, w) PROVE gzhOpenid[s] = Follower(w, PlatformFirm)
      <4>1. Matched(w) # {} /\ PlatformFirm \in follows[w]
        BY <3>3 DEF Entitled, Matched
      <4>2. PICK t \in People : gzhOpenid[t] = Follower(w, PlatformFirm)
        BY <2>4, <4>1 DEF MayBind
      <4>3. <<w, t>> \in bound
        <5>1. Follower(w, PlatformFirm) # NoFollower /\ Follower(w, PlatformFirm).who = w
          BY <2>1, MessagesAssumption DEF NoFollower, Follower, Nobody
        <5>2. QED
          BY <1>0, <4>2, <5>1 DEF OwnIds, OwnFollower
      <4>4. t = s
        BY <3>3, <4>3 DEF Entitled, OnlyEachOther
      <4>5. QED
        BY <4>2, <4>4
    <3>4. QED
      BY <1>3, <1>b, <2>1, <2>2, <3>1, <3>2, <3>3 DEF Awaits
  <2>5. ASSUME NEW w \in sync[x].todo, NEW s \in Matched(w),
               sync' = [sync EXCEPT ![x] = [pc |-> "bind", todo |-> @.todo \ {w}, who |-> w, to |-> s]]
        PROVE  BindTyped' /\ WeixinTyped' /\ OwnIds' /\ InCircle' /\ WillBeBound'
    <3> DEFINE row == [pc |-> "bind", todo |-> sync[x].todo \ {w}, who |-> w, to |-> s]
    <3>1. sync' = [sync EXCEPT ![x] = row]
      BY <2>5
    <3>2. w \in Persons /\ s \in People /\ <<w, s>> \in bound
      BY <1>0, <2>1, MessagesAssumption DEF Matched, OwnIds, Nobody
    <3>3. row \in SyncSet /\ row.pc = "bind" /\ row.todo = sync[x].todo \ {w} /\ row.who = w /\ row.to = s
      BY <2>1, <3>2 DEF SyncSet
    <3> HIDE DEF row
    <3>4. QED
      BY <1>3, <1>b, <2>1, <2>2, <3>1, <3>2, <3>3 DEF Awaits
  <2>6. QED
    BY <1>5, <2>3, <2>4, <2>5 DEF SyncLook
<1>6. CASE SyncBind(x)
  <2> DEFINE row == [NoSync EXCEPT !.pc = "walk", !.todo = sync[x].todo]
             s == sync[x].to
             w == sync[x].who
             g == Follower(w, PlatformFirm)
  <2>1. sync[x].pc = "bind" /\ WriteGzh(s, g) /\ sync' = [sync EXCEPT ![x] = row] /\ UNCHANGED missed
    BY <1>6 DEF SyncBind
  <2>2. <<w, s>> \in bound /\ s \in People /\ w \in Persons
    BY <1>0, <2>1 DEF OwnIds, BindTyped
  <2>3. row \in SyncSet /\ row.pc = "walk" /\ row.todo = sync[x].todo
    BY <1>0 DEF SyncSet, NoSync
  <2>4. g \in FollowerSet /\ g.who = w /\ g # NoFollower
    BY <2>2, MessagesAssumption DEF FollowerSet, Follower, NoFollower, Nobody, ServiceAccounts
  <2> HIDE DEF row, s, g
  <2>5. /\ gzhOpenid' \in [People -> FollowerSet]
        /\ \A t \in People : t # s => gzhOpenid'[t] = gzhOpenid[t]
        /\ gzhOpenid'[s] \in {g, gzhOpenid[s]}
        /\ FollowerFree(g, s) => gzhOpenid'[s] = g
    BY <1>0, <2>1, <2>2, <2>4, GzhWritten
  <2>6. OwnFollower'
    BY <1>0, <1>1, <2>2, <2>4, <2>5 DEF OwnIds, OwnFollower
  <2>7. ASSUME NEW t \in People, NEW v \in Persons, Entitled(t, v)
        PROVE  /\ v = w => gzhOpenid'[t] = Follower(v, PlatformFirm)
               /\ gzhOpenid[t] = Follower(v, PlatformFirm) => gzhOpenid'[t] = Follower(v, PlatformFirm)
    <3>1. t = s <=> v = w
      BY <2>2, <2>7 DEF Entitled, OnlyEachOther
    <3>2. ASSUME v = w PROVE FollowerFree(g, s)
      <4> SUFFICES ASSUME NEW u \in People \ {s}, gzhOpenid[u] = g PROVE FALSE
        BY DEF FollowerFree
      <4>1. <<w, u>> \in bound
        BY <1>0, <2>4 DEF OwnIds, OwnFollower
      <4>2. QED
        BY <2>7, <3>1, <3>2, <4>1 DEF Entitled, OnlyEachOther
    <3>3. QED
      BY <2>5, <3>1, <3>2 DEF g
  <2>8. missed' \in BOOLEAN
    BY <1>0, <2>1 DEF WeixinTyped
  <2>9. \A v \in Persons : Awaits(x, v) => v = w \/ v \in row.todo
    BY <2>1, <2>3 DEF Awaits
  <2>10. QED
    BY <1>3, <2>1, <2>3, <2>5, <2>6, <2>7, <2>8, <2>9
<1>7. CASE SyncFails(x)
  <2>1. sync' = [sync EXCEPT ![x] = NoSync] /\ missed' = TRUE /\ UNCHANGED gzhOpenid
    BY <1>7 DEF SyncFails, bindVars
  <2>2. QED
    BY <1>3, <1>b, <2>1, NoEventRows
<1>8. QED
  BY <1>4, <1>5, <1>6, <1>7 DEF SyncSteps

\* Consents and notices.
LEMMA NoticeStep ==
  ASSUME MessagesInv, UNCHANGED <<fixedVars, bindVars, weixinVars>>,
         \/ \E s \in People : GrantNotifyQuota(s) \/ \E w \in Persons : Consent(s, w)
         \/ \E n \in Notices, f \in Firms : NotifyRiders(n, f) \/ NotifyBuildingManagers(n, f)
         \/ \E n \in Notices, s \in People : SendTemplate(n, s) \/ SendStaffSubscribe(n, s) \/ BookSubscribe(n, s)
  PROVE  QuotaTyped' /\ NoticeTyped' /\ Tallies'
<1>0. QuotaTyped /\ NoticeTyped /\ Tallies /\ BindTyped /\ FixedTyped
  BY MessagesTyped DEF MessagesInv
<1>1. ASSUME NEW s \in People, GrantNotifyQuota(s) \/ \E w \in Persons : Consent(s, w)
      PROVE  QuotaTyped' /\ NoticeTyped' /\ Tallies'
  <2>1. UNCHANGED <<noticeVars, failedAt>>
    BY <1>1 DEF Consent, GrantNotifyQuota
  <2>2. NoticeTyped' /\ Tallies'
    BY <1>0, <2>1 DEF NoticeTyped, Tallies, noticeVars
  <2>3. QuotaTyped'
    <3>1. consented[s] \in 0..MaxCredit /\ notifyQuota[s] \in Nat /\ home[s] \in Firms
      BY <1>0 DEF QuotaTyped, FixedTyped
    <3>2. ASSUME NEW w \in Persons, Consent(s, w) PROVE QuotaTyped'
      <4>1. credit[w] \in [Firms -> 0..MaxCredit]
        BY <1>0 DEF QuotaTyped
      <4>2. credit[w][home[s]] + 1 \in 0..MaxCredit /\ consented[s] + 1 \in 0..MaxCredit
        BY <3>1, <3>2, <4>1, MessagesAssumption DEF Consent
      <4>3. [credit[w] EXCEPT ![home[s]] = @ + 1] \in [Firms -> 0..MaxCredit]
        BY <4>1, <4>2
      <4>4. credit' \in [Persons -> [Firms -> 0..MaxCredit]]
        BY <1>0, <3>2, <4>3 DEF Consent, QuotaTyped
      <4>5. QED
        BY <1>0, <2>1, <3>2, <4>2, <4>4 DEF Consent, QuotaTyped
    <3>3. CASE GrantNotifyQuota(s)
      <4>1. notifyQuota[s] + Counted(consented[s]) \in Nat /\ 0 \in 0..MaxCredit
        BY <3>1, MessagesAssumption DEF Counted
      <4>2. QED
        BY <1>0, <2>1, <3>3, <4>1 DEF GrantNotifyQuota, QuotaTyped
    <3>4. QED
      BY <1>1, <3>2, <3>3
  <2>4. QED
    BY <2>2, <2>3
\* A notice starts with members it has not touched.
<1>2. ASSUME NEW n \in Notices, NEW rows \in [People -> TouchSet], touch' = [touch EXCEPT ![n] = rows],
             \A s \in People : touch[n][s] = Untouched,
             \A s \in People : rows[s].pc \in {"none", "template", "subscribe"} /\ ~rows[s].late,
             UNCHANGED <<quotaVars, got>>
      PROVE  QuotaTyped' /\ NoticeTyped' /\ Tallies'
  <2>1. \A s \in People : got[n][s] = 0
    BY <1>0, <1>2, NoEventRows DEF Tallies, Tally
  <2>2. touch'[n] = rows /\ \A m \in Notices : m # n => touch'[m] = touch[m]
    BY <1>0, <1>2 DEF NoticeTyped
  <2>3. QuotaTyped' /\ NoticeTyped'
    BY <1>0, <1>2 DEF QuotaTyped, NoticeTyped, quotaVars
  <2>4. \A s \in People : Tally(rows[s], got[n][s], failedAt[s])
    BY <1>2, <2>1 DEF Tally
  <2>5. \A m \in Notices, s \in People : Tally(touch'[m][s], got[m][s], failedAt[s])
    BY <1>0, <2>2, <2>4 DEF Tallies
  <2>6. QED
    BY <1>2, <2>3, <2>5 DEF Tallies, quotaVars
<1>3. ASSUME NEW n \in Notices, NEW f \in Firms, NotifyRiders(n, f) PROVE QuotaTyped' /\ NoticeTyped' /\ Tallies'
  <2> DEFINE rows == [s \in People |->
       IF s \in Recipients(f, People \ wardens)
       THEN [pc |-> IF GzhConfig(f) # NoAccount /\ gzhOpenid[s] # NoFollower THEN "template" ELSE "subscribe",
             firm |-> f, openid |-> openid[s], via |-> gzhOpenid[s], late |-> FALSE]
       ELSE Untouched]
  <2>1. \A s \in People : rows[s] \in TouchSet /\ rows[s].pc \in {"none", "template", "subscribe"} /\ ~rows[s].late
    BY <1>0, NoEventRows DEF TouchSet, BindTyped
  <2>2. rows \in [People -> TouchSet]
    BY <2>1
  <2>3. touch' = [touch EXCEPT ![n] = rows] /\ UNCHANGED <<quotaVars, got>> /\ \A s \in People : touch[n][s] = Untouched
    BY <1>3 DEF NotifyRiders
  <2> HIDE DEF rows
  <2>4. QED
    BY <1>2, <2>1, <2>2, <2>3
<1>4. ASSUME NEW n \in Notices, NEW f \in Firms, NotifyBuildingManagers(n, f)
      PROVE  QuotaTyped' /\ NoticeTyped' /\ Tallies'
  <2> DEFINE rows == [s \in People |->
       IF s \in Recipients(f, wardens)
       THEN [Untouched EXCEPT !.pc = "subscribe", !.firm = f, !.openid = openid[s]]
       ELSE Untouched]
  <2>1. \A s \in People : rows[s] \in TouchSet /\ rows[s].pc \in {"none", "template", "subscribe"} /\ ~rows[s].late
    BY <1>0, NoEventRows DEF TouchSet, BindTyped, Untouched
  <2>2. rows \in [People -> TouchSet]
    BY <2>1
  <2>3. touch' = [touch EXCEPT ![n] = rows] /\ UNCHANGED <<quotaVars, got>> /\ \A s \in People : touch[n][s] = Untouched
    BY <1>4 DEF NotifyBuildingManagers
  <2> HIDE DEF rows
  <2>4. QED
    BY <1>2, <2>1, <2>2, <2>3
\* Something is done about one member.
<1>5. ASSUME NEW n \in Notices, NEW s \in People, NEW row \in TouchSet,
             touch' = [touch EXCEPT ![n] = [touch[n] EXCEPT ![s] = row]],
             got' = got \/ Arrives(n, s), NEW k \in 0..2,
             got' = got => k = got[n][s], got' # got => k = got[n][s] + 1,
             \A x \in People : failedAt[x] => failedAt'[x],
             failedAt' \in [People -> BOOLEAN],
             Tally(row, k, failedAt'[s])
      PROVE  NoticeTyped' /\ Tallies'
  <2>1. /\ touch'[n][s] = row
        /\ \A m \in Notices, x \in People : m # n \/ x # s => touch'[m][x] = touch[m][x]
    BY <1>0, <1>5 DEF NoticeTyped
  <2>2. /\ got'[n][s] = k
        /\ \A m \in Notices, x \in People : m # n \/ x # s => got'[m][x] = got[m][x]
        /\ got' \in [Notices -> [People -> 0..2]]
    <3>1. CASE got' = got
      BY <1>0, <1>5, <3>1 DEF NoticeTyped
    <3>2. CASE got' # got
      <4>1. got' = [got EXCEPT ![n] = [got[n] EXCEPT ![s] = k]]
        BY <1>0, <1>5, <3>2 DEF NoticeTyped, Arrives
      <4>2. QED
        BY <1>0, <4>1 DEF NoticeTyped
    <3>3. QED
      BY <3>1, <3>2
  <2>3. touch' \in [Notices -> [People -> TouchSet]]
    BY <1>0, <1>5 DEF NoticeTyped
  <2>4. ASSUME NEW m \in Notices, NEW x \in People PROVE Tally(touch'[m][x], got'[m][x], failedAt'[x])
    <3>1. CASE m = n /\ x = s
      BY <1>5, <2>1, <2>2, <3>1
    <3>2. CASE m # n \/ x # s
      <4>1. Tally(touch[m][x], got[m][x], failedAt[x])
        BY <1>0 DEF Tallies
      <4>2. Tally(touch[m][x], got[m][x], failedAt'[x])
        BY <1>5, <4>1 DEF Tally
      <4>3. QED
        BY <2>1, <2>2, <3>2, <4>2
    <3>3. QED
      BY <3>1, <3>2
  <2>5. QED
    BY <2>2, <2>3, <2>4 DEF NoticeTyped, Tallies
<1>a. ASSUME NEW n \in Notices, NEW s \in People
      PROVE  /\ touch[n][s] \in TouchSet /\ got[n][s] \in 0..2 /\ failedAt[s] \in BOOLEAN
             /\ notifyQuota[s] \in Nat /\ Tally(touch[n][s], got[n][s], failedAt[s])
             /\ \A pc : Move(n, s, pc) => touch' = [touch EXCEPT ![n] = [touch[n] EXCEPT ![s] = [touch[n][s] EXCEPT !.pc = pc]]]
  BY <1>0 DEF NoticeTyped, QuotaTyped, Tallies, Move
\* The rows to which it moves.
<1>b. ASSUME NEW t \in TouchSet, NEW pc \in {"none", "template", "subscribe", "ok", "no-quota", "ended", "failed"}
      PROVE  LET u == [t EXCEPT !.pc = pc] IN u \in TouchSet /\ u.pc = pc /\ u.late = t.late
  BY DEF TouchSet
<1>c. ASSUME NEW n \in Notices, NEW s \in People, Arrives(n, s), got[n][s] < 2
      PROVE  got[n][s] + 1 \in 0..2 /\ got' # got
  <2>1. got'[n][s] = got[n][s] + 1
    BY <1>0, <1>c DEF Arrives, NoticeTyped
  <2>2. QED
    BY <1>a, <1>c, <2>1
<1>6. ASSUME NEW n \in Notices, NEW s \in People, SendTemplate(n, s) PROVE QuotaTyped' /\ NoticeTyped' /\ Tallies'
  <2> DEFINE t == touch[n][s]
  <2>1. t.pc = "template" /\ got[n][s] = 0 /\ ~t.late /\ UNCHANGED quotaVars
    BY <1>6, <1>a DEF SendTemplate, Tally
  <2>2. QuotaTyped' /\ failedAt' = failedAt /\ failedAt' \in [People -> BOOLEAN]
    BY <1>0, <2>1 DEF QuotaTyped, quotaVars
  <2>3. CASE Arrives(n, s) /\ Move(n, s, AfterTemplate(n, s))
    <3> DEFINE row == [t EXCEPT !.pc = "ended"]
    <3>1. row \in TouchSet /\ row.pc = "ended"
      BY <1>a, <1>b
    <3>2. touch' = [touch EXCEPT ![n] = [touch[n] EXCEPT ![s] = row]]
      BY <1>a, <2>3 DEF AfterTemplate
    <3> HIDE DEF row
    <3>3. Tally(row, 1, failedAt'[s])
      BY <3>1 DEF Tally
    <3>4. got' # got /\ 1 = got[n][s] + 1 /\ 1 \in 0..2
      BY <1>c, <2>1, <2>3
    <3>5. QED
      BY <1>5, <2>2, <2>3, <3>1, <3>2, <3>3, <3>4
  <2>4. CASE Arrives(n, s) /\ touch' = [touch EXCEPT ![n][s].pc = "subscribe", ![n][s].late = TRUE]
    <3> DEFINE row == [t EXCEPT !.pc = "subscribe", !.late = TRUE]
    <3>1. row \in TouchSet /\ row.pc = "subscribe" /\ row.late
      BY <1>a DEF TouchSet
    <3>2. touch' = [touch EXCEPT ![n] = [touch[n] EXCEPT ![s] = row]]
      <4> DEFINE half == [touch EXCEPT ![n] = [touch[n] EXCEPT ![s] = [t EXCEPT !.pc = "subscribe"]]]
      <4>1. touch' = [half EXCEPT ![n] = [half[n] EXCEPT ![s] = [half[n][s] EXCEPT !.late = TRUE]]]
        BY <2>4
      <4>2. half[n] = [touch[n] EXCEPT ![s] = [t EXCEPT !.pc = "subscribe"]]
        BY <1>0 DEF NoticeTyped
      <4>3. half[n][s] = [t EXCEPT !.pc = "subscribe"]
        BY <1>0, <4>2 DEF NoticeTyped
      <4>4. [half[n][s] EXCEPT !.late = TRUE] = row
        BY <1>a, <4>3 DEF TouchSet
      <4>5. touch' = [half EXCEPT ![n] = [half[n] EXCEPT ![s] = row]]
        BY <4>1, <4>4
      <4> HIDE DEF row
      <4>6. [half[n] EXCEPT ![s] = row] = [touch[n] EXCEPT ![s] = row]
        BY <1>0, <4>2 DEF NoticeTyped
      <4>7. QED
        BY <1>0, <4>5, <4>6 DEF NoticeTyped
    <3> HIDE DEF row
    <3>3. Tally(row, 1, failedAt'[s])
      BY <3>1 DEF Tally
    <3>4. got' # got /\ 1 = got[n][s] + 1 /\ 1 \in 0..2
      BY <1>c, <2>1, <2>4
    <3>5. QED
      BY <1>5, <2>2, <2>4, <3>1, <3>2, <3>3, <3>4
  <2>5. CASE UNCHANGED got /\ Move(n, s, "subscribe")
    <3> DEFINE row == [t EXCEPT !.pc = "subscribe"]
    <3>1. row \in TouchSet /\ row.pc = "subscribe" /\ ~row.late
      BY <1>a, <1>b, <2>1
    <3>2. touch' = [touch EXCEPT ![n] = [touch[n] EXCEPT ![s] = row]]
      BY <1>a, <2>5
    <3> HIDE DEF row
    <3>3. Tally(row, 0, failedAt'[s]) /\ 0 \in 0..2
      BY <3>1 DEF Tally
    <3>4. got' = got
      BY <2>5
    <3>5. NoticeTyped' /\ Tallies'
      BY <1>5, <2>1, <2>2, <3>1, <3>2, <3>3, <3>4
    <3>6. QED
      BY <2>2, <3>5
  <2>6. QED
    BY <1>6, <2>3, <2>4, <2>5 DEF SendTemplate
<1>7. ASSUME NEW n \in Notices, NEW s \in People, SendStaffSubscribe(n, s) PROVE QuotaTyped' /\ NoticeTyped' /\ Tallies'
  <2> DEFINE t == touch[n][s]
             k == IF t.late THEN 1 ELSE 0
  <2>1. t.pc = "subscribe" /\ got[n][s] = k /\ UNCHANGED <<consented, notifyQuota, failedAt>>
    BY <1>7, <1>a DEF SendStaffSubscribe, Tally
  <2>2. failedAt' = failedAt /\ failedAt' \in [People -> BOOLEAN]
    BY <1>0, <2>1 DEF QuotaTyped
  <2>3. ASSUME credit[t.openid][t.firm] > 0, credit' = [credit EXCEPT ![t.openid][t.firm] = @ - 1],
               Arrives(n, s), Move(n, s, "ok")
        PROVE  QuotaTyped' /\ NoticeTyped' /\ Tallies'
    <3> DEFINE row == [t EXCEPT !.pc = "ok"]
    <3>1. row \in TouchSet /\ row.pc = "ok" /\ row.late = t.late
      BY <1>a, <1>b
    <3>2. touch' = [touch EXCEPT ![n] = [touch[n] EXCEPT ![s] = row]]
      BY <1>a, <2>3
    <3>3. credit' \in [Persons -> [Firms -> 0..MaxCredit]]
      <4>1. t.firm \in Firms
        BY <1>a DEF TouchSet
      <4>2. CASE t.openid \in Persons
        <5>1. credit[t.openid] \in [Firms -> 0..MaxCredit]
          BY <1>0, <4>2 DEF QuotaTyped
        <5>2. credit[t.openid][t.firm] - 1 \in 0..MaxCredit
          BY <2>3, <4>1, <5>1, MessagesAssumption
        <5>3. [credit[t.openid] EXCEPT ![t.firm] = @ - 1] \in [Firms -> 0..MaxCredit]
          BY <4>1, <5>1, <5>2
        <5>4. QED
          BY <1>0, <2>3, <4>2, <5>3 DEF QuotaTyped
      <4>3. CASE t.openid \notin Persons
        BY <1>0, <2>3, <4>3 DEF QuotaTyped
      <4>4. QED
        BY <4>2, <4>3
    <3>4. QuotaTyped'
      BY <1>0, <2>1, <3>3 DEF QuotaTyped
    <3> HIDE DEF row
    <3>5. Tally(row, k + 1, failedAt'[s])
      BY <3>1 DEF Tally
    <3>6. got' # got /\ k + 1 = got[n][s] + 1 /\ k + 1 \in 0..2
      BY <1>c, <2>1, <2>3
    <3> HIDE DEF k
    <3>7. NoticeTyped' /\ Tallies'
      BY <1>5, <2>2, <2>3, <3>1, <3>2, <3>5, <3>6
    <3>8. QED
      BY <3>4, <3>7
  <2>4. ASSUME NEW pc \in {"no-quota", "failed"}, Move(n, s, pc), UNCHANGED <<credit, got>>
        PROVE  QuotaTyped' /\ NoticeTyped' /\ Tallies'
    <3> DEFINE row == [t EXCEPT !.pc = pc]
    <3>1. row \in TouchSet /\ row.pc = pc /\ row.late = t.late
      <4>1. t \in TouchSet /\ pc \in {"none", "template", "subscribe", "ok", "no-quota", "ended", "failed"}
        BY <1>a
      <4> HIDE DEF t
      <4>2. QED
        BY <4>1, <1>b
    <3>2. touch' = [touch EXCEPT ![n] = [touch[n] EXCEPT ![s] = row]]
      BY <1>a, <2>4
    <3>3. QuotaTyped'
      BY <1>0, <2>1, <2>4 DEF QuotaTyped
    <3> HIDE DEF row
    <3>4. Tally(row, k, failedAt'[s]) /\ k \in 0..2
      BY <3>1 DEF Tally
    <3> HIDE DEF k
    <3>5. NoticeTyped' /\ Tallies'
      BY <1>5, <2>1, <2>2, <2>4, <3>1, <3>2, <3>4
    <3>6. QED
      BY <3>3, <3>5
  <2>5. QED
    BY <1>7, <2>3, <2>4 DEF SendStaffSubscribe
<1>8. ASSUME NEW n \in Notices, NEW s \in People, BookSubscribe(n, s) PROVE QuotaTyped' /\ NoticeTyped' /\ Tallies'
  <2> DEFINE t == touch[n][s]
             row == [t EXCEPT !.pc = "ended"]
             k == got[n][s]
  <2>1. /\ t.pc \in {"ok", "no-quota"} /\ UNCHANGED <<credit, consented, got>> /\ Move(n, s, "ended")
    BY <1>8 DEF BookSubscribe
  <2>2. row \in TouchSet /\ row.pc = "ended" /\ row.late = t.late
    BY <1>a, <1>b
  <2>3. touch' = [touch EXCEPT ![n] = [touch[n] EXCEPT ![s] = row]]
    BY <1>a, <2>1
  <2>4. CASE t.pc = "ok"
    <3>1. notifyQuota' = [notifyQuota EXCEPT ![s] = OneLess(@)] /\ UNCHANGED failedAt
      BY <1>8, <2>4 DEF BookSubscribe
    <3>2. OneLess(notifyQuota[s]) \in Nat
      BY <1>a DEF OneLess
    <3>3. QuotaTyped' /\ failedAt' \in [People -> BOOLEAN]
      BY <1>0, <2>1, <3>1, <3>2 DEF QuotaTyped
    <3> HIDE DEF row
    <3>4. Tally(row, k, failedAt'[s]) /\ k \in 0..2
      BY <1>a, <2>2, <2>4 DEF Tally
    <3> HIDE DEF k
    <3>5. QED
      BY <1>5, <2>1, <2>2, <2>3, <3>1, <3>3, <3>4 DEF k
  <2>5. CASE t.pc = "no-quota"
    <3>1. notifyQuota' = [notifyQuota EXCEPT ![s] = 0] /\ failedAt' = [failedAt EXCEPT ![s] = TRUE]
      BY <1>8, <2>5 DEF BookSubscribe
    <3>2. QuotaTyped' /\ failedAt' \in [People -> BOOLEAN] /\ failedAt'[s]
          /\ \A x \in People : failedAt[x] => failedAt'[x]
      BY <1>0, <2>1, <3>1 DEF QuotaTyped
    <3> HIDE DEF row
    <3>3. Tally(row, k, failedAt'[s]) /\ k \in 0..2
      BY <1>a, <2>2, <2>5, <3>2 DEF Tally
    <3> HIDE DEF k
    <3>4. QED
      BY <1>5, <2>1, <2>2, <2>3, <3>2, <3>3 DEF k
  <2>6. QED
    BY <2>1, <2>4, <2>5
<1>9. QED
  BY <1>1, <1>3, <1>4, <1>6, <1>7, <1>8

LEMMA MessagesStep == MessagesInv /\ [MessagesNext]_messageVars => MessagesInv'
<1> SUFFICES ASSUME MessagesInv, [MessagesNext]_messageVars PROVE MessagesInv'
  OBVIOUS
<1>0. /\ FixedTyped /\ BindTyped /\ WeixinTyped /\ QuotaTyped /\ NoticeTyped
      /\ OwnIds /\ InCircle /\ WillBeBound /\ Tallies
  BY MessagesTyped DEF MessagesInv
<1>a. ASSUME UNCHANGED <<quotaVars, noticeVars>> PROVE QuotaTyped' /\ NoticeTyped' /\ Tallies'
  BY <1>0, <1>a DEF quotaVars, noticeVars, QuotaTyped, NoticeTyped, Tallies
<1>b. ASSUME UNCHANGED <<fixedVars, bindVars, weixinVars>>
      PROVE  BindTyped' /\ WeixinTyped' /\ OwnIds' /\ InCircle' /\ WillBeBound'
  <2>1. /\ UNCHANGED <<bound, openid, unionId, learned, gzhOpenid, follows, event, sync, missed>>
        /\ UNCHANGED <<home, circle>>
    BY <1>b DEF fixedVars, bindVars, weixinVars
  <2>2. BindTyped' /\ WeixinTyped'
    BY <1>0, <2>1 DEF BindTyped, WeixinTyped
  <2>3. OwnIds' /\ InCircle'
    BY <1>0, <2>1 DEF OwnIds, OwnFollower, InCircle
  <2>4. WillBeBound'
    BY <1>0, <2>1 DEF WillBeBound, Entitled, OnlyEachOther, Reached, Awaits
  <2>5. QED
    BY <2>2, <2>3, <2>4
<1>c. ASSUME UNCHANGED fixedVars PROVE FixedTyped'
  BY <1>0, <1>c DEF FixedTyped, fixedVars
<1>1. ASSUME \/ \E s \in People : BindSteps(s) \/ SyncSteps(s)
             \/ \E w \in Persons : EventSteps(w)
      PROVE  MessagesInv'
  <2>1. UNCHANGED <<fixedVars, quotaVars, noticeVars>>
    BY <1>1 DEF BindSteps, SyncSteps, EventSteps, StaffBind, WechatUnbind, DeliveryLogin, OnSubscribe, BindGzh,
                OnUnsubscribe, SyncList, SyncLook, SyncBind, SyncFails, FollowOrLeave
  <2>2. BindTyped' /\ WeixinTyped' /\ OwnIds' /\ InCircle' /\ WillBeBound'
    BY <1>1, BindStep, SyncStep, EventStep
  <2>3. QED
    BY <1>a, <1>c, <2>1, <2>2, MessagesTypedNext DEF MessagesInv
<1>2. ASSUME \/ \E s \in People : GrantNotifyQuota(s) \/ \E w \in Persons : Consent(s, w)
             \/ \E n \in Notices, f \in Firms : NotifyRiders(n, f) \/ NotifyBuildingManagers(n, f)
             \/ \E n \in Notices, s \in People : SendTemplate(n, s) \/ SendStaffSubscribe(n, s) \/ BookSubscribe(n, s)
      PROVE  MessagesInv'
  <2>1. UNCHANGED <<fixedVars, bindVars, weixinVars>>
    BY <1>2 DEF Consent, GrantNotifyQuota, NotifyRiders, NotifyBuildingManagers, SendTemplate, SendStaffSubscribe,
                BookSubscribe
  <2>2. QuotaTyped' /\ NoticeTyped' /\ Tallies'
    BY <1>2, <2>1, NoticeStep
  <2>3. QED
    BY <1>b, <1>c, <2>1, <2>2, MessagesTypedNext DEF MessagesInv
<1>3. CASE UNCHANGED messageVars
  BY <1>3, <1>a, <1>b, <1>c, MessagesTypedNext DEF messageVars, MessagesInv
<1>4. QED
  BY <1>1, <1>2, <1>3 DEF MessagesNext, BindSteps, SyncSteps, EventSteps

LEMMA MessagesInvariant == MessagesSpec => []MessagesInv
BY MessagesBegin, MessagesStep, PTL DEF MessagesSpec

LEMMA MessagesReach == MessagesInv => StaffReached
<1> SUFFICES ASSUME MessagesInv PROVE StaffReached
  OBVIOUS
<1>1. FollowersBound
  <2> SUFFICES ASSUME Quiet, NEW s \in People, NEW w \in Persons, Entitled(s, w)
               PROVE  gzhOpenid[s] = Follower(w, PlatformFirm)
    BY DEF FollowersBound
  <2>1. event[w].pc = "none" /\ ~missed /\ \A x \in People : sync[x].pc = "off" /\ sync[x].todo = {}
    BY NoEventRows DEF Quiet
  <2>2. \A x \in People : ~Awaits(x, w)
    BY <2>1 DEF Awaits
  <2>3. QED
    BY <2>1, <2>2 DEF MessagesInv, WillBeBound, Reached
<1>2. NotifiedOnce
  <2> SUFFICES ASSUME NEW n \in Notices, NEW s \in People
               PROVE  /\ got[n][s] <= 1 \/ touch[n][s].late
                      /\ touch[n][s].pc = "ended" /\ got[n][s] = 0 => failedAt[s]
    BY DEF NotifiedOnce
  <2>1. Tally(touch[n][s], got[n][s], failedAt[s]) /\ touch[n][s] \in TouchSet /\ got[n][s] \in 0..2
    BY MessagesTyped DEF MessagesInv, Tallies, NoticeTyped
  <2>2. touch[n][s].pc \in {"none", "template", "subscribe", "ok", "no-quota", "ended", "failed"}
    BY <2>1 DEF TouchSet
  <2>3. got[n][s] \in Int /\ (got[n][s] = 0 \/ got[n][s] = 1 \/ got[n][s] = 2)
    BY <2>1
  <2>4. QED
    BY <2>1, <2>2, <2>3 DEF Tally
<1>3. OwnFollower
  BY DEF MessagesInv, OwnIds
<1>4. QED
  BY <1>1, <1>2, <1>3 DEF StaffReached

\* A member's messages go to no follower who never bound him; a rider of the
\* platform and a person who never bound another, who follows its account alone
\* and has logged in, are brought together when all is quiet; and a notice is
\* not sent twice unless an answer is late, nor is who got none for want of
\* consents left unmarked (staffBind, wechatLogin, handleGzhCallback,
\* syncGzhBindings, notifyRidersOnFirstMile, notifyBuildingManagers).
THEOREM StaffIsReached == MessagesSpec => []StaffReached
BY MessagesInvariant, MessagesReach, PTL

-----------------------------------------------------------------------------
(* Tenancy: organisations, campuses and users                              *)

OrgRows == [status : {"absent", "active", "disabled"}, app : Apps \cup {"none"}, delivery : Apps \cup {"none"}]
SiteRows == [status : {"absent", "active", "closed"}, org : Orgs \cup {"none"}, kit : Orgs \cup {"none"}]
UserRows == [app : Apps \cup {"none"}, site : Sites \cup {"none"}]
OperatorRows == [pc : {"idle", "create", "update", "site", "chief"}, org : Orgs \cup {"none"},
                 app : Apps \cup {"none"}, delivery : Apps \cup {"none"}, hasSite : BOOLEAN, hasChief : BOOLEAN]
VisitorRows == [pc : {"idle", "login", "switch"}, app : Apps \cup {"none"}, org : Orgs \cup {"none"},
                site : Sites \cup {"none"}]

LEMMA TenancyTyped ==
  TenancyTypeOK <=>
    /\ org \in [Orgs -> OrgRows] /\ site \in [Sites -> SiteRows] /\ chief \in [Orgs -> Nat]
    /\ user \in [Users -> UserRows] /\ op \in [Operators -> OperatorRows]
    /\ visitor \in [Users -> VisitorRows] /\ disturbed \in BOOLEAN
BY DEF TenancyTypeOK, OrgRows, SiteRows, UserRows, OperatorRows, VisitorRows

LEMMA TenancyTypedNext ==
  TenancyTypeOK' <=>
    /\ org' \in [Orgs -> OrgRows] /\ site' \in [Sites -> SiteRows] /\ chief' \in [Orgs -> Nat]
    /\ user' \in [Users -> UserRows] /\ op' \in [Operators -> OperatorRows]
    /\ visitor' \in [Users -> VisitorRows] /\ disturbed' \in BOOLEAN
BY DEF TenancyTypeOK, OrgRows, SiteRows, UserRows, OperatorRows, VisitorRows

\* The empty rows, and how they are filled.
LEMMA EmptyRows ==
  /\ NoOrg \in OrgRows /\ NoSite \in SiteRows /\ NoUser \in UserRows
  /\ Unoccupied \in OperatorRows /\ Away \in VisitorRows
  /\ NoSite.status = "absent" /\ NoSite.kit = "none" /\ Unoccupied.pc = "idle" /\ Away.pc = "idle"
  /\ NoOrg.app = "none" /\ NoOrg.delivery = "none"
BY DEF NoOrg, OrgRows, NoSite, SiteRows, NoUser, UserRows, Unoccupied, OperatorRows, Away, VisitorRows

LEMMA NewOrgs == ASSUME NEW w \in OperatorRows
                 PROVE  NewOrg(w) \in OrgRows /\ NewOrg(w).app = w.app /\ NewOrg(w).delivery = w.delivery
BY DEF NewOrg, OrgRows, OperatorRows

LEMMA ReRegistered ==
  ASSUME NEW r \in OrgRows, NEW w \in OperatorRows
  PROVE  LET n == [r EXCEPT !.app = w.app, !.delivery = w.delivery]
         IN  n \in OrgRows /\ n.app = w.app /\ n.delivery = w.delivery
BY DEF OrgRows, OperatorRows

LEMMA OrgRequests ==
  ASSUME NEW pc \in {"create", "update"}, NEW o \in Orgs, NEW a \in Apps \cup {"none"}, NEW d \in Apps \cup {"none"}
  PROVE  LET w == [Unoccupied EXCEPT !.pc = pc, !.org = o, !.app = a, !.delivery = d]
         IN  w \in OperatorRows /\ w.pc = pc /\ w.org = o /\ w.app = a /\ w.delivery = d
BY DEF Unoccupied, OperatorRows

LEMMA Bootstraps ==
  ASSUME NEW o \in Orgs, NEW h \in BOOLEAN, NEW c \in BOOLEAN
  PROVE  LET w == [Unoccupied EXCEPT !.pc = "site", !.org = o, !.hasSite = h, !.hasChief = c]
         IN  w \in OperatorRows /\ w.pc = "site" /\ w.org = o /\ w.hasSite = h /\ w.hasChief = c
BY DEF Unoccupied, OperatorRows

LEMMA NextBootstrap ==
  ASSUME NEW w \in OperatorRows
  PROVE  LET v == [w EXCEPT !.pc = "chief"] IN v \in OperatorRows /\ v.pc = "chief" /\ v.org = w.org
BY DEF OperatorRows

LEMMA SiteOpens ==
  ASSUME NEW o \in Orgs \cup {"none"}, NEW k \in Orgs \cup {"none"}, NEW st \in {"active", "closed"}
  PROVE  LET r == [status |-> st, org |-> o, kit |-> k]
         IN  r \in SiteRows /\ r.status = st /\ r.org = o /\ r.kit = k
BY DEF SiteRows

LEMMA VisitorLogins ==
  ASSUME NEW a \in Apps, NEW o \in Orgs \cup {"none"}
  PROVE  LET w == [Away EXCEPT !.pc = "login", !.app = a, !.org = o]
         IN  w \in VisitorRows /\ w.pc = "login" /\ w.app = a /\ w.org = o
BY DEF Away, VisitorRows

LEMMA VisitorSwitches ==
  ASSUME NEW s \in Sites
  PROVE  LET w == [Away EXCEPT !.pc = "switch", !.site = s]
         IN  w \in VisitorRows /\ w.pc = "switch" /\ w.site = s
BY DEF Away, VisitorRows

\* Types, with any number of operators.
LEMMA TenancyTypesStep == TenancyTypeOK /\ [TenancyNext]_tenancyVars => TenancyTypeOK'
<1> SUFFICES ASSUME TenancyTypeOK, [TenancyNext]_tenancyVars PROVE TenancyTypeOK'
  OBVIOUS
<1>0. /\ org \in [Orgs -> OrgRows] /\ site \in [Sites -> SiteRows] /\ chief \in [Orgs -> Nat]
      /\ user \in [Users -> UserRows] /\ op \in [Operators -> OperatorRows]
      /\ visitor \in [Users -> VisitorRows] /\ disturbed \in BOOLEAN
  BY TenancyTyped
<1> USE TenancyTypedNext, EmptyRows
<1>1. CASE UNCHANGED tenancyVars
  BY <1>0, <1>1 DEF tenancyVars
<1>2. ASSUME NEW x \in Operators, OrgWrite(x) PROVE TenancyTypeOK'
  <2> DEFINE w == op[x]
             row == IF w.pc = "create" THEN NewOrg(w) ELSE [org[w.org] EXCEPT !.app = w.app, !.delivery = w.delivery]
  <2>1. w \in OperatorRows /\ op' = [op EXCEPT ![x] = Unoccupied] /\ UNCHANGED <<site, chief, user, visitor>>
    BY <1>0, <1>2 DEF OrgWrite, Release
  <2>2. CASE UNCHANGED <<org, disturbed>>
    BY <1>0, <2>1, <2>2
  <2>3. CASE org' = [org EXCEPT ![w.org] = row]
             /\ disturbed' = (disturbed \/ (w.app # org[w.org].app /\ \E u \in Users : Started(u)))
    <3>1. disturbed' \in BOOLEAN
      BY <1>0, <2>3
    <3>2. CASE w.org \in Orgs
      <4>1. org[w.org] \in OrgRows
        BY <1>0, <3>2
      <4>2. row \in OrgRows
        BY <2>1, <4>1, NewOrgs, ReRegistered
      <4> HIDE DEF row
      <4>3. org' \in [Orgs -> OrgRows]
        BY <1>0, <2>3, <3>2, <4>2
      <4>4. QED
        BY <1>0, <2>1, <3>1, <4>3
    <3>3. CASE w.org \notin Orgs
      <4> HIDE DEF row
      <4>1. org' \in [Orgs -> OrgRows]
        BY <1>0, <2>3, <3>3
      <4>2. QED
        BY <1>0, <2>1, <3>1, <4>1
    <3>4. QED
      BY <3>2, <3>3
  <2>4. QED
    BY <1>2, <2>2, <2>3 DEF OrgWrite
<1>3. ASSUME NEW o \in Orgs \cup {"none"}, NEW k \in Orgs \cup {"none"}, Opened(o, k) PROVE site' \in [Sites -> SiteRows]
  <2>1. PICK s \in Sites : site' = [site EXCEPT ![s] = [status |-> "active", org |-> o, kit |-> k]]
    BY <1>3 DEF Opened
  <2>2. [status |-> "active", org |-> o, kit |-> k] \in SiteRows
    BY SiteOpens
  <2>3. QED
    BY <1>0, <2>1, <2>2
<1>4. ASSUME NEW x \in Operators, BootstrapSite(x) PROVE TenancyTypeOK'
  <2> DEFINE w == op[x]
             v == IF w.hasChief THEN Unoccupied ELSE [w EXCEPT !.pc = "chief"]
  <2>1. v \in OperatorRows /\ w.org \in Orgs \cup {"none"}
    BY <1>0, NextBootstrap DEF OperatorRows
  <2>2. op' = [op EXCEPT ![x] = v] /\ UNCHANGED <<org, chief, user, visitor, disturbed>>
    BY <1>4 DEF BootstrapSite
  <2>3. site' \in [Sites -> SiteRows]
    BY <1>0, <1>3, <1>4, <2>1 DEF BootstrapSite
  <2> HIDE DEF v
  <2>4. QED
    BY <1>0, <2>1, <2>2, <2>3
<1>5. ASSUME NEW x \in Operators, BootstrapChief(x) PROVE TenancyTypeOK'
  <2>1. op' = [op EXCEPT ![x] = Unoccupied] /\ UNCHANGED <<org, site, user, visitor, disturbed>>
    BY <1>5 DEF BootstrapChief, Release
  <2>2. chief' = chief \/ chief' = [chief EXCEPT ![op[x].org] = @ + 1]
    BY <1>5 DEF BootstrapChief
  <2>3. chief' \in [Orgs -> Nat]
    BY <1>0, <2>2
  <2>4. QED
    BY <1>0, <2>1, <2>3
<1>6. ASSUME NEW x \in Operators, NEW o \in Orgs, BootstrapRead(x, o) PROVE TenancyTypeOK'
  <2> DEFINE w == [Unoccupied EXCEPT !.pc = "site", !.org = o, !.hasSite = SiteOf(o), !.hasChief = chief[o] > 0]
  <2>1. SiteOf(o) \in BOOLEAN /\ (chief[o] > 0) \in BOOLEAN
    BY DEF SiteOf
  <2>2. w \in OperatorRows
    BY <2>1, Bootstraps
  <2>3. op' = [op EXCEPT ![x] = w] /\ UNCHANGED <<org, site, chief, user, visitor, disturbed>>
    BY <1>6 DEF BootstrapRead, Take
  <2> HIDE DEF w
  <2>4. QED
    BY <1>0, <2>2, <2>3
<1>7. ASSUME NEW x \in Operators, NEW o \in Orgs, NEW a \in Apps \cup {"none"}, NEW d \in Apps \cup {"none"},
             OrgCheck(x, o, a, d)
      PROVE  TenancyTypeOK'
  <2>1. PICK pc \in {"create", "update"} :
          op' = [op EXCEPT ![x] = [Unoccupied EXCEPT !.pc = pc, !.org = o, !.app = a, !.delivery = d]]
    BY <1>7 DEF OrgCheck, Take
  <2> DEFINE w == [Unoccupied EXCEPT !.pc = pc, !.org = o, !.app = a, !.delivery = d]
  <2>2. w \in OperatorRows
    BY OrgRequests
  <2>3. op' = [op EXCEPT ![x] = w] /\ UNCHANGED <<org, site, chief, user, visitor, disturbed>>
    BY <1>7, <2>1 DEF OrgCheck
  <2> HIDE DEF w
  <2>4. QED
    BY <1>0, <2>2, <2>3
<1>8. ASSUME NEW o \in Orgs, CreateCampus(o) PROVE TenancyTypeOK'
  BY <1>0, <1>3, <1>8 DEF CreateCampus
<1>9. ASSUME NEW o \in Orgs, NEW st \in {"active", "disabled"}, SetOrganizationStatus(o, st) PROVE TenancyTypeOK'
  <2>1. [org[o] EXCEPT !.status = st] \in OrgRows
    BY <1>0 DEF OrgRows
  <2>2. org' = [org EXCEPT ![o] = [org[o] EXCEPT !.status = st]] /\ UNCHANGED <<site, chief, user, op, visitor, disturbed>>
    BY <1>9 DEF SetOrganizationStatus
  <2>3. QED
    BY <1>0, <2>1, <2>2
<1>10. ASSUME NEW s \in Sites, NEW st \in {"active", "closed"}, NEW o \in Orgs, UpdateCampus(s, st, o)
       PROVE  TenancyTypeOK'
  <2> DEFINE k == IF o = site[s].org THEN site[s].kit ELSE "none"
             r == [status |-> st, org |-> o, kit |-> k]
  <2>1. k \in Orgs \cup {"none"}
    BY <1>0 DEF SiteRows
  <2>2. r \in SiteRows
    BY <2>1, SiteOpens
  <2>3. site' = [site EXCEPT ![s] = r] /\ UNCHANGED <<org, chief, user, op, visitor>>
    BY <1>10 DEF UpdateCampus
  <2>4. disturbed' \in BOOLEAN
    BY <1>0, <1>10 DEF UpdateCampus
  <2> HIDE DEF r
  <2>5. QED
    BY <1>0, <2>2, <2>3, <2>4
<1>11. ASSUME NEW u \in Users, LoginWrite(u) PROVE TenancyTypeOK'
  <2>1. visitor' = [visitor EXCEPT ![u] = Away] /\ UNCHANGED <<org, site, chief, op, disturbed>>
    BY <1>11 DEF LoginWrite
  <2>2. user' = user \/ \E s \in Sites : user' = [user EXCEPT ![u] = [app |-> visitor[u].app, site |-> s]]
    BY <1>11 DEF LoginWrite
  <2>3. \A s \in Sites : [app |-> visitor[u].app, site |-> s] \in UserRows
    BY <1>0 DEF VisitorRows, UserRows
  <2>4. user' \in [Users -> UserRows]
    BY <1>0, <2>2, <2>3
  <2>5. QED
    BY <1>0, <2>1, <2>4
<1>12. ASSUME NEW u \in Users, SwitchWrite(u) PROVE TenancyTypeOK'
  <2>1. [user[u] EXCEPT !.site = visitor[u].site] \in UserRows
    BY <1>0 DEF UserRows, VisitorRows
  <2>2. /\ visitor' = [visitor EXCEPT ![u] = Away] /\ UNCHANGED <<org, site, chief, op, disturbed>>
        /\ user' = [user EXCEPT ![u] = [user[u] EXCEPT !.site = visitor[u].site]]
    BY <1>12 DEF SwitchWrite
  <2>3. QED
    BY <1>0, <2>1, <2>2
<1>13. ASSUME NEW u \in Users, NEW a \in Apps, LoginRead(u, a) PROVE TenancyTypeOK'
  <2>1. PICK o \in OrgOfApp(a) : visitor' = [visitor EXCEPT ![u] = [Away EXCEPT !.pc = "login", !.app = a, !.org = o]]
    BY <1>13 DEF LoginRead
  <2> DEFINE w == [Away EXCEPT !.pc = "login", !.app = a, !.org = o]
  <2>2. o \in Orgs \cup {"none"}
    BY DEF OrgOfApp, Resolved
  <2>3. w \in VisitorRows
    BY <2>2, VisitorLogins
  <2>4. visitor' = [visitor EXCEPT ![u] = w] /\ UNCHANGED <<org, site, chief, user, op, disturbed>>
    BY <1>13, <2>1 DEF LoginRead
  <2> HIDE DEF w
  <2>5. QED
    BY <1>0, <2>3, <2>4
<1>14. ASSUME NEW u \in Users, NEW s \in Sites, SwitchRead(u, s) PROVE TenancyTypeOK'
  <2> DEFINE w == [Away EXCEPT !.pc = "switch", !.site = s]
  <2>1. w \in VisitorRows
    BY VisitorSwitches
  <2>2. visitor' = [visitor EXCEPT ![u] = w] /\ UNCHANGED <<org, site, chief, user, op, disturbed>>
    BY <1>14 DEF SwitchRead
  <2> HIDE DEF w
  <2>3. QED
    BY <1>0, <2>1, <2>2
<1>15. QED
  BY <1>1, <1>2, <1>4, <1>5, <1>6, <1>7, <1>8, <1>9, <1>10, <1>11, <1>12, <1>13, <1>14 DEF TenancyNext

\* What an operator has read still holds, since it is the only one.
Prepared ==
  \A x \in Operators :
    /\ op[x].pc # "idle" => op[x].org \in Orgs
    /\ op[x].pc \in {"create", "update"} => Registrable(op[x].org, op[x].app, op[x].delivery)
    /\ op[x].pc = "site" /\ ~op[x].hasSite => \A s \in Sites : site[s].kit # op[x].org
    /\ op[x].pc = "site" /\ ~op[x].hasChief => chief[op[x].org] = 0
    /\ op[x].pc = "chief" => chief[op[x].org] = 0

\* No AppID stands at two organisations.
AppsApart ==
  \A a \in Apps, o, n \in Orgs :
    a \in {org[o].app, org[o].delivery} /\ a \in {org[n].app, org[n].delivery} => o = n

\* Of a bootstrap's campus it is on record while it is its organisation's.
Kits ==
  /\ \A s \in Sites : site[s].kit \in Orgs => site[s].kit = site[s].org /\ site[s].status # "absent"
  /\ \A s, r \in Sites : site[s].kit \in Orgs /\ site[s].kit = site[r].kit => s = r
  /\ \A o \in Orgs : chief[o] <= 1

\* Users and where they are, or are about to be.
There(s) == s \in Sites /\ site[s].status # "absent"
AtHome(u) ==
  /\ user[u] # NoUser => Resolved(user[u].app) \subseteq {site[user[u].site].org}
  /\ visitor[u].pc = "login" => Resolved(visitor[u].app) \subseteq {visitor[u].org}
  /\ visitor[u].pc = "switch" => site[visitor[u].site].org = site[user[u].site].org
Housed ==
  \A u \in Users :
    /\ user[u] # NoUser => There(user[u].site)
    /\ visitor[u].pc = "switch" => user[u] # NoUser /\ There(visitor[u].site)
    /\ ~disturbed => AtHome(u)

TenancyInv == TenancyTypeOK /\ Prepared /\ AppsApart /\ Kits /\ Housed

LEMMA TenancyBegins == TenancyInit => TenancyInv
<1> SUFFICES ASSUME TenancyInit PROVE TenancyInv
  OBVIOUS
<1>1. org \in [Orgs -> OrgRows] /\ \A o \in Orgs : org[o].app = "none" /\ org[o].delivery = "none"
  <2>1. /\ [NoOrg EXCEPT !.status = "active"] \in OrgRows
        /\ [NoOrg EXCEPT !.status = "active"].app = "none" /\ [NoOrg EXCEPT !.status = "active"].delivery = "none"
    BY DEF NoOrg, OrgRows
  <2>2. QED
    BY <2>1, EmptyRows DEF TenancyInit
<1>2. /\ site = [s \in Sites |-> NoSite] /\ chief = [o \in Orgs |-> 0] /\ user = [u \in Users |-> NoUser]
      /\ op = [x \in Operators |-> Unoccupied] /\ visitor = [u \in Users |-> Away] /\ disturbed = FALSE
  BY DEF TenancyInit
<1>3. TenancyTypeOK
  BY <1>1, <1>2, TenancyTyped, EmptyRows
<1>4. Prepared
  BY <1>2, EmptyRows DEF Prepared
<1>5. AppsApart
  BY <1>1, TenancyAssumption DEF AppsApart
<1>6. Kits
  BY <1>2, EmptyRows, TenancyAssumption DEF Kits
<1>7. Housed
  BY <1>2, EmptyRows DEF Housed, AtHome
<1>8. QED
  BY <1>3, <1>4, <1>5, <1>6, <1>7 DEF TenancyInv

\* An organisation is created or re-registered.
LEMMA OrgWriteStep ==
  ASSUME TenancyInv, TenancyTypeOK', \A x, y \in Operators : x = y, NEW x \in Operators, OrgWrite(x)
  PROVE  Prepared' /\ AppsApart' /\ Kits' /\ Housed'
<1> DEFINE w == op[x]
           row == IF w.pc = "create" THEN NewOrg(w) ELSE [org[w.org] EXCEPT !.app = w.app, !.delivery = w.delivery]
<1>0. /\ org \in [Orgs -> OrgRows] /\ site \in [Sites -> SiteRows] /\ chief \in [Orgs -> Nat]
      /\ user \in [Users -> UserRows] /\ op \in [Operators -> OperatorRows]
      /\ visitor \in [Users -> VisitorRows] /\ disturbed \in BOOLEAN
      /\ Prepared /\ AppsApart /\ Kits /\ Housed
  BY TenancyTyped DEF TenancyInv
<1>1. w \in OperatorRows /\ op' = [op EXCEPT ![x] = Unoccupied] /\ UNCHANGED <<site, chief, user, visitor>>
      /\ w.pc \in {"create", "update"}
  BY <1>0 DEF OrgWrite, Release
<1>2. Prepared'
  BY <1>0, <1>1, EmptyRows DEF Prepared
<1>3. Kits'
  BY <1>0, <1>1 DEF Kits
<1>4. CASE UNCHANGED <<org, disturbed>>
  BY <1>0, <1>1, <1>2, <1>3, <1>4 DEF AppsApart, Housed, AtHome, There, Resolved
<1>5. CASE /\ org' = [org EXCEPT ![w.org] = row]
           /\ disturbed' = (disturbed \/ (w.app # org[w.org].app /\ \E u \in Users : Started(u)))
  <2> DEFINE o == w.org
  <2>1. o \in Orgs /\ Registrable(o, w.app, w.delivery)
    BY <1>0, <1>1 DEF Prepared
  <2>2. row.app = w.app /\ row.delivery = w.delivery
    BY ZenonT(40), <1>0, <1>1, <2>1, NewOrgs, ReRegistered
  <2> HIDE DEF row
  <2>3. org'[o] = row /\ \A n \in Orgs \ {o} : org'[n] = org[n]
    BY <1>0, <1>5, <2>1
  <2>4. ASSUME NEW a \in Apps, NEW n \in Orgs \ {o}, a \in {w.app, w.delivery}
        PROVE  a \notin {org[n].app, org[n].delivery}
    <3>1. a # "none"
      BY TenancyAssumption
    <3>2. QED
      BY <2>1, <2>4, <3>1 DEF Registrable, TakenElsewhere
  <2>5. AppsApart'
    <3> SUFFICES ASSUME NEW a \in Apps, NEW m \in Orgs, NEW n \in Orgs,
                        a \in {org'[m].app, org'[m].delivery}, a \in {org'[n].app, org'[n].delivery}
                 PROVE  m = n
      BY DEF AppsApart
    <3>1. CASE m = o /\ n # o
      BY <2>2, <2>3, <2>4, <3>1
    <3>2. CASE m # o /\ n = o
      BY <2>2, <2>3, <2>4, <3>2
    <3>3. CASE m # o /\ n # o
      BY <1>0, <2>3, <3>3 DEF AppsApart
    <3>4. QED
      BY <3>1, <3>2, <3>3
  <2>6. CASE disturbed'
    BY <1>0, <1>1, <1>2, <1>3, <2>5, <2>6 DEF Housed, There
  <2>7. CASE w.app = org[o].app /\ disturbed' = disturbed
    <3>1. \A n \in Orgs : org'[n].app = org[n].app
      BY <2>2, <2>3, <2>7
    <3>2. \A a : Resolved(a)' = Resolved(a)
      BY <3>1 DEF Resolved
    <3>3. Housed'
      BY <1>0, <1>1, <2>7, <3>2 DEF Housed, AtHome, There
    <3>4. QED
      BY <1>2, <1>3, <2>5, <3>3
  <2>8. CASE ~\E u \in Users : Started(u)
    <3>1. \A u \in Users : user'[u] = NoUser /\ visitor'[u].pc = "idle"
      BY <1>1, <2>8, EmptyRows DEF Started
    <3>2. Housed'
      BY <3>1 DEF Housed, AtHome
    <3>3. QED
      BY <1>2, <1>3, <2>5, <3>2
  <2>9. QED
    BY <1>0, <1>5, <2>6, <2>7, <2>8
<1>6. QED
  BY <1>4, <1>5 DEF OrgWrite

\* A campus is opened.
LEMMA OpenedStep ==
  ASSUME TenancyInv, NEW o \in Orgs, NEW k \in Orgs \cup {"none"}, Opened(o, k), k \in {o, "none"},
         \A s \in Sites : k \in Orgs => site[s].kit # k, UNCHANGED <<org, chief, user, visitor, disturbed>>
  PROVE  Kits' /\ Housed'
<1>0. /\ site \in [Sites -> SiteRows] /\ Kits /\ Housed
  BY TenancyTyped DEF TenancyInv
<1>1. PICK s \in Sites : site[s] = NoSite /\ site' = [site EXCEPT ![s] = [status |-> "active", org |-> o, kit |-> k]]
  BY DEF Opened
<1> DEFINE r == [status |-> "active", org |-> o, kit |-> k]
<1>2. r.status = "active" /\ r.org = o /\ r.kit = k
  BY SiteOpens
<1> HIDE DEF r
<1>3. site'[s] = r /\ \A x \in Sites : x # s => site'[x] = site[x]
  BY <1>0, <1>1 DEF r
<1>4. Kits'
  <2>1. \A x \in Sites : site'[x].kit \in Orgs => site'[x].kit = site'[x].org /\ site'[x].status # "absent"
    BY <1>0, <1>2, <1>3, TenancyAssumption DEF Kits
  <2>2. \A x, y \in Sites : site'[x].kit \in Orgs /\ site'[x].kit = site'[y].kit => x = y
    BY <1>0, <1>2, <1>3 DEF Kits
  <2>3. QED
    BY <1>0, <2>1, <2>2 DEF Kits
<1>5. \A x : There(x) => x # s /\ site'[x] = site[x]
  BY <1>1, <1>3, EmptyRows DEF There
<1>6. \A x : There(x) => There(x)'
  BY <1>5 DEF There
<1>7. \A a : Resolved(a)' = Resolved(a)
  BY DEF Resolved
<1>8. Housed'
  BY <1>0, <1>5, <1>6, <1>7 DEF Housed, AtHome
<1>9. QED
  BY <1>4, <1>8

LEMMA TenancyStep ==
  ASSUME \A x, y \in Operators : x = y, TenancyInv, [TenancyNext]_tenancyVars
  PROVE  TenancyInv'
<1>0. /\ org \in [Orgs -> OrgRows] /\ site \in [Sites -> SiteRows] /\ chief \in [Orgs -> Nat]
      /\ user \in [Users -> UserRows] /\ op \in [Operators -> OperatorRows]
      /\ visitor \in [Users -> VisitorRows] /\ disturbed \in BOOLEAN
      /\ Prepared /\ AppsApart /\ Kits /\ Housed
  BY TenancyTyped DEF TenancyInv
<1>a. TenancyTypeOK'
  BY TenancyTypesStep DEF TenancyInv
<1> SUFFICES Prepared' /\ AppsApart' /\ Kits' /\ Housed'
  BY <1>a DEF TenancyInv
\* Everyone is at rest when an operator is free.
<1>b. ASSUME AtHand PROVE \A x \in Operators : op[x].pc = "idle"
  BY <1>b, EmptyRows DEF AtHand
<1>1. CASE UNCHANGED tenancyVars
  BY <1>0, <1>1 DEF tenancyVars, Prepared, Registrable, TakenElsewhere, AppsApart, Kits, Housed, AtHome, There, Resolved
<1>2. ASSUME NEW x \in Operators, OrgWrite(x) PROVE Prepared' /\ AppsApart' /\ Kits' /\ Housed'
  BY <1>a, <1>2, OrgWriteStep
\* An operator's request reads.
<1>3. ASSUME NEW x \in Operators, NEW w \in OperatorRows, op' = [op EXCEPT ![x] = w],
             UNCHANGED <<org, site, chief, user, visitor, disturbed>>,
             w.pc # "idle" => w.org \in Orgs,
             w.pc \in {"create", "update"} => Registrable(w.org, w.app, w.delivery),
             w.pc = "site" /\ ~w.hasSite => \A s \in Sites : site[s].kit # w.org,
             w.pc = "site" /\ ~w.hasChief => chief[w.org] = 0,
             w.pc = "chief" => chief[w.org] = 0
      PROVE  Prepared' /\ AppsApart' /\ Kits' /\ Housed'
  <2>1. \A y \in Operators : op'[y] = w
    BY <1>0, <1>3
  <2>2. Prepared'
    BY <1>3, <2>1 DEF Prepared, Registrable, TakenElsewhere
  <2>3. QED
    BY <1>0, <1>3, <2>2 DEF AppsApart, Kits, Housed, AtHome, There, Resolved
<1>4. ASSUME NEW x \in Operators, BootstrapSite(x) PROVE Prepared' /\ AppsApart' /\ Kits' /\ Housed'
  <2> DEFINE w == op[x]
             v == IF w.hasChief THEN Unoccupied ELSE [w EXCEPT !.pc = "chief"]
  <2>1. /\ w.pc = "site" /\ w.org \in Orgs /\ w \in OperatorRows /\ w.hasChief \in BOOLEAN
        /\ ~w.hasChief => chief[w.org] = 0
        /\ ~w.hasSite => \A s \in Sites : site[s].kit # w.org
    BY <1>0, <1>4 DEF BootstrapSite, Prepared, OperatorRows
  <2>2. /\ op' = [op EXCEPT ![x] = v] /\ UNCHANGED <<org, chief, user, visitor, disturbed>>
        /\ \/ site' = site
           \/ ~w.hasSite /\ Opened(w.org, w.org)
    BY <1>4 DEF BootstrapSite
  <2>3. /\ v \in OperatorRows
        /\ \/ v.pc = "idle"
           \/ v.pc = "chief" /\ v.org = w.org /\ chief[w.org] = 0
    BY <2>1, NextBootstrap, EmptyRows
  <2> HIDE DEF v
  <2>4. \A y \in Operators : op'[y] = v
    BY <1>0, <2>2
  <2>5. Prepared'
    BY <2>1, <2>2, <2>3, <2>4 DEF Prepared
  <2>6. AppsApart'
    BY <1>0, <2>2 DEF AppsApart
  <2>7. CASE site' = site
    BY <1>0, <2>2, <2>5, <2>6, <2>7 DEF Kits, Housed, AtHome, There, Resolved
  <2>8. CASE ~w.hasSite /\ Opened(w.org, w.org)
    BY <2>1, <2>2, <2>5, <2>6, <2>8, OpenedStep
  <2>9. QED
    BY <2>2, <2>7, <2>8
<1>5. ASSUME NEW x \in Operators, BootstrapChief(x) PROVE Prepared' /\ AppsApart' /\ Kits' /\ Housed'
  <2>1. /\ op' = [op EXCEPT ![x] = Unoccupied] /\ UNCHANGED <<org, site, user, visitor, disturbed>>
        /\ op[x].org \in Orgs /\ chief[op[x].org] = 0
    BY <1>0, <1>5 DEF BootstrapChief, Release, Prepared
  <2>2. chief' = chief \/ chief' = [chief EXCEPT ![op[x].org] = @ + 1]
    BY <1>5 DEF BootstrapChief
  <2>3. \A y \in Operators : op'[y].pc = "idle"
    BY <1>0, <2>1, EmptyRows
  <2>4. Prepared'
    BY <2>3 DEF Prepared
  <2>5. \A o \in Orgs : chief'[o] <= 1
    BY <1>0, <2>1, <2>2 DEF Kits
  <2>6. QED
    BY <1>0, <2>1, <2>4, <2>5 DEF AppsApart, Kits, Housed, AtHome, There, Resolved
<1>6. ASSUME NEW x \in Operators, NEW o \in Orgs, BootstrapRead(x, o)
      PROVE  Prepared' /\ AppsApart' /\ Kits' /\ Housed'
  <2> DEFINE h == SiteOf(o)
             c == chief[o] > 0
  <2>1. h \in BOOLEAN /\ c \in BOOLEAN
    BY DEF SiteOf
  <2> DEFINE w == [Unoccupied EXCEPT !.pc = "site", !.org = o, !.hasSite = h, !.hasChief = c]
  <2>2. op' = [op EXCEPT ![x] = w] /\ UNCHANGED <<org, site, chief, user, visitor, disturbed>>
    BY <1>6 DEF BootstrapRead, Take
  <2>3. ~h => \A s \in Sites : site[s].kit # o
    BY <1>0 DEF SiteOf, Kits
  <2>4. ~c => chief[o] = 0
    BY <1>0
  <2> HIDE DEF h, c
  <2>5. w \in OperatorRows /\ w.pc = "site" /\ w.org = o /\ (~w.hasSite => ~h) /\ (~w.hasChief => ~c)
    BY <2>1 DEF Unoccupied, OperatorRows
  <2> HIDE DEF w
  <2>6. QED
    BY <1>3, <2>5, <2>2, <2>3, <2>4
<1>7. ASSUME NEW x \in Operators, NEW o \in Orgs, NEW a \in Apps \cup {"none"}, NEW d \in Apps \cup {"none"},
             OrgCheck(x, o, a, d)
      PROVE  Prepared' /\ AppsApart' /\ Kits' /\ Housed'
  <2>1. PICK pc \in {"create", "update"} :
          op' = [op EXCEPT ![x] = [Unoccupied EXCEPT !.pc = pc, !.org = o, !.app = a, !.delivery = d]]
    BY <1>7 DEF OrgCheck, Take
  <2> DEFINE w == [Unoccupied EXCEPT !.pc = pc, !.org = o, !.app = a, !.delivery = d]
  <2>2. w \in OperatorRows /\ w.pc = pc /\ w.org = o /\ w.app = a /\ w.delivery = d
    BY DEF Unoccupied, OperatorRows
  <2>3. op' = [op EXCEPT ![x] = w] /\ UNCHANGED <<org, site, chief, user, visitor, disturbed>> /\ Registrable(o, a, d)
    BY <1>7, <2>1 DEF OrgCheck
  <2> HIDE DEF w
  <2>4. QED
    BY <1>3, <2>2, <2>3
<1>8. ASSUME NEW o \in Orgs, CreateCampus(o) PROVE Prepared' /\ AppsApart' /\ Kits' /\ Housed'
  <2>1. AtHand /\ Opened(o, "none") /\ UNCHANGED <<org, chief, user, op, visitor, disturbed>> /\ "none" \notin Orgs
    BY <1>8, TenancyAssumption DEF CreateCampus
  <2>2. Prepared'
    BY <1>b, <2>1 DEF Prepared
  <2>3. Kits' /\ Housed'
    BY <2>1, OpenedStep
  <2>4. QED
    BY <1>0, <2>1, <2>2, <2>3 DEF AppsApart
<1>9. ASSUME NEW o \in Orgs, NEW st \in {"active", "disabled"}, SetOrganizationStatus(o, st)
      PROVE  Prepared' /\ AppsApart' /\ Kits' /\ Housed'
  <2>1. /\ AtHand /\ org' = [org EXCEPT ![o] = [org[o] EXCEPT !.status = st]]
        /\ UNCHANGED <<site, chief, user, op, visitor, disturbed>>
    BY <1>9 DEF SetOrganizationStatus
  <2>2. LET r == [org[o] EXCEPT !.status = st] IN r.app = org[o].app /\ r.delivery = org[o].delivery
    BY <1>0 DEF OrgRows
  <2>3. \A n \in Orgs : org'[n].app = org[n].app /\ org'[n].delivery = org[n].delivery
    BY <1>0, <2>1, <2>2
  <2>4. Prepared'
    BY <1>b, <2>1 DEF Prepared
  <2>5. \A a : Resolved(a)' = Resolved(a)
    BY <2>3 DEF Resolved
  <2>6. AppsApart' /\ Kits'
    BY <1>0, <2>1, <2>3 DEF AppsApart, Kits
  <2>7. Housed'
    BY <1>0, <2>1, <2>5 DEF Housed, AtHome, There
  <2>8. QED
    BY <2>4, <2>6, <2>7
<1>10. ASSUME NEW s \in Sites, NEW st \in {"active", "closed"}, NEW o \in Orgs, UpdateCampus(s, st, o)
       PROVE  Prepared' /\ AppsApart' /\ Kits' /\ Housed'
  <2> DEFINE k == IF o = site[s].org THEN site[s].kit ELSE "none"
             r == [status |-> st, org |-> o, kit |-> k]
  <2>1. k \in Orgs \cup {"none"}
    BY <1>0 DEF SiteRows
  <2>2. r.status = st /\ r.org = o /\ r.kit = k
    BY <2>1, SiteOpens
  <2>3. /\ AtHand /\ site' = [site EXCEPT ![s] = r] /\ UNCHANGED <<org, chief, user, op, visitor>>
        /\ disturbed' = (disturbed \/ (o # site[s].org /\ \E u \in Users : Started(u)))
    BY <1>10 DEF UpdateCampus
  <2> HIDE DEF r
  <2>4. site'[s] = r /\ \A x \in Sites : x # s => site'[x] = site[x]
    BY <1>0, <2>3
  <2>5. Prepared'
    BY <1>b, <2>3 DEF Prepared
  <2>6. AppsApart'
    BY <1>0, <2>3 DEF AppsApart
  <2>7. Kits'
    <3>1. \A x \in Sites : site'[x].kit \in Orgs => site'[x].kit = site[x].kit
      BY <2>2, <2>4, TenancyAssumption
    <3>2. \A x \in Sites : site'[x].kit \in Orgs => site'[x].kit = site'[x].org /\ site'[x].status # "absent"
      BY <1>0, <2>2, <2>4, TenancyAssumption DEF Kits
    <3>3. \A x, y \in Sites : site'[x].kit \in Orgs /\ site'[x].kit = site'[y].kit => x = y
      BY <1>0, <3>1 DEF Kits
    <3>4. QED
      BY <1>0, <2>3, <3>2, <3>3 DEF Kits
  <2>8. \A x : There(x) => There(x)'
    BY <2>2, <2>4 DEF There
  <2>9. CASE disturbed'
    BY <1>0, <2>3, <2>5, <2>6, <2>7, <2>8, <2>9 DEF Housed
  <2>10. CASE o = site[s].org /\ disturbed' = disturbed
    <3>1. \A x \in Sites : site'[x].org = site[x].org
      BY <2>2, <2>4, <2>10
    <3>2. \A a : Resolved(a)' = Resolved(a)
      BY <2>3 DEF Resolved
    <3>3. Housed'
      BY ZenonT(40), <1>0, <2>3, <2>8, <2>10, <3>1, <3>2 DEF Housed, AtHome, There
    <3>4. QED
      BY <2>5, <2>6, <2>7, <3>3
  <2>11. CASE ~\E u \in Users : Started(u)
    <3>1. \A u \in Users : user'[u] = NoUser /\ visitor'[u].pc = "idle"
      BY <2>3, <2>11, EmptyRows DEF Started
    <3>2. Housed'
      BY <3>1 DEF Housed, AtHome
    <3>3. QED
      BY <2>5, <2>6, <2>7, <3>2
  <2>12. QED
    BY <1>0, <2>3, <2>9, <2>10, <2>11
\* A user's request.
<1>c. ASSUME NEW u \in Users, UNCHANGED <<org, site, chief, op, disturbed>>,
             \A x \in Users : x # u => user'[x] = user[x] /\ visitor'[x] = visitor[x],
             user'[u] # NoUser => There(user'[u].site),
             visitor'[u].pc = "switch" => user'[u] # NoUser /\ There(visitor'[u].site),
             ~disturbed => AtHome(u)'
      PROVE  Prepared' /\ AppsApart' /\ Kits' /\ Housed'
  <2>1. Prepared' /\ AppsApart' /\ Kits'
    BY <1>0, <1>c DEF Prepared, Registrable, TakenElsewhere, AppsApart, Kits
  <2>2. \A a : Resolved(a)' = Resolved(a)
    BY <1>c DEF Resolved
  <2>3. \A x \in Users : x # u => (AtHome(x)' <=> AtHome(x))
    BY <1>c, <2>2 DEF AtHome
  <2>4. Housed'
    BY <1>0, <1>c, <2>3 DEF Housed, There
  <2>5. QED
    BY <2>1, <2>4
<1>d. ASSUME NEW u \in Users
      PROVE  /\ user[u] # NoUser => There(user[u].site)
             /\ visitor[u].pc = "switch" => user[u] # NoUser /\ There(visitor[u].site)
             /\ ~disturbed => AtHome(u)
  BY <1>0 DEF Housed
<1>11. ASSUME NEW u \in Users, LoginWrite(u) PROVE Prepared' /\ AppsApart' /\ Kits' /\ Housed'
  <2> DEFINE w == visitor[u]
  <2>1. /\ w.pc = "login" /\ visitor' = [visitor EXCEPT ![u] = Away] /\ UNCHANGED <<org, site, chief, op, disturbed>>
        /\ \/ user' = user
           \/ \E s \in Sites : Welcome(s, w.org) /\ user' = [user EXCEPT ![u] = [app |-> w.app, site |-> s]]
    BY <1>11 DEF LoginWrite
  <2>2. visitor'[u].pc = "idle" /\ \A x \in Users : x # u => visitor'[x] = visitor[x]
    BY <1>0, <2>1, EmptyRows
  <2>3. \A a : Resolved(a)' = Resolved(a)
    BY <2>1 DEF Resolved
  <2>4. CASE user' = user
    <3>1. ~disturbed => AtHome(u)'
      BY <1>0, <1>d, <2>1, <2>2, <2>3, <2>4 DEF AtHome
    <3>2. QED
      BY <1>0, <1>c, <1>d, <2>1, <2>2, <2>4, <3>1
  <2>5. ASSUME NEW s \in Sites, Welcome(s, w.org), user' = [user EXCEPT ![u] = [app |-> w.app, site |-> s]]
        PROVE  Prepared' /\ AppsApart' /\ Kits' /\ Housed'
    <3>1. user'[u].app = w.app /\ user'[u].site = s /\ \A x \in Users : x # u => user'[x] = user[x]
      BY <1>0, <2>5
    <3>2. There(s)
      BY <2>5 DEF There, Welcome
    <3>3. ASSUME ~disturbed PROVE Resolved(w.app) \subseteq {site[s].org}
      <4>1. Resolved(w.app) \subseteq {w.org} /\ Resolved(w.app) \subseteq Orgs
        BY <1>0, <1>d, <2>1, <3>3 DEF AtHome, Resolved
      <4>2. CASE w.org = "none"
        BY <4>1, <4>2, TenancyAssumption
      <4>3. CASE site[s].org = w.org
        BY <4>1, <4>3
      <4>4. QED
        BY <2>5, <4>2, <4>3 DEF Welcome
    <3>4. ~disturbed => AtHome(u)'
      BY <2>1, <2>2, <2>3, <3>1, <3>3 DEF AtHome
    <3>5. QED
      BY <1>c, <2>1, <2>2, <3>1, <3>2, <3>4
  <2>6. QED
    BY <2>1, <2>4, <2>5
<1>12. ASSUME NEW u \in Users, SwitchWrite(u) PROVE Prepared' /\ AppsApart' /\ Kits' /\ Housed'
  <2> DEFINE row == [user[u] EXCEPT !.site = visitor[u].site]
  <2>1. row.app = user[u].app /\ row.site = visitor[u].site
    BY <1>0 DEF UserRows
  <2>2. /\ visitor[u].pc = "switch" /\ visitor' = [visitor EXCEPT ![u] = Away]
        /\ UNCHANGED <<org, site, chief, op, disturbed>> /\ user' = [user EXCEPT ![u] = row]
    BY <1>12 DEF SwitchWrite
  <2> HIDE DEF row
  <2>3. /\ visitor'[u].pc = "idle" /\ user'[u] = row
        /\ \A x \in Users : x # u => visitor'[x] = visitor[x] /\ user'[x] = user[x]
    BY <1>0, <2>2, EmptyRows
  <2>4. \A a : Resolved(a)' = Resolved(a)
    BY <2>2 DEF Resolved
  <2>5. There(visitor[u].site) /\ user[u] # NoUser
    BY <1>0, <1>d, <2>2
  <2>6. ~disturbed => AtHome(u)'
    BY ZenonT(40), <1>0, <1>d, <2>1, <2>2, <2>3, <2>4, <2>5 DEF AtHome
  <2>7. QED
    BY <1>c, <2>1, <2>2, <2>3, <2>5, <2>6
<1>13. ASSUME NEW u \in Users, NEW a \in Apps, LoginRead(u, a) PROVE Prepared' /\ AppsApart' /\ Kits' /\ Housed'
  <2>1. PICK o \in OrgOfApp(a) : visitor' = [visitor EXCEPT ![u] = [Away EXCEPT !.pc = "login", !.app = a, !.org = o]]
    BY <1>13 DEF LoginRead
  <2> DEFINE w == [Away EXCEPT !.pc = "login", !.app = a, !.org = o]
  <2>2. o \in Orgs \cup {"none"}
    BY DEF OrgOfApp, Resolved
  <2>3. w.pc = "login" /\ w.app = a /\ w.org = o
    BY <2>2, VisitorLogins
  <2>4. visitor' = [visitor EXCEPT ![u] = w] /\ UNCHANGED <<org, site, chief, user, op, disturbed>>
    BY <1>13, <2>1 DEF LoginRead
  <2> HIDE DEF w
  <2>5. visitor'[u] = w /\ \A x \in Users : x # u => visitor'[x] = visitor[x]
    BY <1>0, <2>4
  <2>6. Resolved(a) \subseteq {o}
    BY <1>0 DEF OrgOfApp, Resolved, AppsApart
  <2>7. \A b : Resolved(b)' = Resolved(b)
    BY <2>4 DEF Resolved
  <2>8. ~disturbed => AtHome(u)'
    BY <1>0, <1>d, <2>3, <2>4, <2>5, <2>6, <2>7 DEF AtHome
  <2>9. QED
    BY <1>0, <1>c, <1>d, <2>3, <2>4, <2>5, <2>8
<1>14. ASSUME NEW u \in Users, NEW s \in Sites, SwitchRead(u, s) PROVE Prepared' /\ AppsApart' /\ Kits' /\ Housed'
  <2> DEFINE w == [Away EXCEPT !.pc = "switch", !.site = s]
  <2>1. w.pc = "switch" /\ w.site = s
    BY VisitorSwitches
  <2>2. /\ visitor' = [visitor EXCEPT ![u] = w] /\ UNCHANGED <<org, site, chief, user, op, disturbed>>
        /\ user[u] # NoUser /\ SameOrg(user[u].site, s)
    BY <1>14 DEF SwitchRead
  <2> HIDE DEF w
  <2>3. visitor'[u] = w /\ \A x \in Users : x # u => visitor'[x] = visitor[x]
    BY <1>0, <2>2
  <2>4. There(s)
    BY <2>2 DEF SameOrg, There
  <2>5. \A a : Resolved(a)' = Resolved(a)
    BY <2>2 DEF Resolved
  <2>6. ~disturbed => AtHome(u)'
    BY <1>0, <1>d, <2>1, <2>2, <2>3, <2>5 DEF AtHome, SameOrg
  <2>7. QED
    BY <1>0, <1>c, <1>d, <2>1, <2>2, <2>3, <2>4, <2>6
<1>15. QED
  BY <1>1, <1>2, <1>4, <1>5, <1>6, <1>7, <1>8, <1>9, <1>10, <1>11, <1>12, <1>13, <1>14 DEF TenancyNext

LEMMA TenancyHolds == TenancyInv => Tenanted
<1> SUFFICES ASSUME TenancyInv PROVE Tenanted
  OBVIOUS
<1>1. AppOfOneOrg
  <2> SUFFICES ASSUME NEW a \in Apps PROVE Cardinality({o \in Orgs : a \in {org[o].app, org[o].delivery}}) <= 1
    BY DEF AppOfOneOrg
  <2>1. \A o, n \in {m \in Orgs : a \in {org[m].app, org[m].delivery}} : o = n
    BY DEF TenancyInv, AppsApart
  <2>2. QED
    BY <2>1, AtMostOne
<1>2. KitOnce
  <2> SUFFICES ASSUME NEW o \in Orgs PROVE chief[o] <= 1 /\ Cardinality({s \in Sites : site[s].kit = o}) <= 1
    BY DEF KitOnce
  <2>1. \A s, r \in {x \in Sites : site[x].kit = o} : s = r
    BY DEF TenancyInv, Kits
  <2>2. chief[o] <= 1
    BY DEF TenancyInv, Kits
  <2>3. QED
    BY <2>1, <2>2, AtMostOne
<1>3. UserAtHome
  BY DEF TenancyInv, Housed, AtHome, UserAtHome
<1>4. QED
  BY <1>1, <1>2, <1>3 DEF Tenanted

\* Through the requests of one operator, whatever users do meanwhile: an AppID
\* stands at one organisation, a bootstrap submitted again makes no second
\* campus and no second administrator, and users are at campuses of their mini
\* program's organisation (assertOrganizationUnique, bootstrapOrganization,
\* wechatLogin, switchUserCampus).
THEOREM TenantsApart == (\A x, y \in Operators : x = y) /\ TenancySpec => []Tenanted
<1>1. ASSUME \A x, y \in Operators : x = y PROVE TenancySpec => []Tenanted
  <2>1. TenancyInv /\ [TenancyNext]_tenancyVars => TenancyInv'
    BY <1>1, TenancyStep
  <2>2. QED
    BY <2>1, TenancyBegins, TenancyHolds, PTL DEF TenancySpec
<1>2. QED
  BY <1>1

-----------------------------------------------------------------------------
(* Benefits: coupons and the wheel                                         *)

CouponRows == [status : {"absent", "active", "disabled", "expired", "deleted"}, kind : {"platform", "partner"},
               trigger : {"manual", "lottery", "signup"}, total : Totals \cup {0}, limit : 0..1, claimed : Nat]
HeldRows == [unused : Nat, used : Nat]
VisitRows == [op : {"none", "claim", "signup", "draw", "issue", "total", "delete"}, by : SUBSET Customers,
              day : Days \cup {0}, prize : Prizes, total : Totals \cup {0}]

LEMMA BenefitTyped ==
  BenefitTypeOK <=>
    /\ marketing \in BOOLEAN /\ coupon \in CouponRows /\ held \in [Customers -> HeldRows]
    /\ wheel \in {"off", "blank", "coupon"} /\ today \in Days
    /\ draws \in [Customers \X Days -> Prizes \cup {"undrawn"}] /\ lowered \in BOOLEAN
    /\ won \in [Customers -> Nat] /\ visit \in [Visits -> VisitRows]
BY DEF BenefitTypeOK, CouponRows, HeldRows, VisitRows

LEMMA BenefitTypedNext ==
  BenefitTypeOK' <=>
    /\ marketing' \in BOOLEAN /\ coupon' \in CouponRows /\ held' \in [Customers -> HeldRows]
    /\ wheel' \in {"off", "blank", "coupon"} /\ today' \in Days
    /\ draws' \in [Customers \X Days -> Prizes \cup {"undrawn"}] /\ lowered' \in BOOLEAN
    /\ won' \in [Customers -> Nat] /\ visit' \in [Visits -> VisitRows]
BY DEF BenefitTypeOK, CouponRows, HeldRows, VisitRows

\* A total that is no larger than another, as totals go.
Within(a, b) == b = Unlimited \/ (a # Unlimited /\ a <= b)

\* What a request has read may be used while no clerk lowers the total.
Usable(t, c, low) ==
  /\ t.op = "draw" => t.day \in Days
  /\ t.op \in {"claim", "signup", "issue"} => c.status # "absent" /\ (~low => Within(t.total, c.total))
Reads == \A v \in Visits : Usable(visit[v], coupon, lowered)

\* The days on which a user drew one of the prizes.
DaysOf(u, prizes) == {d \in Days : draws[<<u, d>>] \in prizes}
Drawn == \A u \in Customers : IsFiniteSet(DaysOf(u, {"coupon", "partner"}))

BenefitInv == BenefitTypeOK /\ Reads /\ CouponsAccounted /\ Drawn /\ DrawsHonest

LEMMA NoRows ==
  /\ NoCoupon \in CouponRows /\ NoCoupon.status = "absent" /\ NoCoupon.claimed = 0
  /\ NoVisit \in VisitRows /\ NoVisit.op = "none"
  /\ [unused |-> 0, used |-> 0] \in HeldRows
BY DEF NoCoupon, CouponRows, NoVisit, VisitRows, HeldRows, Prizes

LEMMA TotalsAreIntegers == Totals \cup {0} \subseteq Int /\ Unlimited \in Int /\ Quota \in Nat
BY QuotaAssumption DEF Totals, Unlimited

LEMMA BenefitBegins == BenefitInit => BenefitInv
<1> SUFFICES ASSUME BenefitInit PROVE BenefitInv
  OBVIOUS
<1>1. /\ marketing = TRUE /\ coupon = NoCoupon /\ held = [u \in Customers |-> [unused |-> 0, used |-> 0]]
      /\ wheel = "off" /\ today \in Days /\ draws = [x \in Customers \X Days |-> "undrawn"]
      /\ lowered = FALSE /\ won = [u \in Customers |-> 0] /\ visit = [v \in Visits |-> NoVisit]
  BY DEF BenefitInit
<1>2. BenefitTypeOK
  BY <1>1, NoRows, BenefitTyped
<1>3. Reads
  BY <1>1, NoRows DEF Reads, Usable
<1>4. CouponsAccounted
  <2> DEFINE f == [u \in Customers |-> held[u].unused + held[u].used]
  <2>1. \A u \in Customers : f[u] = 0
    BY <1>1
  <2>2. SumFunctionOnSet(f, Customers) = 0
    <3> HIDE DEF f
    <3>1. QED
      BY <2>1, SumOfNothing, CustomersAssumption
  <2>3. coupon.claimed = 0 /\ ~Exists
    BY <1>1, NoRows DEF Exists
  <2>4. QED
    BY <2>2, <2>3 DEF CouponsAccounted
<1>5. ASSUME NEW u \in Customers, NEW P \in SUBSET {"coupon", "partner"} PROVE DaysOf(u, P) = {}
  BY <1>1, <1>5 DEF DaysOf
<1>6. Drawn
  BY <1>5, FS_EmptySet DEF Drawn
<1>7. DrawsHonest
  <2> SUFFICES ASSUME NEW u \in Customers
               PROVE  won[u] \in Cardinality(DaysOf(u, {"coupon"}))..Cardinality(DaysOf(u, {"coupon", "partner"}))
    BY DEF DrawsHonest, DaysOf
  <2>1. DaysOf(u, {"coupon"}) = {} /\ DaysOf(u, {"coupon", "partner"}) = {}
    BY <1>5
  <2>2. Cardinality(DaysOf(u, {"coupon"})) = 0 /\ Cardinality(DaysOf(u, {"coupon", "partner"})) = 0
    BY <2>1, FS_EmptySet
  <2>3. won[u] = 0
    BY <1>1
  <2>4. QED
    BY <2>2, <2>3
<1>8. QED
  BY <1>2, <1>3, <1>4, <1>6, <1>7 DEF BenefitInv

\* Coupons are handed out, within the total.
LEMMA HandStep ==
  ASSUME BenefitInv, NEW us \in SUBSET Customers, Hand(us), Exists, UNCHANGED lowered,
         ~lowered /\ coupon.total # Unlimited => coupon.claimed + Cardinality(us) <= coupon.total
  PROVE  /\ coupon' \in CouponRows /\ held' \in [Customers -> HeldRows] /\ CouponsAccounted'
         /\ coupon'.status = coupon.status /\ coupon'.total = coupon.total
<1>0. coupon \in CouponRows /\ held \in [Customers -> HeldRows] /\ CouponsAccounted
  BY BenefitTyped DEF BenefitInv
<1>1. IsFiniteSet(us) /\ Cardinality(us) \in Nat
  BY CustomersAssumption, FS_Subset, FS_CardinalityType
<1>2. coupon.claimed \in Nat /\ coupon.total \in Int
  BY <1>0, TotalsAreIntegers DEF CouponRows
<1> DEFINE row == [coupon EXCEPT !.claimed = @ + Cardinality(us)]
<1>3. row \in CouponRows /\ row.status = coupon.status /\ row.total = coupon.total
      /\ row.claimed = coupon.claimed + Cardinality(us)
  BY <1>0, <1>1, <1>2 DEF CouponRows
<1>4. coupon' = row /\ held' = [u \in Customers |-> IF u \in us THEN [held[u] EXCEPT !.unused = @ + 1] ELSE held[u]]
  BY DEF Hand
<1> HIDE DEF row
<1>5. ASSUME NEW u \in Customers
      PROVE  /\ held[u].unused \in Nat /\ held[u].used \in Nat
             /\ [held[u] EXCEPT !.unused = @ + 1] \in HeldRows
             /\ [held[u] EXCEPT !.unused = @ + 1].unused = held[u].unused + 1
             /\ [held[u] EXCEPT !.unused = @ + 1].used = held[u].used
  BY <1>0, <1>5 DEF HeldRows
<1>6. held' \in [Customers -> HeldRows]
  BY <1>0, <1>4, <1>5
<1> DEFINE f == [u \in Customers |-> held[u].unused + held[u].used]
           g == [u \in Customers |-> held'[u].unused + held'[u].used]
<1>7. \A u \in Customers : f[u] \in Int /\ g[u] = IF u \in us THEN f[u] + 1 ELSE f[u]
  <2> SUFFICES ASSUME NEW u \in Customers PROVE f[u] \in Int /\ g[u] = IF u \in us THEN f[u] + 1 ELSE f[u]
    OBVIOUS
  <2>0. f[u] = held[u].unused + held[u].used /\ g[u] = held'[u].unused + held'[u].used
    OBVIOUS
  <2> HIDE DEF f, g
  <2>a. held[u].unused \in Nat /\ held[u].used \in Nat
    BY <1>5
  <2>1. CASE u \in us
    <3>1. held'[u].unused = held[u].unused + 1 /\ held'[u].used = held[u].used
      BY <1>4, <1>5, <2>1
    <3>2. QED
      BY <2>0, <2>a, <2>1, <3>1
  <2>2. CASE u \notin us
    <3>1. held'[u] = held[u]
      BY <1>4, <2>2
    <3>2. QED
      BY <2>0, <2>a, <2>2, <3>1
  <2>3. QED
    BY <2>1, <2>2
<1>8. SumFunctionOnSet(f, Customers) = coupon.claimed
  BY <1>0 DEF CouponsAccounted
<1> HIDE DEF f, g
<1>9. SumFunctionOnSet(g, Customers) = SumFunctionOnSet(f, Customers) + Cardinality(us)
  BY <1>7, SumRaised, CustomersAssumption
<1>10. SumFunctionOnSet(g, Customers) = coupon'.claimed
  BY <1>3, <1>4, <1>8, <1>9
<1>11. Exists'
  BY <1>3, <1>4 DEF Exists
<1>12. ~lowered' /\ coupon'.total # Unlimited => coupon'.claimed <= coupon'.total
  BY <1>3, <1>4
<1>13. CouponsAccounted'
  BY <1>10, <1>11, <1>12 DEF CouponsAccounted, g
<1>14. QED
  BY <1>3, <1>4, <1>6, <1>13

\* A draw is put on record.
LEMMA DaysMove ==
  ASSUME draws \in [Customers \X Days -> Prizes \cup {"undrawn"}], NEW x \in Customers, NEW day \in Days,
         NEW prize \in Prizes, draws[<<x, day>>] = "undrawn", draws' = [draws EXCEPT ![<<x, day>>] = prize],
         NEW P \in SUBSET {"coupon", "partner"}
  PROVE  /\ draws' \in [Customers \X Days -> Prizes \cup {"undrawn"}]
         /\ \A u \in Customers : u # x => DaysOf(u, P)' = DaysOf(u, P)
         /\ day \notin DaysOf(x, P)
         /\ DaysOf(x, P)' = IF prize \in P THEN DaysOf(x, P) \cup {day} ELSE DaysOf(x, P)
<1>0. <<x, day>> \in Customers \X Days /\ "undrawn" \notin P
  OBVIOUS
<1>1. draws' \in [Customers \X Days -> Prizes \cup {"undrawn"}]
  BY <1>0
<1>2. \A u \in Customers, d \in Days : draws'[<<u, d>>] = IF u = x /\ d = day THEN prize ELSE draws[<<u, d>>]
  <2> SUFFICES ASSUME NEW u \in Customers, NEW d \in Days
               PROVE  draws'[<<u, d>>] = IF u = x /\ d = day THEN prize ELSE draws[<<u, d>>]
    OBVIOUS
  <2>1. <<u, d>> \in Customers \X Days /\ (<<u, d>> = <<x, day>> <=> u = x /\ d = day)
    OBVIOUS
  <2>2. QED
    BY <1>0, <2>1
<1>3. \A u \in Customers : u # x => DaysOf(u, P)' = DaysOf(u, P)
  BY <1>2 DEF DaysOf
<1>4. day \notin DaysOf(x, P)
  BY <1>0 DEF DaysOf
<1>5. DaysOf(x, P)' = IF prize \in P THEN DaysOf(x, P) \cup {day} ELSE DaysOf(x, P)
  BY <1>2, <1>4 DEF DaysOf
<1>6. QED
  BY <1>1, <1>3, <1>4, <1>5

\* Its user's number of days and number of coupons stay together.
LEMMA DrawRecorded ==
  ASSUME BenefitInv, NEW x \in Customers, NEW day \in Days, NEW prize \in Prizes, draws[<<x, day>>] = "undrawn",
         draws' = [draws EXCEPT ![<<x, day>>] = prize],
         \/ prize \in {"coupon", "partner"} /\ won' = [won EXCEPT ![x] = @ + 1]
         \/ prize # "coupon" /\ won' = won
  PROVE  /\ draws' \in [Customers \X Days -> Prizes \cup {"undrawn"}] /\ won' \in [Customers -> Nat]
         /\ Drawn' /\ DrawsHonest'
<1> DEFINE C == {"coupon"}
           B == {"coupon", "partner"}
<1>0. /\ draws \in [Customers \X Days -> Prizes \cup {"undrawn"}] /\ won \in [Customers -> Nat]
      /\ Drawn /\ DrawsHonest
  BY BenefitTyped DEF BenefitInv
<1>1. C \in SUBSET B /\ B \in SUBSET B
  OBVIOUS
<1>2. /\ draws' \in [Customers \X Days -> Prizes \cup {"undrawn"}]
      /\ \A u \in Customers : u # x => DaysOf(u, C)' = DaysOf(u, C) /\ DaysOf(u, B)' = DaysOf(u, B)
      /\ day \notin DaysOf(x, C) /\ day \notin DaysOf(x, B)
      /\ DaysOf(x, C)' = IF prize \in C THEN DaysOf(x, C) \cup {day} ELSE DaysOf(x, C)
      /\ DaysOf(x, B)' = IF prize \in B THEN DaysOf(x, B) \cup {day} ELSE DaysOf(x, B)
  <2>1. /\ draws' \in [Customers \X Days -> Prizes \cup {"undrawn"}]
        /\ \A u \in Customers : u # x => DaysOf(u, C)' = DaysOf(u, C)
        /\ day \notin DaysOf(x, C)
        /\ DaysOf(x, C)' = IF prize \in C THEN DaysOf(x, C) \cup {day} ELSE DaysOf(x, C)
    <3> HIDE DEF C
    <3>1. QED
      BY ZenonT(40), <1>0, <1>1, DaysMove
  <2>2. /\ \A u \in Customers : u # x => DaysOf(u, B)' = DaysOf(u, B)
        /\ day \notin DaysOf(x, B)
        /\ DaysOf(x, B)' = IF prize \in B THEN DaysOf(x, B) \cup {day} ELSE DaysOf(x, B)
    <3>1. B \in SUBSET {"coupon", "partner"}
      OBVIOUS
    <3> HIDE DEF B
    <3>2. QED
      BY ZenonT(40), <1>0, <3>1, DaysMove
  <2>3. QED
    BY <2>1, <2>2
<1>3. \A u \in Customers :
        /\ DaysOf(u, C) \subseteq DaysOf(u, B) /\ IsFiniteSet(DaysOf(u, B))
        /\ won[u] \in Cardinality(DaysOf(u, C))..Cardinality(DaysOf(u, B))
  BY <1>0 DEF Drawn, DrawsHonest, DaysOf
<1>4. \A u \in Customers :
        /\ IsFiniteSet(DaysOf(u, C)) /\ Cardinality(DaysOf(u, C)) \in Nat /\ Cardinality(DaysOf(u, B)) \in Nat
  BY <1>3, FS_Subset, FS_CardinalityType
<1>5. ASSUME NEW D, IsFiniteSet(D), day \notin D
      PROVE  IsFiniteSet(D \cup {day}) /\ Cardinality(D \cup {day}) = Cardinality(D) + 1
  BY <1>5, FS_AddElement
<1> DEFINE lo == Cardinality(DaysOf(x, C))
           hi == Cardinality(DaysOf(x, B))
<1>6. lo \in Nat /\ hi \in Nat /\ won[x] \in Nat /\ lo <= won[x] /\ won[x] <= hi
  BY <1>0, <1>3, <1>4
<1>7. /\ Cardinality(DaysOf(x, C)') = lo + (IF prize \in C THEN 1 ELSE 0)
      /\ Cardinality(DaysOf(x, B)') = hi + (IF prize \in B THEN 1 ELSE 0)
      /\ IsFiniteSet(DaysOf(x, B)')
  <2>1. Cardinality(DaysOf(x, C)') = lo + (IF prize \in C THEN 1 ELSE 0)
    <3>1. CASE prize \in C
      BY <1>2, <1>4, <1>5, <3>1
    <3>2. CASE prize \notin C
      BY <1>2, <1>6, <3>2
    <3>3. QED
      BY <3>1, <3>2
  <2>2. Cardinality(DaysOf(x, B)') = hi + (IF prize \in B THEN 1 ELSE 0) /\ IsFiniteSet(DaysOf(x, B)')
    <3>1. CASE prize \in B
      BY <1>2, <1>3, <1>5, <3>1
    <3>2. CASE prize \notin B
      BY <1>2, <1>3, <1>6, <3>2
    <3>3. QED
      BY <3>1, <3>2
  <2>3. QED
    BY <2>1, <2>2
<1>8. /\ won' \in [Customers -> Nat] /\ \A u \in Customers : u # x => won'[u] = won[u]
      /\ \/ prize \in B /\ won'[x] = won[x] + 1
         \/ prize \notin C /\ won'[x] = won[x]
  BY <1>0
<1>9. won'[x] \in Cardinality(DaysOf(x, C)')..Cardinality(DaysOf(x, B)')
  <2>1. won'[x] \in Int /\ (prize \in C => prize \in B)
    BY <1>8
  <2> HIDE DEF lo, hi, C, B
  <2>2. CASE prize \in B /\ won'[x] = won[x] + 1
    BY <1>6, <1>7, <2>1, <2>2
  <2>3. CASE prize \notin C /\ won'[x] = won[x]
    BY <1>6, <1>7, <2>1, <2>3
  <2>4. QED
    BY <1>8, <2>2, <2>3
<1>10. Drawn'
  <2> SUFFICES ASSUME NEW u \in Customers PROVE IsFiniteSet(DaysOf(u, B)')
    BY DEF Drawn
  <2>1. QED
    BY <1>2, <1>3, <1>7
<1>11. DrawsHonest'
  <2> SUFFICES ASSUME NEW u \in Customers PROVE won'[u] \in Cardinality(DaysOf(u, C)')..Cardinality(DaysOf(u, B)')
    BY DEF DrawsHonest, DaysOf
  <2>1. CASE u = x
    BY <1>9, <2>1
  <2>2. CASE u # x
    <3>1. DaysOf(u, C)' = DaysOf(u, C) /\ DaysOf(u, B)' = DaysOf(u, B) /\ won'[u] = won[u]
      BY <1>2, <1>8, <2>2
    <3>2. QED
      BY <1>3, <3>1
  <2>3. QED
    BY <2>1, <2>2
<1>12. QED
  BY <1>2, <1>8, <1>10, <1>11

LEMMA BenefitStep == BenefitInv /\ [BenefitNext]_benefitVars => BenefitInv'
<1> SUFFICES ASSUME BenefitInv, [BenefitNext]_benefitVars PROVE BenefitInv'
  OBVIOUS
<1>0. /\ marketing \in BOOLEAN /\ coupon \in CouponRows /\ held \in [Customers -> HeldRows]
      /\ wheel \in {"off", "blank", "coupon"} /\ today \in Days
      /\ draws \in [Customers \X Days -> Prizes \cup {"undrawn"}] /\ lowered \in BOOLEAN
      /\ won \in [Customers -> Nat] /\ visit \in [Visits -> VisitRows]
      /\ Reads /\ CouponsAccounted /\ Drawn /\ DrawsHonest
  BY BenefitTyped DEF BenefitInv
<1>a. ASSUME NEW v \in Visits
      PROVE  /\ visit[v].by \in SUBSET Customers /\ visit[v].prize \in Prizes /\ visit[v].total \in Totals \cup {0}
             /\ Usable(visit[v], coupon, lowered)
  BY <1>0 DEF VisitRows, Reads
<1>b. coupon.claimed \in Nat /\ coupon.total \in Totals \cup {0} /\ coupon.total \in Int /\ Unlimited \in Int
      /\ Quota \in Nat
  BY <1>0, TotalsAreIntegers DEF CouponRows
\* The requests under way after one of them has moved, or none.
<1>c. ASSUME NEW t \in VisitRows, visit' = visit \/ \E v \in Visits : visit' = [visit EXCEPT ![v] = t],
             coupon'.status # "absent" \/ coupon.status = "absent",
             ~lowered' => ~lowered /\ (coupon.status # "absent" => Within(coupon.total, coupon'.total)),
             coupon'.total \in Int, visit' = visit \/ Usable(t, coupon', lowered')
      PROVE  visit' \in [Visits -> VisitRows] /\ Reads'
  <2>1. visit' \in [Visits -> VisitRows]
    BY <1>0, <1>c
  <2>2. ASSUME NEW x \in Visits PROVE Usable(visit[x], coupon', lowered')
    <3>1. visit[x].total \in Int
      BY <1>a, TotalsAreIntegers
    <3>2. Usable(visit[x], coupon, lowered)
      BY <1>a
    <3>3. QED
      BY <1>b, <1>c, <3>1, <3>2 DEF Usable, Within
  <2>3. ASSUME NEW x \in Visits PROVE visit'[x] = visit[x] \/ (visit'[x] = t /\ Usable(t, coupon', lowered'))
    BY <1>0, <1>c
  <2>4. \A x \in Visits : Usable(visit'[x], coupon', lowered')
    BY <2>2, <2>3
  <2>5. QED
    BY <2>1, <2>4 DEF Reads
<1>d. Usable(NoVisit, coupon', lowered')
  BY NoRows DEF Usable
<1>e. ASSUME UNCHANGED ledgers
      PROVE  /\ CouponsAccounted' /\ Drawn' /\ DrawsHonest'
             /\ coupon' \in CouponRows /\ held' \in [Customers -> HeldRows]
             /\ draws' \in [Customers \X Days -> Prizes \cup {"undrawn"}] /\ lowered' \in BOOLEAN
             /\ won' \in [Customers -> Nat]
  BY <1>0, <1>e DEF ledgers, CouponsAccounted, Exists, Drawn, DrawsHonest, DaysOf
<1>f. ASSUME UNCHANGED <<draws, won>>
      PROVE  /\ Drawn' /\ DrawsHonest' /\ draws' \in [Customers \X Days -> Prizes \cup {"undrawn"}]
             /\ won' \in [Customers -> Nat]
  BY <1>0, <1>f DEF Drawn, DrawsHonest, DaysOf
<1>g. ASSUME visit' = visit \/ \E v \in Visits : visit' = [visit EXCEPT ![v] = NoVisit],
             coupon'.status # "absent" \/ coupon.status = "absent",
             ~lowered' => ~lowered /\ (coupon.status # "absent" => Within(coupon.total, coupon'.total)),
             coupon'.total \in Int
      PROVE  visit' \in [Visits -> VisitRows] /\ Reads'
  <2>1. NoVisit \in VisitRows
    BY NoRows
  <2>2. CASE visit' = visit
    BY <1>c, <1>g, <2>1, <2>2
  <2>3. CASE \E v \in Visits : visit' = [visit EXCEPT ![v] = NoVisit]
    BY <1>c, <1>d, <1>g, <2>1, <2>3
  <2>4. QED
    BY <1>g, <2>2, <2>3
\* The ledgers stand still, ...
<1>1. ASSUME UNCHANGED ledgers, marketing' \in BOOLEAN, wheel' \in {"off", "blank", "coupon"}, today' \in Days,
             visit' \in [Visits -> VisitRows], Reads'
      PROVE  BenefitInv'
  BY <1>1, <1>e, BenefitTypedNext DEF BenefitInv
<1>2. ASSUME NEW v \in Visits, NEW t \in VisitRows, Begins(v, t), Usable(t, coupon, lowered) PROVE BenefitInv'
  <2>1. visit' = [visit EXCEPT ![v] = t] /\ UNCHANGED <<marketing, wheel, today, ledgers>>
    BY <1>2 DEF Begins
  <2>2. coupon' = coupon /\ lowered' = lowered
    BY <2>1 DEF ledgers
  <2>3. visit' \in [Visits -> VisitRows] /\ Reads'
    <3>1. /\ ~lowered' => ~lowered
          /\ coupon'.total \in Int /\ (coupon'.status # "absent" \/ coupon.status = "absent")
      BY <1>b, <2>2
    <3>2. Within(coupon.total, coupon'.total)
      BY <1>b, <2>2 DEF Within
    <3>3. Usable(t, coupon', lowered')
      BY <1>2, <2>2
    <3>4. QED
      BY <1>c, <2>1, <3>1, <3>2, <3>3
  <2>4. QED
    BY <1>0, <1>1, <2>1, <2>3
<1>3. ASSUME NEW v \in Visits, LeavesEmpty(v) PROVE BenefitInv'
  <2>1. visit' = [visit EXCEPT ![v] = NoVisit] /\ UNCHANGED <<marketing, wheel, today, ledgers>>
    BY <1>3 DEF LeavesEmpty, Leaves
  <2>2. coupon' = coupon /\ lowered' = lowered
    BY <2>1 DEF ledgers
  <2>3. visit' \in [Visits -> VisitRows] /\ Reads'
    <3>1. /\ ~lowered' => ~lowered
          /\ coupon'.total \in Int /\ (coupon'.status # "absent" \/ coupon.status = "absent")
      BY <1>b, <2>2
    <3>2. Within(coupon.total, coupon'.total)
      BY <1>b, <2>2 DEF Within
    <3>3. QED
      BY <1>g, <2>1, <3>1, <3>2
  <2>4. QED
    BY <1>0, <1>1, <2>1, <2>3
<1>4. CASE UNCHANGED benefitVars
  <2>1. UNCHANGED <<marketing, wheel, today, visit>> /\ UNCHANGED ledgers
    BY <1>4 DEF benefitVars, ledgers
  <2>2. Reads'
    BY <1>0, <2>1 DEF Reads, ledgers
  <2>3. QED
    BY <1>0, <1>1, <2>1, <2>2
<1>5. ASSUME UNCHANGED <<ledgers, visit>>, marketing' \in BOOLEAN, wheel' \in {"off", "blank", "coupon"}, today' \in Days
      PROVE  BenefitInv'
  <2>1. Reads'
    BY <1>0, <1>5 DEF Reads, ledgers
  <2>2. QED
    BY <1>0, <1>1, <1>5, <2>1
\* ... coupons are handed out, ...
<1>6. ASSUME NEW us \in SUBSET Customers, Hand(us), Exists, UNCHANGED <<lowered, marketing, wheel, today>>,
             ~lowered /\ coupon.total # Unlimited => coupon.claimed + Cardinality(us) <= coupon.total,
             NEW v \in Visits, visit' = visit \/ visit' = [visit EXCEPT ![v] = NoVisit],
             Drawn', DrawsHonest', draws' \in [Customers \X Days -> Prizes \cup {"undrawn"}], won' \in [Customers -> Nat]
      PROVE  BenefitInv'
  <2>1. /\ coupon' \in CouponRows /\ held' \in [Customers -> HeldRows] /\ CouponsAccounted'
        /\ coupon'.status = coupon.status /\ coupon'.total = coupon.total
    BY <1>6, HandStep
  <2>2. visit' \in [Visits -> VisitRows] /\ Reads'
    <3>1. coupon'.total \in Int /\ (coupon'.status # "absent" \/ coupon.status = "absent")
      BY <1>b, <2>1
    <3>2. Within(coupon.total, coupon'.total)
      BY <1>b, <2>1 DEF Within
    <3>3. ~lowered' => ~lowered /\ (coupon.status # "absent" => Within(coupon.total, coupon'.total))
      BY <1>6, <3>2
    <3>4. v \in Visits /\ (visit' = visit \/ visit' = [visit EXCEPT ![v] = NoVisit])
      BY <1>6
    <3>5. QED
      BY <1>g, <3>1, <3>3, <3>4
  <2>3. QED
    BY <1>0, <1>6, <2>1, <2>2, BenefitTypedNext DEF BenefitInv
\* ... or only the coupon changes.
<1>7. ASSUME NEW row \in CouponRows, coupon' = row, row.claimed = coupon.claimed,
             UNCHANGED <<held, draws, won, marketing, wheel, today>>, lowered' \in BOOLEAN,
             visit' = visit \/ \E v \in Visits : visit' = [visit EXCEPT ![v] = NoVisit],
             row.status # "absent",
             ~lowered' => ~lowered /\ (coupon.status # "absent" => Within(coupon.total, row.total)),
             coupon.claimed > 0 => row.status # "deleted",
             ~lowered' /\ row.total # Unlimited /\ row.status # "deleted" => row.claimed <= row.total
      PROVE  BenefitInv'
  <2>1. row.total \in Int /\ row.status \in {"absent", "active", "disabled", "expired", "deleted"}
    BY <1>7, TotalsAreIntegers DEF CouponRows
  <2>2. visit' \in [Visits -> VisitRows] /\ Reads'
    <3>1. coupon'.total \in Int /\ coupon'.status # "absent"
      BY <1>7, <2>1
    <3>2. ~lowered' => ~lowered /\ (coupon.status # "absent" => Within(coupon.total, coupon'.total))
      BY <1>7
    <3>3. visit' = visit \/ \E v \in Visits : visit' = [visit EXCEPT ![v] = NoVisit]
      BY <1>7
    <3>4. QED
      BY <1>g, <3>1, <3>2, <3>3
  <2>3. Exists' <=> row.status # "deleted"
    BY <1>7, <2>1 DEF Exists
  <2>4. CouponsAccounted'
    BY <1>0, <1>7, <2>3 DEF CouponsAccounted
  <2>5. QED
    BY <1>0, <1>7, <1>f, <2>2, <2>4, BenefitTypedNext DEF BenefitInv
<1>h. Within(coupon.total, coupon.total)
  BY <1>b DEF Within
<1>8. ASSUME NEW v \in Visits, NEW us \in SUBSET Customers, NEW w \in {"claim", "signup", "issue"}, Offered,
             Begins(v, [NoVisit EXCEPT !.op = w, !.by = us, !.total = coupon.total])
      PROVE  BenefitInv'
  <2> DEFINE t == [NoVisit EXCEPT !.op = w, !.by = us, !.total = coupon.total]
  <2>1. t \in VisitRows /\ t.op = w /\ t.total = coupon.total
    BY <1>b DEF NoVisit, VisitRows, Prizes
  <2>2. Begins(v, t)
    BY <1>8
  <2> HIDE DEF t
  <2>3. coupon.status # "absent"
    BY <1>8 DEF Offered
  <2>4. Usable(t, coupon, lowered)
    BY <1>h, <2>1, <2>3 DEF Usable
  <2>5. QED
    BY <1>2, <2>1, <2>2, <2>4
<1>9. ASSUME NEW v \in Visits, NEW u \in Customers, ClaimRead(v, u) \/ SignupRead(v, u) PROVE BenefitInv'
  <2>1. {u} \in SUBSET Customers
    OBVIOUS
  <2>2. CASE ClaimRead(v, u)
    BY <1>8, <2>1, <2>2 DEF ClaimRead
  <2>3. CASE SignupRead(v, u)
    BY <1>8, <2>1, <2>3 DEF SignupRead
  <2>4. QED
    BY <1>9, <2>2, <2>3
<1>10. ASSUME NEW v \in Visits, NEW us \in SUBSET Customers, IssueRead(v, us) PROVE BenefitInv'
  <2> DEFINE eligible == {u \in us : coupon.limit = 0 \/ held[u].unused < coupon.limit}
  <2>1. eligible \in SUBSET Customers
    OBVIOUS
  <2>2. Offered /\ Begins(v, [NoVisit EXCEPT !.op = "issue", !.by = eligible, !.total = coupon.total])
    BY <1>10 DEF IssueRead
  <2> HIDE DEF eligible
  <2>3. QED
    BY <1>8, <2>1, <2>2
<1>11. ASSUME NEW v \in Visits, NEW u \in Customers, DrawRead(v, u) PROVE BenefitInv'
  <2>1. PICK prize \in Prizes :
          Begins(v, [NoVisit EXCEPT !.op = "draw", !.by = {u}, !.day = today, !.prize = prize])
    BY <1>11 DEF DrawRead, Prizes
  <2> DEFINE t == [NoVisit EXCEPT !.op = "draw", !.by = {u}, !.day = today, !.prize = prize]
  <2>2. t \in VisitRows /\ t.op = "draw" /\ t.day = today
    BY <1>0 DEF NoVisit, VisitRows
  <2>3. Begins(v, t)
    BY <2>1
  <2> HIDE DEF t
  <2>4. Usable(t, coupon, lowered)
    BY <1>0, <2>2 DEF Usable
  <2>5. QED
    BY <1>2, <2>2, <2>3, <2>4
<1>12. ASSUME NEW v \in Visits, TotalRead(v) \/ DeleteCouponRead(v) PROVE BenefitInv'
  <2>1. PICK t \in VisitRows : t.op \in {"total", "delete"} /\ Begins(v, t)
    <3>1. CASE TotalRead(v)
      <4>1. PICK total \in Totals : Begins(v, [NoVisit EXCEPT !.op = "total", !.total = total])
        BY <3>1 DEF TotalRead
      <4> DEFINE t == [NoVisit EXCEPT !.op = "total", !.total = total]
      <4>2. t \in VisitRows /\ t.op = "total"
        BY DEF NoVisit, VisitRows, Prizes
      <4>3. Begins(v, t)
        BY <4>1
      <4> HIDE DEF t
      <4>4. QED
        BY <4>2, <4>3
    <3>2. CASE DeleteCouponRead(v)
      <4> DEFINE t == [NoVisit EXCEPT !.op = "delete"]
      <4>1. t \in VisitRows /\ t.op = "delete"
        BY DEF NoVisit, VisitRows, Prizes
      <4>2. Begins(v, t)
        BY <3>2 DEF DeleteCouponRead
      <4> HIDE DEF t
      <4>3. QED
        BY <4>1, <4>2
    <3>3. QED
      BY <1>12, <3>1, <3>2
  <2>2. Usable(t, coupon, lowered)
    BY <2>1 DEF Usable
  <2>3. QED
    BY <1>2, <2>1, <2>2
<1>k. ASSUME NEW us \in SUBSET Customers PROVE Cardinality(us) \in Nat
  BY CustomersAssumption, FS_Subset, FS_CardinalityType
<1>13. ASSUME NEW v \in Visits, HandOut(v) PROVE BenefitInv'
  <2> DEFINE us == visit[v].by
             total == visit[v].total
  <2>1. us \in SUBSET Customers /\ Cardinality(us) \in Nat /\ total \in Int
    BY <1>a, <1>k, TotalsAreIntegers
  <2>2. visit[v].op \in {"claim", "signup", "issue"}
    BY <1>13 DEF HandOut
  <2>3. ~lowered => Within(total, coupon.total)
    BY <1>a, <2>2 DEF Usable
  <2>4. CASE /\ Free(Cardinality(us), total) /\ Hand(us) /\ Leaves(v) /\ UNCHANGED <<draws, lowered, won>>
    <3>1. Exists /\ (total = Unlimited \/ coupon.claimed + Cardinality(us) <= total)
      BY <2>4 DEF Free
    <3> HIDE DEF us, total
    <3>2. ~lowered /\ coupon.total # Unlimited => coupon.claimed + Cardinality(us) <= coupon.total
      BY <1>b, <2>1, <2>3, <3>1 DEF Within
    <3>3. UNCHANGED <<lowered, marketing, wheel, today>> /\ visit' = [visit EXCEPT ![v] = NoVisit]
      BY <2>4 DEF Leaves
    <3>4. Hand(us) /\ UNCHANGED <<draws, won>>
      BY <2>4
    <3>5. QED
      BY <1>6, <1>f, <2>1, <3>1, <3>2, <3>3, <3>4
  <2>5. CASE LeavesEmpty(v)
    BY <1>3, <2>5
  <2>6. QED
    BY <1>13, <2>4, <2>5 DEF HandOut
<1>14. ASSUME NEW v \in Visits, Draw(v) PROVE BenefitInv'
  <2> DEFINE t == visit[v]
  <2>1. PICK u \in t.by : /\ t.op = "draw"
                          /\ IF ~Drawable(u, t.day) THEN LeavesEmpty(v)
                             ELSE /\ IF t.prize # "none" /\ Offered /\ Free(1, coupon.total)
                                       THEN /\ Hand({u})
                                            /\ draws' = [draws EXCEPT ![<<u, t.day>>] = t.prize]
                                            /\ won' = [won EXCEPT ![u] = @ + 1]
                                       ELSE /\ draws' = [draws EXCEPT ![<<u, t.day>>] = PrizeIfNone(t.prize)]
                                            /\ UNCHANGED <<coupon, held, won>>
                                  /\ Leaves(v) /\ UNCHANGED lowered
    BY <1>14 DEF Draw
  <2>2. u \in Customers /\ t.day \in Days /\ t.prize \in Prizes
    BY <1>a, <2>1 DEF Usable
  <2>3. CASE ~Drawable(u, t.day)
    BY <1>3, <2>1, <2>3
  <2>4. ASSUME Drawable(u, t.day), t.prize # "none", Offered, Free(1, coupon.total), Hand({u}),
               draws' = [draws EXCEPT ![<<u, t.day>>] = t.prize], won' = [won EXCEPT ![u] = @ + 1],
               Leaves(v), UNCHANGED lowered
        PROVE  BenefitInv'
    <3>1. /\ draws' \in [Customers \X Days -> Prizes \cup {"undrawn"}] /\ won' \in [Customers -> Nat]
          /\ Drawn' /\ DrawsHonest'
      <4>1. t.prize \in {"coupon", "partner"} /\ draws[<<u, t.day>>] = "undrawn"
        BY <2>2, <2>4 DEF Prizes, Drawable
      <4> HIDE DEF t
      <4>2. QED
        BY <2>2, <2>4, <4>1, DrawRecorded
    <3>2. {u} \in SUBSET Customers /\ Cardinality({u}) = 1
      BY <2>2, FS_Singleton
    <3>3. Exists /\ (~lowered /\ coupon.total # Unlimited => coupon.claimed + Cardinality({u}) <= coupon.total)
      BY <2>4, <3>2 DEF Free
    <3>4. UNCHANGED <<lowered, marketing, wheel, today>> /\ visit' = [visit EXCEPT ![v] = NoVisit]
      BY <2>4 DEF Leaves
    <3>5. QED
      BY <1>6, <2>4, <3>1, <3>2, <3>3, <3>4
  <2>5. ASSUME Drawable(u, t.day), draws' = [draws EXCEPT ![<<u, t.day>>] = PrizeIfNone(t.prize)],
               UNCHANGED <<coupon, held, won>>, Leaves(v), UNCHANGED lowered
        PROVE  BenefitInv'
    <3> DEFINE prize == PrizeIfNone(t.prize)
    <3>1. prize \in Prizes /\ prize # "coupon" /\ draws[<<u, t.day>>] = "undrawn"
      BY <2>2, <2>5 DEF Prizes, PrizeIfNone, Drawable
    <3>2. draws' = [draws EXCEPT ![<<u, t.day>>] = prize] /\ won' = won
      BY <2>5
    <3>3. /\ draws' \in [Customers \X Days -> Prizes \cup {"undrawn"}] /\ won' \in [Customers -> Nat]
          /\ Drawn' /\ DrawsHonest'
      <4> HIDE DEF prize, t
      <4>1. QED
        BY <2>2, <3>1, <3>2, DrawRecorded
    <3>4. UNCHANGED <<coupon, held, lowered, marketing, wheel, today>> /\ visit' = [visit EXCEPT ![v] = NoVisit]
      BY <2>5 DEF Leaves
    <3>5. visit' \in [Visits -> VisitRows] /\ Reads'
      <4>1. /\ ~lowered' => ~lowered
            /\ coupon'.total \in Int /\ (coupon'.status # "absent" \/ coupon.status = "absent")
            /\ coupon'.total = coupon.total
        BY <1>b, <3>4
      <4>2. QED
        BY <1>g, <1>h, <3>4, <4>1
    <3>6. CouponsAccounted'
      BY <1>0, <3>4 DEF CouponsAccounted, Exists
    <3>7. QED
      BY <1>0, <3>3, <3>4, <3>5, <3>6, BenefitTypedNext DEF BenefitInv
  <2>6. QED
    BY <2>1, <2>3, <2>4, <2>5
<1>15. ASSUME NEW u \in Customers, PayBonus(u) PROVE BenefitInv'
  <2>1. {u} \in SUBSET Customers /\ Cardinality({u}) = 1
    BY FS_Singleton
  <2>2. /\ Hand({u}) /\ UNCHANGED <<marketing, wheel, today, draws, lowered, won, visit>>
        /\ Exists /\ (~lowered /\ coupon.total # Unlimited => coupon.claimed + Cardinality({u}) <= coupon.total)
    BY <1>15, <2>1 DEF PayBonus, Free
  <2>3. /\ coupon' \in CouponRows /\ held' \in [Customers -> HeldRows] /\ CouponsAccounted'
        /\ coupon'.status = coupon.status /\ coupon'.total = coupon.total
    BY <2>1, <2>2, HandStep
  <2>4. Reads'
    BY <1>0, <2>2, <2>3 DEF Reads, Usable
  <2>5. QED
    BY <1>0, <1>f, <2>2, <2>3, <2>4, BenefitTypedNext DEF BenefitInv
<1>16. ASSUME NEW u \in Customers, UseOrReturn(u) PROVE BenefitInv'
  <2>1. held[u].unused \in Nat /\ held[u].used \in Nat
    BY <1>0 DEF HeldRows
  <2>2. PICK h \in HeldRows : held' = [held EXCEPT ![u] = h] /\ h.unused + h.used = held[u].unused + held[u].used
    <3>1. CASE held[u].unused > 0
               /\ held' = [held EXCEPT ![u] = [unused |-> held[u].unused - 1, used |-> held[u].used + 1]]
      <4> DEFINE h == [unused |-> held[u].unused - 1, used |-> held[u].used + 1]
      <4>1. h \in HeldRows /\ h.unused + h.used = held[u].unused + held[u].used
        BY <2>1, <3>1 DEF HeldRows
      <4>2. held' = [held EXCEPT ![u] = h]
        BY <3>1
      <4> HIDE DEF h
      <4>3. QED
        BY <4>1, <4>2
    <3>2. CASE held[u].used > 0
               /\ held' = [held EXCEPT ![u] = [unused |-> held[u].unused + 1, used |-> held[u].used - 1]]
      <4> DEFINE h == [unused |-> held[u].unused + 1, used |-> held[u].used - 1]
      <4>1. h \in HeldRows /\ h.unused + h.used = held[u].unused + held[u].used
        BY <2>1, <3>2 DEF HeldRows
      <4>2. held' = [held EXCEPT ![u] = h]
        BY <3>2
      <4> HIDE DEF h
      <4>3. QED
        BY <4>1, <4>2
    <3>3. QED
      BY <1>16, <3>1, <3>2 DEF UseOrReturn
  <2>3. UNCHANGED <<marketing, coupon, wheel, today, draws, lowered, won, visit>>
    BY <1>16 DEF UseOrReturn
  <2> DEFINE f == [x \in Customers |-> held[x].unused + held[x].used]
             g == [x \in Customers |-> held'[x].unused + held'[x].used]
  <2>4. held' \in [Customers -> HeldRows] /\ \A x \in Customers : f[x] = g[x]
    BY <1>0, <2>2
  <2>5. SumFunctionOnSet(f, Customers) = SumFunctionOnSet(g, Customers)
    <3> HIDE DEF f, g
    <3>1. QED
      BY <2>4, SumSame, CustomersAssumption
  <2>6. SumFunctionOnSet(g, Customers) = coupon'.claimed
    BY <1>0, <2>3, <2>5 DEF CouponsAccounted
  <2>7. CouponsAccounted'
    BY <1>0, <2>3, <2>6 DEF CouponsAccounted, Exists
  <2>8. Reads'
    BY <1>0, <2>3 DEF Reads
  <2>9. QED
    BY <1>0, <1>f, <2>3, <2>4, <2>7, <2>8, BenefitTypedNext DEF BenefitInv
<1>17. ASSUME Midnight \/ SwitchMarketing \/ UpsertWheel PROVE BenefitInv'
  <2>1. UNCHANGED <<ledgers, visit>>
    BY <1>17 DEF Midnight, SwitchMarketing, UpsertWheel
  <2>2. marketing' \in BOOLEAN
    BY <1>0, <1>17 DEF Midnight, SwitchMarketing, UpsertWheel
  <2>3. wheel' \in {"off", "blank", "coupon"}
    BY <1>0, <1>17 DEF Midnight, SwitchMarketing, UpsertWheel
  <2>4. today' \in Days
    BY <1>0, <1>17 DEF Midnight, SwitchMarketing, UpsertWheel
  <2>5. QED
    BY <1>5, <2>1, <2>2, <2>3, <2>4
<1>18. ASSUME NEW v \in Visits, TotalWrite(v) PROVE BenefitInv'
  <2> DEFINE total == visit[v].total
             row == [coupon EXCEPT !.total = total]
  <2>1. CASE LeavesEmpty(v)
    BY <1>3, <2>1
  <2>2. ASSUME Exists, coupon' = [coupon EXCEPT !.total = total], Leaves(v), UNCHANGED <<held, draws, won>>,
               lowered' = (lowered \/ (total # Unlimited /\ (coupon.total = Unlimited \/ total < coupon.total)))
        PROVE  BenefitInv'
    <3>1. row \in CouponRows /\ row.total = total /\ row.status = coupon.status /\ row.claimed = coupon.claimed
      BY <1>0, <1>a DEF CouponRows
    <3>2. coupon' = row /\ UNCHANGED <<held, draws, won, marketing, wheel, today>>
          /\ visit' = [visit EXCEPT ![v] = NoVisit]
      BY <2>2 DEF Leaves
    <3>3. total \in Int /\ lowered' \in BOOLEAN
      BY <1>0, <1>a, <2>2, TotalsAreIntegers
    <3>4. ~lowered' => ~lowered /\ (total = Unlimited \/ (coupon.total # Unlimited /\ coupon.total <= total))
      <4>1. ~lowered' => ~lowered /\ ~(total # Unlimited /\ (coupon.total = Unlimited \/ total < coupon.total))
        BY <2>2, Zenon
      <4>2. total # Unlimited /\ coupon.total # Unlimited /\ ~(total < coupon.total) => coupon.total <= total
        BY <1>b, <3>3
      <4>3. QED
        BY <4>1, <4>2, Zenon
    <3> HIDE DEF total, row
    <3>5. ~lowered' => ~lowered /\ Within(coupon.total, row.total)
      BY <3>1, <3>4 DEF Within
    <3>6. row.status # "absent" /\ row.status # "deleted"
      BY <2>2, <3>1 DEF Exists
    <3>7. ~lowered /\ coupon.total # Unlimited => coupon.claimed <= coupon.total
      BY <1>0, <2>2 DEF CouponsAccounted
    <3>8. ~lowered' /\ row.total # Unlimited => row.claimed <= row.total
      BY <1>b, <3>1, <3>3, <3>4, <3>7
    <3>9. QED
      BY <1>7, <3>1, <3>2, <3>3, <3>5, <3>6, <3>8
  <2>3. QED
    BY <1>18, <2>1, <2>2 DEF TotalWrite
<1>19. ASSUME NEW v \in Visits, DeleteCoupon(v) PROVE BenefitInv'
  <2>1. CASE LeavesEmpty(v)
    BY <1>3, <2>1
  <2>2. ASSUME Exists, Unreferenced, coupon' = [coupon EXCEPT !.status = "deleted"], Leaves(v),
               UNCHANGED <<held, draws, lowered, won>>
        PROVE  BenefitInv'
    <3> DEFINE row == [coupon EXCEPT !.status = "deleted"]
               f == [u \in Customers |-> held[u].unused + held[u].used]
    <3>1. row \in CouponRows /\ row.status = "deleted" /\ row.claimed = coupon.claimed /\ row.total = coupon.total
      BY <1>0 DEF CouponRows
    <3>2. coupon' = row /\ UNCHANGED <<held, draws, won, marketing, wheel, today>>
          /\ visit' = [visit EXCEPT ![v] = NoVisit] /\ lowered' = lowered
      BY <2>2 DEF Leaves
    <3>3. \A u \in Customers : f[u] = 0
      BY <2>2 DEF Unreferenced
    <3>4. SumFunctionOnSet(f, Customers) = 0
      <4> HIDE DEF f
      <4>1. QED
        BY <3>3, SumOfNothing, CustomersAssumption
    <3>5. coupon.claimed = 0
      BY <1>0, <3>4 DEF CouponsAccounted
    <3> HIDE DEF row
    <3>6. ~(coupon.claimed > 0) /\ Within(coupon.total, row.total) /\ lowered' \in BOOLEAN
      BY <1>0, <1>h, <3>1, <3>2, <3>5
    <3>7. ~lowered' => ~lowered
      BY <3>2
    <3>8. QED
      BY <1>7, <3>1, <3>2, <3>6, <3>7
  <2>3. QED
    BY <1>19, <2>1, <2>2 DEF DeleteCoupon
<1>20. ASSUME CreateCoupon PROVE BenefitInv'
  <2>1. PICK k \in Kinds, total \in Totals, limit \in 0..1 :
          coupon' = [NoCoupon EXCEPT !.status = "active", !.kind = k[1], !.trigger = k[2], !.total = total, !.limit = limit]
    BY <1>20 DEF CreateCoupon
  <2>2. coupon.status = "absent" /\ UNCHANGED <<marketing, held, wheel, today, draws, lowered, won, visit>>
    BY <1>20 DEF CreateCoupon
  <2>3. coupon.claimed = 0
    BY <1>0, <1>b, <2>2 DEF CouponsAccounted, Exists
  <2> DEFINE row == [NoCoupon EXCEPT !.status = "active", !.kind = k[1], !.trigger = k[2], !.total = total,
                                     !.limit = limit]
  <2>4. k[1] \in {"platform", "partner"} /\ k[2] \in {"manual", "lottery", "signup"}
    BY KindsAssumption
  <2>5. row \in CouponRows /\ row.status = "active" /\ row.claimed = 0 /\ row.total = total
    BY <2>4 DEF NoCoupon, CouponRows
  <2>6. coupon' = row
    BY <2>1
  <2> HIDE DEF row
  <2>7. total # Unlimited => 0 <= total
    BY QuotaAssumption DEF Totals
  <2>8. lowered' \in BOOLEAN /\ (~lowered' => ~lowered)
    BY <1>0, <2>2
  <2>9. QED
    BY <1>7, <2>2, <2>3, <2>5, <2>6, <2>7, <2>8
<1>21. ASSUME Reoffer PROVE BenefitInv'
  <2>1. PICK status \in {"active", "disabled", "expired"} : coupon' = [coupon EXCEPT !.status = status]
    BY <1>21 DEF Reoffer
  <2>2. Exists /\ UNCHANGED <<marketing, held, wheel, today, draws, lowered, won, visit>>
    BY <1>21 DEF Reoffer
  <2> DEFINE row == [coupon EXCEPT !.status = status]
  <2>3. row \in CouponRows /\ row.status = status /\ row.claimed = coupon.claimed /\ row.total = coupon.total
    BY <1>0 DEF CouponRows
  <2>4. coupon' = row
    BY <2>1
  <2> HIDE DEF row
  <2>5. lowered' \in BOOLEAN /\ (~lowered' => ~lowered) /\ Within(coupon.total, row.total)
    BY <1>0, <1>h, <2>2, <2>3
  <2>6. ~lowered' /\ row.total # Unlimited => row.claimed <= row.total
    BY <1>0, <2>2, <2>3 DEF CouponsAccounted
  <2>7. QED
    BY <1>7, <2>2, <2>3, <2>4, <2>5, <2>6
<1>22. QED
  BY <1>4, <1>9, <1>10, <1>11, <1>12, <1>13, <1>14, <1>15, <1>16, <1>17, <1>18, <1>19, <1>20, <1>21 DEF BenefitNext

LEMMA BenefitInvariant == BenefitSpec => []BenefitInv
BY BenefitBegins, BenefitStep, PTL DEF BenefitSpec

\* For any number of users, requests and days: every coupon handed out is on
\* the books and within the total unless a clerk lowered it, and a user's draws
\* tell which coupons the wheel gave (claimCoupon, grantCouponInner,
\* issueCoupon, pay, drawWheel, deleteCoupon).
THEOREM BenefitsAreKept == BenefitSpec => []BenefitsKept
<1>1. BenefitInv => BenefitsKept
  BY DEF BenefitInv, BenefitsKept
<1>2. QED
  BY <1>1, BenefitInvariant, PTL

-----------------------------------------------------------------------------
(* All offices together                                                    *)

\* While one office moves, the others stand still.
LEMMA EachOfficeOnItsOwn ==
  BackOfficeSpec => AccessSpec /\ BenefitSpec /\ PaySpec /\ StaffSpec /\ CoverSpec /\ TenancySpec /\ MessagesSpec
<1>1. BackOfficeInit =>
        AccessInit /\ BenefitInit /\ PayInit /\ StaffInit /\ CoverInit /\ TenancyInit /\ MessagesInit
  BY DEF BackOfficeInit
<1>2. [BackOfficeNext]_backOfficeVars =>
        /\ [AccessNext]_rbacVars /\ [BenefitNext]_benefitVars /\ [PayNext]_payVars /\ [StaffNext]_staffVars
        /\ [CoverNext]_coverVars /\ [TenancyNext]_tenancyVars /\ [MessagesNext]_messageVars
  <2>1. CASE UNCHANGED backOfficeVars
    BY <2>1 DEF backOfficeVars
  <2>2. CASE BackOfficeNext
    BY <2>2 DEF BackOfficeNext
  <2>3. QED
    BY <2>1, <2>2
<1>3. QED
  BY <1>1, <1>2, PTL DEF BackOfficeSpec, AccessSpec, BenefitSpec, PaySpec, StaffSpec, CoverSpec, TenancySpec, MessagesSpec

\* Types, with any number of clerks, operators, forms and requests.
THEOREM BackOfficeTypesHold == BackOfficeSpec => []BackOfficeTypeOK
<1>1. AccessInv => AccessTypeOK
  BY DEF AccessInv
<1>2. BenefitInv => BenefitTypeOK
  BY DEF BenefitInv
<1>3. PaySpec => []PayTypeOK
  <2>1. PayInv => PayTypeOK
    BY DEF PayInv
  <2>2. QED
    BY <2>1, PayBegins, PayStep, PTL DEF PaySpec
<1>4. StaffSpec => []StaffTypeOK
  <2>1. StaffInit => StaffSound
    BY StaffBegins
  <2>2. StaffSound /\ [StaffNext]_staffVars => StaffSound'
    BY StaffSoundStep
  <2>3. StaffSound => StaffTypeOK
    BY DEF StaffSound
  <2>4. QED
    BY <2>1, <2>2, <2>3, PTL DEF StaffSpec
<1>5. CoverInv => CoverTypeOK
  BY DEF CoverInv
<1>6. TenancySpec => []TenancyTypeOK
  <2>1. TenancyInit => TenancyTypeOK
    BY TenancyBegins DEF TenancyInv
  <2>2. QED
    BY <2>1, TenancyTypesStep, PTL DEF TenancySpec
<1>7. MessagesInv => MessagesTypeOK
  BY DEF MessagesInv
<1>8. /\ AccessTypeOK /\ BenefitTypeOK /\ PayTypeOK /\ StaffTypeOK /\ CoverTypeOK /\ TenancyTypeOK /\ MessagesTypeOK
      => BackOfficeTypeOK
  BY DEF BackOfficeTypeOK
<1>9. QED
  BY <1>1, <1>2, <1>3, <1>4, <1>5, <1>6, <1>7, <1>8, AccessInvariant, BenefitInvariant, CoverInvariant,
     MessagesInvariant, EachOfficeOnItsOwn, PTL

\* With one clerk at staff and recruitment and one application form: of the
\* staff whom no clerk has deleted, a building has one manager in service
\* although the deleted may come back, a candidate is hired once, and what a
\* manager was told of an invitation stands (createStaff, updateStaff,
\* deleteStaff, updateStatus, recruitApply, recruitApprove, respondDispatch).
THEOREM PostsAreFilledOnce ==
  (\A c, d \in StaffClerks : c = d) /\ (\A f, g \in Forms : f = g) /\ BackOfficeSpec => []Staffed
<1>1. ASSUME \A c, d \in StaffClerks : c = d, \A f, g \in Forms : f = g
      PROVE  BackOfficeSpec => []Staffed
  <2> DEFINE Inv == StaffSound /\ OneAppointed /\ Vacancies /\ OneInTheWay
  <2>1. StaffInit => Inv
    BY StaffBegins
  <2>2. Inv /\ [StaffNext]_staffVars => Inv'
    <3>1. SUFFICES ASSUME StaffSound, OneAppointed, Vacancies, OneInTheWay, [StaffNext]_staffVars
                   PROVE  StaffSound' /\ OneAppointed' /\ Vacancies' /\ OneInTheWay'
      OBVIOUS
    <3>2. StaffSound'
      BY <3>1, StaffSoundStep
    <3>3. OneAppointed' /\ Vacancies'
      BY <1>1, <3>1, ManagersStep
    <3>4. OneInTheWay'
      BY <1>1, <3>1, CandidateStep
    <3>5. QED
      BY <3>2, <3>3, <3>4
  <2>3. Inv => OneAppointed /\ HiredOnce
    <3>1. ASSUME OneInTheWay PROVE HiredOnce
      BY <3>1 DEF OneInTheWay, HiredOnce, InTheWay
    <3>2. QED
      BY <3>1
  <2>4. CoverInv => AnswersStand
    BY DEF CoverInv
  <2>5. OneAppointed /\ HiredOnce /\ AnswersStand => Staffed
    BY DEF Staffed
  <2> HIDE DEF Inv
  <2>6. QED
    BY <2>1, <2>2, <2>3, <2>4, <2>5, CoverInvariant, EachOfficeOnItsOwn, PTL DEF StaffSpec
<1>2. QED
  BY <1>1
=============================================================================
