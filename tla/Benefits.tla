------------------------------- MODULE Benefits -------------------------------
(***************************************************************************)
(* One coupon template of a campus and the five ways to it: claiming it in *)
(* the app, the grants to newcomers and with payments, the daily wheel and *)
(* the grant of a clerk; clerks create, change and delete it.  The coupons *)
(* spent and released by orders are the subject of OrderPayment; here an   *)
(* order only uses or returns one.                                         *)
(***************************************************************************)
EXTENDS Integers, FiniteSets, FiniteSetsExt

CONSTANTS
  Customers,    \* users of the campus
  Visits,       \* requests that run at once
  Days,         \* days on which wheels are drawn
  Kinds,        \* the coupons clerks create: kind and trigger
  Quota,        \* the total of a limited coupon
  MaxHeld       \* bound on the coupons of one user (checking only)

ASSUME CustomersAssumption == IsFiniteSet(Customers)
ASSUME QuotaAssumption == Quota \in Nat \ {0} /\ MaxHeld \in Nat
ASSUME DaysAssumption == Days \subseteq Nat
ASSUME KindsAssumption == Kinds \subseteq {"platform", "partner"} \X {"manual", "lottery", "signup"}

VARIABLES
  marketing,    \* marketingEnabled(campus)
  coupon,       \* the Coupon row
  held,         \* UserCoupon rows per user: not used, used
  wheel,        \* LotteryWheel: inactive, without the coupon among its prizes, with it
  today,        \* beijingDate()
  draws,        \* LotteryDraw per user and day: the prize on record
  lowered,      \* the total has been lowered by an edit
  won,          \* coupons a user got from the wheel
  visit         \* what each request has read

benefitVars == <<marketing, coupon, held, wheel, today, draws, lowered, won, visit>>
ledgers == <<coupon, held, draws, lowered, won>>

Unlimited == -1
Totals == {Quota, Unlimited}
NoCoupon == [status |-> "absent", kind |-> "platform", trigger |-> "manual",
             total |-> 0, limit |-> 0, claimed |-> 0]
NoVisit == [op |-> "none", by |-> {}, day |-> 0, prize |-> "none", total |-> 0]
Prizes == {"none", "coupon", "partner"}

BenefitTypeOK ==
  /\ marketing \in BOOLEAN
  /\ coupon \in [status : {"absent", "active", "disabled", "expired", "deleted"}, kind : {"platform", "partner"},
                 trigger : {"manual", "lottery", "signup"},
                 total : Totals \cup {0}, limit : 0..1, claimed : Nat]
  /\ held \in [Customers -> [unused : Nat, used : Nat]]
  /\ wheel \in {"off", "blank", "coupon"}
  /\ today \in Days
  /\ draws \in [Customers \X Days -> Prizes \cup {"undrawn"}]
  /\ lowered \in BOOLEAN
  /\ won \in [Customers -> Nat]
  /\ visit \in [Visits -> [op : {"none", "claim", "signup", "draw", "issue", "total", "delete"},
                           by : SUBSET Customers, day : Days \cup {0}, prize : Prizes,
                           total : Totals \cup {0}]]

BenefitInit ==
  /\ marketing = TRUE
  /\ coupon = NoCoupon
  /\ held = [u \in Customers |-> [unused |-> 0, used |-> 0]]
  /\ wheel = "off"
  /\ today \in Days
  /\ draws = [x \in Customers \X Days |-> "undrawn"]
  /\ lowered = FALSE
  /\ won = [u \in Customers |-> 0]
  /\ visit = [v \in Visits |-> NoVisit]

Exists == coupon.status \in {"active", "disabled", "expired"}
Offered == coupon.status = "active"

Begins(v, next) == /\ visit[v] = NoVisit
                   /\ visit' = [visit EXCEPT ![v] = next]
                   /\ UNCHANGED <<marketing, wheel, today, ledgers>>
Leaves(v) == visit' = [visit EXCEPT ![v] = NoVisit] /\ UNCHANGED <<marketing, wheel, today>>
LeavesEmpty(v) == Leaves(v) /\ UNCHANGED ledgers

\* The conditional update that takes n coupons from the total.
FreeUnchecked(n, total) == Exists
Free(n, total) == Exists /\ (total = Unlimited \/ coupon.claimed + n <= total)

Hand(us) == /\ coupon' = [coupon EXCEPT !.claimed = @ + Cardinality(us)]
            /\ held' = [u \in Customers |-> IF u \in us THEN [held[u] EXCEPT !.unused = @ + 1]
                                            ELSE held[u]]
Roomy(us) == \A u \in us : held[u].unused + held[u].used < MaxHeld

-----------------------------------------------------------------------------
(* Claiming and the newcomers' grant: the holdings are read, then written *)

\* A newcomers' coupon counts also after it was used.
NeverHeld(u) == held[u] = [unused |-> 0, used |-> 0]

ClaimRead(v, u) ==
  /\ marketing /\ Offered /\ coupon.trigger = "manual"
  /\ coupon.limit = 0 \/ NeverHeld(u)
  /\ Begins(v, [NoVisit EXCEPT !.op = "claim", !.by = {u}, !.total = coupon.total])

\* grantSignupCoupons runs at registration and after each switch to the campus.
SignupRead(v, u) ==
  /\ marketing /\ Offered /\ coupon.trigger = "signup"
  /\ NeverHeld(u)
  /\ Begins(v, [NoVisit EXCEPT !.op = "signup", !.by = {u}, !.total = coupon.total])

\* issueCoupon: who has reached the limit is left out, used ones not counted.
IssueRead(v, us) ==
  LET eligible == {u \in us : coupon.limit = 0 \/ held[u].unused < coupon.limit} IN
  /\ Offered /\ eligible # {}
  /\ Begins(v, [NoVisit EXCEPT !.op = "issue", !.by = eligible, !.total = coupon.total])

HandOut(v) ==
  LET us == visit[v].by IN
  /\ visit[v].op \in {"claim", "signup", "issue"} /\ Roomy(us)
  /\ IF Free(Cardinality(us), visit[v].total)
       THEN Hand(us) /\ Leaves(v) /\ UNCHANGED <<draws, lowered, won>>
       ELSE LeavesEmpty(v)

-----------------------------------------------------------------------------
(* drawWheel *)

\* The prize and the day are settled before the transaction.
DrawRead(v, u) ==
  /\ marketing /\ wheel # "off"
  /\ \E prize \in {"none"} \cup (IF wheel # "coupon" THEN {}
                                ELSE {IF coupon.kind = "partner" THEN "partner" ELSE "coupon"}) :
       Begins(v, [NoVisit EXCEPT !.op = "draw", !.by = {u}, !.day = today, !.prize = prize])

\* LotteryDraw is unique for a user and a day.
DrawableUnchecked(u, day) == TRUE
Drawable(u, day) == draws[<<u, day>>] = "undrawn"

\* The prize on record when there was no coupon left: a partner's picture is
\* still shown.
PrizeIfNoneAsPicked(prize) == prize
PrizeIfNone(prize) == IF prize = "coupon" THEN "none" ELSE prize

Draw(v) ==
  LET t == visit[v] IN
  /\ t.op = "draw"
  /\ \E u \in t.by :
       /\ Roomy({u})
       /\ IF ~Drawable(u, t.day) THEN LeavesEmpty(v)
          ELSE /\ IF t.prize # "none" /\ Offered /\ Free(1, coupon.total)
                    THEN /\ Hand({u})
                         /\ draws' = [draws EXCEPT ![<<u, t.day>>] = t.prize]
                         /\ won' = [won EXCEPT ![u] = @ + 1]
                    ELSE /\ draws' = [draws EXCEPT ![<<u, t.day>>] = PrizeIfNone(t.prize)]
                         /\ UNCHANGED <<coupon, held, won>>
               /\ Leaves(v) /\ UNCHANGED lowered

-----------------------------------------------------------------------------
(* Orders, the calendar, the clerks *)

UseOrReturn(u) ==
  /\ \/ held[u].unused > 0 /\ held' = [held EXCEPT ![u] = [unused |-> @.unused - 1, used |-> @.used + 1]]
     \/ held[u].used > 0 /\ held' = [held EXCEPT ![u] = [unused |-> @.unused + 1, used |-> @.used - 1]]
  /\ UNCHANGED <<marketing, coupon, wheel, today, draws, lowered, won, visit>>

\* pay hands out the bonus of a scheduled delivery with the payment, also of a
\* coupon that is off offer, and none when there is none left.
PayBonus(u) ==
  /\ coupon.status \in {"active", "disabled"} /\ Roomy({u})
  /\ Free(1, coupon.total) /\ Hand({u})
  /\ UNCHANGED <<marketing, wheel, today, draws, lowered, won, visit>>

Midnight ==
  /\ today + 1 \in Days /\ today' = today + 1
  /\ UNCHANGED <<marketing, wheel, ledgers, visit>>

SwitchMarketing ==
  /\ marketing' = ~marketing
  /\ UNCHANGED <<wheel, today, ledgers, visit>>

\* A partner's coupon is worth nothing at checkout, and may have any trigger.
CreateCoupon ==
  /\ coupon.status = "absent"
  /\ \E k \in Kinds, total \in Totals, limit \in 0..1 :
       coupon' = [NoCoupon EXCEPT !.status = "active", !.kind = k[1], !.trigger = k[2],
                                  !.total = total, !.limit = limit]
  /\ UNCHANGED <<marketing, held, wheel, today, draws, lowered, won, visit>>

\* The date passes, or updateCoupon takes it off or puts it on offer again.
Reoffer ==
  /\ Exists
  /\ \E status \in {"active", "disabled", "expired"} : coupon' = [coupon EXCEPT !.status = status]
  /\ UNCHANGED <<marketing, held, wheel, today, draws, lowered, won, visit>>

\* The total is compared with the claims that were read, and set later.
TotalRead(v) ==
  /\ Exists
  /\ \E total \in Totals \ {coupon.total} :
       /\ total = Unlimited \/ total >= coupon.claimed
       /\ Begins(v, [NoVisit EXCEPT !.op = "total", !.total = total])

TotalWrite(v) ==
  LET total == visit[v].total IN
  /\ visit[v].op = "total"
  /\ IF ~Exists THEN LeavesEmpty(v)
     ELSE /\ coupon' = [coupon EXCEPT !.total = total]
          /\ lowered' = (lowered \/ (total # Unlimited
                                     /\ (coupon.total = Unlimited \/ total < coupon.total)))
          /\ Leaves(v) /\ UNCHANGED <<held, draws, won>>

DeleteCouponRead(v) ==
  Exists /\ coupon.claimed = 0 /\ Begins(v, [NoVisit EXCEPT !.op = "delete"])

\* UserCoupon.couponId refers to the row: the database keeps it while a user
\* holds one.
UnreferencedUnchecked == TRUE
Unreferenced == \A u \in Customers : held[u].unused + held[u].used = 0

DeleteCoupon(v) ==
  /\ visit[v].op = "delete"
  /\ IF Exists /\ Unreferenced
       THEN coupon' = [coupon EXCEPT !.status = "deleted"] /\ Leaves(v) /\ UNCHANGED <<held, draws, lowered, won>>
       ELSE LeavesEmpty(v)

\* A prize must be a coupon of the campus; the JSON may outlive it.
UpsertWheel ==
  /\ wheel' \in {"off", "blank"} \cup IF Exists THEN {"coupon"} ELSE {}
  /\ UNCHANGED <<marketing, today, ledgers, visit>>

BenefitNext ==
  \/ \E v \in Visits :
       \/ \E u \in Customers : ClaimRead(v, u) \/ SignupRead(v, u) \/ DrawRead(v, u)
       \/ \E us \in SUBSET Customers : IssueRead(v, us)
       \/ HandOut(v) \/ Draw(v) \/ TotalRead(v) \/ TotalWrite(v)
       \/ DeleteCouponRead(v) \/ DeleteCoupon(v)
  \/ \E u \in Customers : UseOrReturn(u) \/ PayBonus(u)
  \/ Midnight \/ SwitchMarketing \/ CreateCoupon \/ Reoffer \/ UpsertWheel

BenefitSpec == BenefitInit /\ [][BenefitNext]_benefitVars

-----------------------------------------------------------------------------
(* Properties *)

\* The five ways count every coupon they hand out and never hand out more than
\* the total unless a clerk lowers it meanwhile, and no coupon a user holds is
\* ever deleted (claimCoupon, grantCouponInner, issueCoupon, pay, deleteCoupon).
CouponsAccounted ==
  /\ SumFunctionOnSet([u \in Customers |-> held[u].unused + held[u].used], Customers) = coupon.claimed
  /\ coupon.claimed > 0 => Exists
  /\ Exists /\ ~lowered /\ coupon.total # Unlimited => coupon.claimed <= coupon.total

\* A user draws once a day, and the record says what the user got: every
\* coupon from the wheel is one day's prize on record, and every coupon on
\* record was given (drawWheel).
DrawsHonest ==
  \A u \in Customers :
    LET days(prizes) == Cardinality({d \in Days : draws[<<u, d>>] \in prizes}) IN
    won[u] \in days({"coupon"})..days({"coupon", "partner"})

\* What is given out is what was promised, and no more.
BenefitsKept == CouponsAccounted /\ DrawsHonest

\* A user gets the newcomers' coupon once in a lifetime, also after it was used
\* (grantCouponInner: "the same coupon once for life").  Two requests that both
\* find none break it; no run checks it.
SignupOnce ==
  [][\A v \in Visits, u \in Customers :
       visit[v].op = "signup" /\ visit'[v] = NoVisit /\ held'[u].unused > held[u].unused => NeverHeld(u)]_benefitVars
=============================================================================
