# Formal models of the campus night-store API

TLA+ modules, TLC configurations and TLAPS proofs for the back end in `src/`: a
NestJS service on Prisma and Postgres that sells snacks to dormitories. Customers
order and pay through WeChat, a warehouse ships, riders and building managers
deliver, clerks audit refunds, headquarters restocks the campuses, and cron jobs pick
up what was left lying.

The service has no locks of its own to speak of. What keeps it consistent is a
style: *read, decide, then `updateMany` on the condition that what was read still
holds*, often in an interactive transaction at READ COMMITTED. The models ask
whether those conditions are the right ones when requests, callbacks, cron runs
and crashes interleave, and where the condition is missing, what still holds.

## The system

| Component | State it keeps | Operations | What is hard, and what makes it correct |
|---|---|---|---|
| Checkout and payment (`business`, `payments`, `OrderTimeoutService`) | `Order.status`, `paidAt`, `couponId`; `Product.stock`; `UserCoupon.status` | createOrder, cancel, prepay, pay, notify, status, close-stale sweep | duplicate and late callbacks, contested stock, a charge whose booking fails: every charge ends in goods or in a frozen order; stock and coupons are spent once |
| Refunds (`business`, `admin`, `RefundSyncService`) | `Refund` rows, `Order.status`, `stockRestored` | apply, withdraw, approve, reject, finish, reconcile, shop refunds | a call to WeChat between two transactions, callbacks and cron on the same row: what is recorded agrees with WeChat, goods return once, nothing stays in flight |
| Fulfilment (`fulfillment`, `admin`, `business`) | `Order.status`, `riderId`, `timeline`, `package.lastMileMode`, `InventoryTxn` | outbound, advance, accept/grab, transfer, arrive, depart, deliver, receive, desk status changes, confirm | two riders and a desk on one order: one owner at a time, the carrier is paid |
| Crons (`AutoOutboundService`, `AutoCompleteService`, ...) | none | ship paid orders, complete delivered ones, close stale ones, ask WeChat | progress without anybody's help |
| Procurement (`admin`) | `RestockBatch`, `RestockOrder`, `RestockShipment`, `PurchaseOrder`, headquarters' stock | order, audit, purchase, receive, close, reopen, ship, confirm | checks made on rows read before the transaction: goods leave once, nothing is bought twice |
| Inventory (`admin`, and payment, outbound and refunds on the same row) | `Product.stock`, `procurementMode`, `InventoryTxn` | create, import, edit, stock in, adjust, stocktake, receipt | read-compute-write on a row that payments decrement; a switch of source while goods are under way |
| Commission ledger and settlement (`commission`, `admin`) | `Commission`, `BmBill` | record on delivery, clawback, monthly list, confirm, pay | a list that writes; months that overlap: nothing is paid twice |
| Coupons and lucky wheel (`business`, `admin`) | `Coupon`, `UserCoupon`, `LotteryWheel`, `LotteryDraw` | claim, grant, hand out, draw, create, change, delete | caps under concurrent claims, one draw a day, an honest record of the prize |
| Catalogue and promotions (`admin`) | `Category`, organisation products, `Promotion` | name, remove, import, promote | promotions that must not overlap, without a constraint in the database; for names of categories there is one (`schema.prisma` 498) |
| Cart, quote, purchase limit (`business`) | `CartItem`, flash sales | set an item, save the cart, quote, order | sales that start and end in between |
| Addresses and buildings (`business`, `admin`) | `Address`, `Building` | add, change, remove, choose the default; create, rename, remove a building | one default; the address an order copies |
| Staff and recruitment (`admin`, `business`, `fulfillment`) | `Staff`, `RecruitingApplication` | create, change, delete, apply, amend, interview, reject, approve | one manager per building, one hire per applicant |
| Leave and dispatch (`fulfillment`, `admin`) | `LeaveRequest`, `DispatchInvitation` | request, withdraw, invite, answer, take back | an answer against a withdrawal |
| Campuses and organisations (`admin`, `common`) | `Organization`, `Campus`, `User.campusId` | register AppIDs, open campuses, bootstrap, log in, switch campus | identity by AppID and by campus, which nothing ties together |
| Access control (`rbac.service`, `auth`) | `AdminAccount`, `AdminRole`, `AdminMenu`, `RbacState.version`, the cache | change and delete each of them, log in, select a campus, guard | a cache filled from reads at different times, and from a campus that no version guards; someone must remain who administers |
| Receipt printer (`printer`) | `Printer`, `CampusDailySeq`, `Order.dailySeq` | bind, print, reprint | the number of the day, taken before and written after |
| Notifications (`notifications`, `auth`) | `Staff.unionId`, `gzhOpenid`, `notifyQuota` | bind and unbind, follow, leave, reconcile, notify over two channels | events before, after and during the login they belong to; people who bind another member |
| Analytics, files, platform | append-only rows, objects | reports, uploads, wiring | little state; see "Not modelled" |

The components meet in `Order.status` (payment, refunds, fulfilment, crons and the desk
all write it on conditions of their own), `Product.stock` (payment, refunds,
procurement, inventory), `UserCoupon.status` (payment, refunds, coupons),
`Commission` (fulfilment writes it, settlement reads it) and `Staff` (recruitment,
logins, dispatch).

`PROJECT.json` lists under `hazards` what is hard to test in this code, each at its
line, with the property that watches it or the reason why none does.

## Modules

| Module | Models |
|---|---|
| `PaymentPromise` | what checkout owes the customer, per order: open, then closed, goods or frozen |
| `OrderPayment` | orders, coupons, stock, `pay`, `applyPayment`, callbacks, polls, the sweep, crashes; implements `PaymentPromise` |
| `RefundSettlement` | the refunds of one order from application to settlement, WeChat's side, cron, crashes |
| `Fulfillment` | an order from the warehouse to the customer, riders, managers, desk, crons, commission rows |
| `Restock` | headquarters' batches, the campus orders in them, purchase orders, shipments and receipts |
| `Inventory` | one product of a campus: stock, source and ledger under clerks, payments and deliveries |
| `Catalogue` | categories, the organisation's catalogue and its import, promotions |
| `Storefront` | one customer's cart, flash sales, purchase limit, quote and order |
| `AddressBook` | buildings, a customer's addresses and the one an order copies |
| `Receipts` | printers, numbers of the day, copies |
| `AccessControl` | accounts with their level and organisation, roles, menus, the version and the permission cache |
| `Benefits` | one coupon and the five ways to it, the wheel |
| `Payroll` | the commissions, adjustments and monthly bills of one member of staff |
| `Workforce` | staff and the applications of one candidate |
| `StaffCover` | leave and dispatch invitations |
| `Tenancy` | organisations, AppIDs, campuses, and the customers who log in |
| `StaffMessages` | the binding of staff to people on WeChat and to their service account, and notices over two channels |
| `OrderPayment_proofs`, `RefundSettlement_proofs`, `Fulfillment_proofs`, `Restock_proofs`, `Receipts_proofs` | theorems about the module each is named after |
| `Goods_proofs` | theorems about `Inventory`, `Catalogue`, `Storefront`, `AddressBook`, and about `MCGoods` |
| `BackOffice_proofs` | theorems about the seven modules of `MCBackOffice`, and about their composition |
| `Sums` | lemmas about sums over finite sets, which the proofs about money and stock use |
| `MCOrderPayment`, `MCRefundSettlement`, `MCFulfillment` | constants for TLC |
| `MCGoods` | `Restock`, `Inventory`, `Catalogue`, `Storefront`, `AddressBook` and `Receipts` for one run |
| `MCBackOffice` | `AccessControl`, `Benefits`, `Payroll`, `Workforce`, `StaffCover`, `Tenancy` and `StaffMessages` for one run |

**Grain.** A database statement, or a transaction that decides on what it writes, is
one step. A read whose answer is used by a later statement is a step of its own; the
answer is kept in the request's record (`task`, `request`, `desk`, `clerk`, `visit`,
`seat`, ...) and may be stale when it is used. A conditional update that tests
everything the handler read needs no such record: it does nothing unless the read is
still true. Consecutive reads without a write between them are one step, except where
a torn read matters (`AccessControl`: version, grants and menus are three). A call to
WeChat or to the cloud printer is a step between two transactions. A crash forgets the
requests and keeps the rows.

A transaction that reads, decides and writes is one step only where a lock, a unique
key or a conditional update makes it so; where it merely reads inside, as the updates
of `restock`, `settlements` or `updateProduct` do, the read is the first of two steps.

**OrderPayment.** `CreateOrder` locks the coupon and inserts the row in one
transaction. `PayRead` is `pay` up to its conditional update, `PayCommit` from there to
commit or throw, including the guarded decrement of every line (`Payable`). A throw
leads to `Freeze`, `applyPayment`'s catch block. `Notify` and `StatusRead` are the two
ways in; `Answer` is where WeChat learns SUCCESS. `SweepRead` and `SweepClose` are the
two halves of the timeout cron. Amounts play no role and are left out.

**RefundSettlement.** Each request is a worker whose `pc` names the statement it is
about to run. `CallWechat` can lose the request or the answer; `FinishAborts` is the
rolled back settlement. `Finish` is one step because of the advisory lock that
`finishRefund` takes. `Clawback` is its second transaction; when that or the audit entry
behind it throws (`ClawbackAborts`), `auditRefund` takes the exception for an unknown
outcome and rewrites the refunded row to refunding. Lists of goods are abstracted to `Awards`, the amounts a set of
order lines may come to, and the eleven order statuses to those that refunds tell
apart (`picking` counts as `paid`; `arrived`, `waiting-handover` and `last-mile` as
`first-mile`).

**Fulfillment.** `TaskRead`/`TaskWrite` are the two halves of `updateTask`,
`DeskRead`/`DeskWrite` those of `updateOrderStatus`; `MayMake`, `GiveBack` and `Carry`
are the guards and branches of `updateTask`. The timeline is reduced to the
two nodes that `deliveredTimeOf` can pick, the delivery and the latest transfer, and
their ages to fresh or older than 48 hours. `staffed` says which campuses deliver with
their own staff; it does not change during a behaviour. `updateTask` lets a rider depart
from `waiting-first-mile`, although the list of `actions` does not offer it there; the
module follows `updateTask`.

**Restock.** Three desks, one for each kind of clerk (buyers, shippers, the campus), with
the reads of each handler in `desk`. One batch, one official product; a case is one
unit. `left` and `credited` count how often an order's goods left headquarters and
reached the campus, which the code keeps only as entries of the ledger.

**Inventory.** `mode` is the source of a product, `sources` where the goods came from
since the last switch, `ledger` the sum of the entries. `Echo` is what the product form
sends back although the clerk did not touch it. `Pay`, `BookOut` and `Return` are what
the modules of orders do to this row.

**Catalogue, Storefront, AddressBook.** Prices and texts are left out, time is a few
instants, and each request's check and write are two steps. `Storefront` takes the
flash sales as a set that changes at will. `AddressBook` keeps names and ids of
buildings apart, because `updateAddress` changes one without the other.

**Receipts.** A print reads the terminal and the order's number, takes a number
(`TakeNumber`, the upsert of `CampusDailySeq`), writes it back (`KeepNumber`, whose
failure the code swallows) and sends its copies at once or one by one with gaps.

**AccessControl.** An account has one role and the places where it holds. Every change
of permissions increments `rbacVersion` in its transaction, under the advisory lock;
a request reads the version, the grants and the menus in three steps and caches what
it derives under the first of them. How far an account reaches (`LevelOf`, `ReachOf`)
comes from its own row, which the session version in the cache's key guards, or else from
its campus; `updateCampus` moves a campus to another organisation and bumps nothing.

**Benefits, Payroll.** One coupon template, with the coupons of each user as counts of
used and unused; `lowered` remembers that a clerk lowered the total below what may
have been handed out since his read. One member of staff whose commissions lie in
months; opening the list (`ListRead`, `ListWrite`) writes the bills.

**Workforce, StaffCover.** `seat` is what a clerk has read, `form` what the applicant
has. Staff set their own status at any time, deleted ones too: `deleteStaff` leaves their
token valid and `updateStatus` does not look at the row. `dismissed` remembers for the
properties whom a clerk has deleted. A number `IBM-n` is n, with the order of the texts as
Postgres compares them.
`told` in `StaffCover` is what was reported to have become of an invitation.

**Tenancy, StaffMessages.** `disturbed` becomes true when an operator moves a campus or
an AppID under a customer. `StaffMessages` tells members of staff (`People`) from people
on WeChat (`Persons`): `openid`, `unionId` and `gzhOpenid` name the person they are of,
`bound` remembers who ever bound whom, `learned` whether a union id came with a login.
`staffBind` takes the open id from the member who had it and overwrites another union id,
unless the unique key refuses; `gzhOpenid` stays. WeChat is outside: who follows, the
consents left, and one event at a time for each follower.

## Runs

| Run | Instance | Shows |
|---|---|---|
| `payment_safety` | 2 orders, 1 coupon, 2 products (one contested), 2 requests, 1 crash | stock accounted for, coupon exclusive and in step with its order, acknowledged means settled, closed or paid for good |
| `payment_live` | the same with 1 request | every charge is settled, stale orders close, `PaymentPromise` is implemented, liveness included |
| `refund_safety` | 2 refunds, 2 award amounts, 1 worker, 1 crash, no settlement rolled back | partial refunds that add up to everything end the order |
| `refund_races` | 1 refund, 2 workers, 1 fault | recorded means paid back, goods return once, nothing stuck, nothing forgotten |
| `refund_amount` | 1 refund, 2 workers | finding: the recorded amount can differ from the one WeChat paid |
| `refund_restock` | 1 refund, 1 worker | finding: goods that have left the warehouse return to stock |
| `fulfilment` | 1 order (either kind of campus), 2 riders, 1 manager, 2 requests | the carrier keeps the order and is paid, one rider per order, booked out once, progress by cron alone |
| `desk_delivery` | 1 order, desk may enter deliveries | finding: a rider who grabs the order during the desk's request is not paid |
| `auto_complete` | 1 order | finding: after a transfer the 48 hours count from the wrong node |
| `manager_online` | 2 members of staff, 1 building, 1 clerk | finding: a deleted manager sets himself online beside his successor |
| `goods` | six modules, one at a time: 1 campus order and 2 purchase orders; 1 product with 2 requests; 2 categories, copies and promotions; 2 products in the cart; 2 buildings and addresses; 2 orders and 2 prints over 2 days | goods leave headquarters once and purchases stay in order, a shelf has one source and its ledger explains its moves, a shop offers each thing once, one default address, numbers of one order each |
| `back_office` | seven modules, one at a time: 2 accounts, roles and menus with 1 request; 1 account that changes its level and organisation, and a campus that changes its; 2 visits of 1 customer; 2 orders over 2 months; 2 members of staff, 1 building, 2 applications; 2 managers and 2 answers; 2 organisations and campuses; notices to 1 rider of 2 firms; 1 rider and 2 people who bind him, or 2 riders and 1 person | the cache is true and somebody administers, coupons and draws are accounted for, no commission is paid twice, one manager among the staff no clerk has deleted and one hire, customers are at home, riders are reached once |

**The two composite runs.** The modules of `MCGoods` share no variable, nor do those of
`MCBackOffice`. `aisle` and `office` name the one that moves in a behaviour; the others
keep their initial state, because interleaving modules that share nothing would multiply
their state spaces and show nothing more. The `VIEW` of the configuration is that name
with the variables of the module it names: the remaining variables have a single value
for each name (`AccessAtRest`, `MessagesAtRest` and the initial predicates see to it), so
that the view identifies no two states. The type invariants of a composite are those of
its modules. `AccessControl` and `StaffMessages` are each seen from two sides, because the
sizes multiply: grants, roles and menus without levels and organisations (`access`), and
those with grants only (`reach`); notices to one rider (`messages`), and bindings without
notices (`binding`). In both halves of access control the guarded requests are `bob`'s:
`ann` administers, and either account may be called `bob` where both begin as
administrators. Clerks give one number by hand (`HandNos = {2}`), which hirings take
numbers around.

**Bounds.** Two orders are the fewest that can contest stock or a coupon; two requests
the fewest that can race, and every race found in the code is between two. `ContestedQty`
gives one product that suffices for either order and another that suffices for both, so
that a payment fails on one line after the other was deducted. `Goods = 2`, `Fee = 1`
and `Awards = {1}` make two partial refunds of goods full without the fee and short with
it. `MaxCrashes` and `MaxFaults` bound crashes and aborts at one; a second one starts
from a state that the first run already covers, because nothing but the database
survives. The runs of refunds put the two dimensions apart (two rows, or two workers),
because together they exceed what TLC finishes. In `fulfilment` the desk may choose only
exception and cancelled: with every target it can undo whatever was done (see the
hazards), and the statements about riders would be about the desk.

In the composite runs `ShelfLimit`, `MaxVersion`, `MaxSession`, `MaxHeld`, `MaxQty`,
`MaxApplied`, `MaxCredit` and `LastDay` bound counters. One unit on a shelf suffices to
sell it twice; two changes of permissions are the fewest of which one falls between two
reads and the other after them, and one more session is enough for an entry of an older
one to be left in the cache; a second rider or a second person is needed for a binding to
change over; two days are the fewest on which numbers restart; two
months the fewest in which a bill is listed, paid and listed again.

**One clerk, one device, one phone.** Where the code checks a row in one statement and
writes it in another without a condition, two clerks at the same desk break it at once:
two managers for one building, two overlapping promotions, an AppID registered twice, two
buyers who overfill a purchase order, two receivers who credit a delivery twice, two
devices that take two flash pieces, two phones with a default address each. These are
listed among the hazards, and where a comment promises otherwise under "Findings". The
passing runs put one request at a time at such desks (`Buyers`,
`Receivers`, `StaffClerks`, `Operators`, `Editors`, `Devices`, `Phones`) and keep every
other actor concurrent, so that what they show is what holds in spite of the code's
staleness against everybody else. Two requests stay where the code does protect the
step: at the shelf, among the shippers, in `Benefits`, in `StaffCover`, in `Receipts`.

`CHECK_DEADLOCK FALSE` everywhere: orders end, and a system whose orders have all ended
has nothing to do; the bounded counters of the composite runs stop as well.

**Fairness.** Weak fairness for the steps of a request that has started (the event loop
runs it to its end unless the process dies) and for the crons (every minute, thirty
seconds, five and ten minutes). Strong fairness for the acknowledgement of a payment:
WeChat repeats a notification until it is answered SUCCESS, even if the server is busy
each time it tries. Strong fairness for the cron's query of a refund: the row may be
claimed when the cron passes, but it passes again. WeChat settles the refunds that it
accepted. Callbacks for refunds, customers, riders and clerks are under no obligation,
and the modules of the composite runs, which are all about requests that people make,
state no fairness. `PaidGoesOut` speaks of campuses that switched auto-outbound on.

Every property of a passing run has a mutant, a conjunction sometimes several, in `PROJECT.json`: a change of one
definition, of the kind a programmer might make, under which TLC finds the property
violated. Their bodies stand in front of the definitions they replace, under names with
a qualifier (`PayableUnlocked`, `TakesHqUnchecked`, ...).

## Findings

Five statements of comments in the repository do not hold and have a run that ends in a
counterexample. The comments, their places and what the runs show are quoted in
`PROJECT.json`: the refund amount that a second approval overwrites (`refund_amount`), the
restocking of shipped goods (`refund_restock`), the commission that the desk's delivery
misses (`desk_delivery`), the 48 hours after a transfer (`auto_complete`), and the manager
who was deleted, was succeeded, and sets himself online with a token that is still valid
(`manager_online`; one clerk is enough).

The modules state further properties that the code does not have. No run checks them, and
their comments say how they fail; under the constants in the last column TLC finds each
violated. The first nine contradict a comment as well, at the line given (`admin`,
`business` and `printer` stand for the service of that name).

| Property | States | Comment | Fails because | With |
|---|---|---|---|---|
| `OrderPayment!TimedOutPayCloses` | `pay` closes an order that is overdue | `business` 1578 | the throw that follows rolls the closing back | one order |
| `StaffCover!CancelledStays` | an invitation taken back stays so | `admin` 8344 | the answer is written without a condition | one invitation |
| `Payroll!LockedBill` | a confirmed bill is locked | `admin` 7277 | the list writes what it read before the confirmation | one list |
| `Inventory!EditKeepsStock` | saving a product leaves its stock alone | `admin` 2114 | the form sends back the stock it showed, and a sale comes in between | `Echo = {"stock"}` |
| `Restock!CreditedAsShipped` | a receipt credits what was shipped, once | `admin` 4073 | two clerks of the campus confirm at once | two receivers |
| `Catalogue!OnePromo` | a product has one promotion at a time | `admin` 1804 | two clerks both find the window free | two editors |
| `Tenancy!KitOnce` | a bootstrap opens one campus | `admin` 7880 | two submissions both find none | two operators |
| `Benefits!SignupOnce` | one newcomers' coupon per user | `business` 2782 | two requests both find none | two visits, a coupon for newcomers |
| `Receipts!OneNumber` | one order, one number | `printer` 283 | payment and reprint both find none, or the write-back fails | one order, two prints |
| `Payroll!DeductedWithinEarned` | deductions of a month stay within its earnings | | an adjustment moves to another month as a whole | two jobs, two months |
| `Workforce!NextNoFree` | the next number is free | | numbers are compared as texts, from IBM-999 on | `HandNos = {999, 1000}` |
| `AddressBook!GoesWhereItSays` | an order is on the round of the building it names | | `updateAddress` writes the name and not the id | one phone |

## Proofs

TLAPS checks the theorems below for every value of the constants that satisfies the
assumptions named in the modules. They are stated of the specification without fairness,
which the one with fairness implies.

| Theorem | States | Inductive invariant |
|---|---|---|
| `StockNeverNegative`, `CouponIsExclusive`, `CouponAgrees`, `AckedPaymentIsSettled` | `[]TypeOK`, `[]CouponExclusive`, `[]CouponFollowsOrder`, `[]AckedIsSettled` of `OrderPayment` | `IInv` |
| `StockAdds` | `[]StockAccounted` of `OrderPayment` | `IInv`, `StockInv` |
| `ClosedOrPaidStays` | the action property `ClosedOrPaidForGood` | `IInv` |
| `PromiseSafetyKept` | `Safety => Promise!Safety`: initial states and steps of the detailed model are those of `PaymentPromise` | `IInv` |
| `TypeCorrect`, `RefundsAreReal`, `RefundedOrders`, `GoodsReturnAtMostOnce` | `[]TypeOK`, `[]RefundedAtWechat`, `[]RefundedOrderIsPaidBack`, `[]GoodsReturnOnce` of `RefundSettlement`, for any refunds, workers and faults | `IInv` |
| `AllPaidBackEnds` | `[]AllPaidBackEndsOrder`, with one request at a time and no settlement rolled back | `IInv`, `RefundsAgree` |
| `TypesHold` | `[]TypeOK` of `Fulfillment` | `Typed` |
| `GoodsLeaveOnce` | `[]BookedOutOnce`, if the desk does not send orders back to paid or picking | `Booked` |
| `DeliveredOrdersStay`, `CarriersKeepOrders` | the action properties `DeliveredStays` and `CarrierKeepsOrder`, whatever the desk may choose | `Lawful` |
| `CarriersArePaid`, `OneRiderIsPaid` | `[]CarrierIsPaid`, `[]OneRiderPaid`, if the desk only marks exceptions and cancels | `Custody` |
| `RestockTypesHold`, `ShipsOnce` | `[]RestockTypeOK`, `[]ShippedOnce` of `Restock`, for any numbers of clerks of every kind | `ShipInv` |
| `PurchasesStayInOrder` | `[]PurchasesInOrder`, with one buyer | `BuyInv` |
| `ReceiptTypesHold`, `NumbersAreOfOneOrder` | `[]ReceiptsTypeOK`, `[]NumbersDiffer` of `Receipts` | `PrintsTyped`, `Counted` |
| `GoodsOfOneSource` | `[]OneSource` of `Inventory`, if the form does not send back the source it showed | `ShelfInv` |
| `LedgerExplains` | the action property `LedgerExplainsMoves`, if the form does not send back the stock it showed | `ShelfInv` |
| `DefaultIsOne` | `[]OneDefault` of `AddressBook`, with one phone | `BookInv` |
| `CatalogueInOrderAlways` | `[]Catalogued`, with one editor: names of categories, copies of catalogue rows, promotions | `CatalogueInv` |
| `FlashPriceOnce` | `[]OneFlashPiece` of `Storefront`, with one device: of the lines of one order | `ShopInv` |
| `GoodsTypesHold`, `OfferedAlways` | `[]GoodsTypeOK`, and with one editor and one device `[]Offered`, of `MCGoods` | those of its modules |
| `CachedIsEffective` | `[]CacheTrue` of `AccessControl`, for any accounts, roles, menus, campuses, organisations and requests | `AccessInv` |
| `AccessStaysUsable` | `[]AccessKept`: somebody administers, and the menus form a forest | `AccessInv`, `Rooted` |
| `CommissionsPaidOnce` | `[]PaidWithinEarned` of `Payroll`, for any jobs, months and lists | `PayInv` |
| `BenefitsAreKept` | `[]BenefitsKept` of `Benefits`, for any customers, requests and days | `BenefitInv` |
| `StaffIsReached` | `[]StaffReached` of `StaffMessages`, for any members of staff, people on WeChat, firms and notices | `MessagesInv` |
| `TenantsApart` | `[]Tenanted` of `Tenancy`, with one operator and any number of users | `TenancyInv` |
| `BackOfficeTypesHold` | `[]BackOfficeTypeOK` of `MCBackOffice` | those of its modules |
| `PostsAreFilledOnce` | `[]Staffed` of `MCBackOffice`, with one clerk and one form: one manager among those no clerk has deleted, one hire, answers stand | `StaffSound`, `OneAppointed`, `Vacancies`, `OneInTheWay`, `CoverInv` |

The hypotheses about one buyer, phone, editor, device, operator, clerk and form, about one
request and rollbacks of refunds, about `Echo` and `DeskTargets` are those under which the
passing runs run (see "One clerk, one device, one phone"): without them the code does not have the property. None is needed
where the code protects the step. Sets of rows are assumed finite (`Jobs`, `Menus`,
`Staffs`, `Customers`, the goods in a cart) where the code counts or lists them.

None of these properties is inductive.

*OrderPayment.* `CouponExclusive` alone does not say that a selectable coupon is unused,
so it needs `CouponFollowsOrder`; that in turn needs to know that an order with `paidAt`
is past payment and an order awaiting payment is not paid (`PaidRows`). The refinement
needs `TradeRows` (a paid order was charged) and `TaskOrders` (a request in
`applyPayment` works on a charged order that exists). `IInv` is the conjunction of those
with `TypeOK` and the properties themselves. The lemmas go action by action:
`TypeCorrect`, `RowsStep`, `TaskStep`, `CouponStep`, then `Inductive`. For `StockAdds`,
`StockMoves` says that a step pays one order for good and deducts its goods, or leaves
both alone; a sum over the paid orders then grows by the term of that order.

*RefundSettlement.* `finishRefund` does not ask WeChat: it trusts the request that called
it. `TrustIsEarned` says what a request knows on its way there. An answer SUCCESS, however
late it is used, is still WeChat's word, because WeChat takes no SUCCESS back, and a
request at `finish` has come from such an answer. That goods return once rests on
`stockRestored`, which a settlement tests and sets in one transaction.
For `AllPaidBackEnds` only finitely many rows are written (`TypeInv`), so that sums over
them are numbers. `RefundsAgree` says that a refund WeChat has taken is in flight or
refunded in its row, with the same amount (`RowsAgree`), that WeChat takes no more than
was paid (`TakenWithinPaid`), and that what the one request has read still holds
(`Careful`): what it saw declined is not taken, and while it holds a refund as pending,
not everything has been paid back. So the settlement that completes the sum sees the whole
of it, and nothing is left afterwards that would lock the order again.
Two requests already make a recorded amount differ from the one paid (`refund_amount`). So
does a rollback with one request: when a settlement is rolled back, `auditRefund` may take
the exception for a refusal by WeChat and mark a refund failed that was paid; approved
anew at another amount, its row adds up differently from what WeChat paid. TLC then ends
an order too early and reopens it (3 of goods, no fee, awards of 1 and 3, two refunds, one
rollback). `Unbroken` therefore leaves the rollback out, for the run as for the theorem;
`refund_races` keeps it.

*Fulfillment.* Everything but the types rests on what a request may still do with an
order it read earlier. `Lawful` says of every request under way that the status it will
write follows from the one it saw; as it writes only in that status, its write is one of
the moves that the code makes at once. `Booked` adds that an order in stock has no rows of
outbound yet. `Custody` adds who is paid: before delivery nobody, afterwards only the
carrier, and a request that will deliver saw the carrier who still has the order
(`WillPayCarrier`). The last fails when the desk may enter deliveries, which is the
finding `desk_delivery`; hence the assumption on `DeskTargets`.

*Restock.* `ShipInv` ties `left` to the shipment row, whose unique key is what keeps two
shippers, or a shipper and a revoker, apart; it needs nothing about what they read.
`BuyInv` is about what the one buyer has read: the purchase order has not changed since,
because nobody else writes it, so the shortage it computed still holds.

*Receipts.* `Counted` says that numbers up to `lastNumber` have been given (`Given`), that
no two orders of a campus hold one number, on the row, in a print under way or on paper
(`OneHolder`), and that a print past `TakeNumber` has a number (`Numbered`).

*Inventory, Catalogue, Storefront, AddressBook.* A request decides on what it read, and
the invariants say what of that still holds when it writes. `ShelfInv` needs only that a
request has read the row (`HasRead`) and that finitely many returns are under way: the row
itself may have changed, since the conditional updates test what matters. The other three
handlers write without a condition. `Minded`, `Writable` and `Remembered` say that what
was checked is still so, which holds because the desk, the device and the phone are one;
customers, sales and buildings change at will meanwhile.

*AccessControl.* `Versions` says that nothing carries a version newer than the present
one, that what is cached under the present version is true, and that a request which read
the grants under the present version read what still stands. A change increments the
version, so that it makes all three vacuous at once; a request that is overtaken caches
under a version that nobody will look up. `Sessions` says the same of the session version:
nothing loaded or cached has a newer session than the account's, and what was loaded in the
session of now has the level and organisation of now. `updateAccount` increments it when
it changes them. `Aimed` says which account and role a request is
about. That somebody administers is checked and written under the advisory lock.
For the forest, `MenuForest` walks down `Below`, a function of the number of levels.
`Rooted` says the same without a number: a standing node lies in a set of nodes that is
closed under children and that its parent is outside of (`ForestIsRooted`). `updateMenu`
refuses a parent below the node, and that refusal is exactly what preserves `Rooted`; a
node that is deleted hangs no one else's parent anew.

*Payroll.* `Covered`: a list and a bill hold what was earned when the list was read, at
most what is earned now, since commissions are only added to a month; a month is paid only
when its bill is confirmed, and once.

*Benefits.* `Reads` says that the total a request has read is no larger than the coupon's
unless a clerk lowered it (`lowered`), which is what lets `claimCoupon` compare with a
stale number; a conditional increment does the rest. `CouponsAccounted` is a sum over the
customers, `DrawsHonest` counts days (`Drawn` keeps them finite), and the unique key on
customer and day is what keeps two draws apart.

*Workforce, StaffCover.* `StaffSound` says that every deleted row is one of those that a
clerk has dismissed, so that a member of staff who comes back is not counted.
`Vacancies` is what a clerk has seen of the building's manager, `OneInTheWay` of the candidate's applications, in the form and at the clerk's desk.
Answers to invitations need no assumption on clerks: `CoverInv` adds only that an errand
carries an answer.

*Tenancy.* `Prepared` is what the operator has checked, `AppsApart` and `Kits` what the
database has no key for, `Housed` where a user is and, with a login or a switch under way,
is about to be.

*StaffMessages.* `OwnIds` says that every id a member has, and every one that a callback
or a reconciliation is about to write, is of a person who bound him. A follower may be unbound for a while: after the event and before the
callback, or while a reconciliation is under way. `WillBeBound` names who will do it, which
for a reconciliation is that it has still to list the followers, to come to this one, or to
write. For two who never bound anyone else nobody else's id is in the way of that.
`Tallies` gives the copies a member has by where the notice stands with him.

*The compositions.* While one module moves the others stand still, so that a behaviour of
the composition is one of each module (`EachOfficeOnItsOwn`, and its like in
`Goods_proofs`), and the theorems about the modules carry over.

**What proving corrected.** Each of these held on TLC's instances and failed for others:
a new menu node may not reuse the id of a deleted one to which an orphan still refers
(`NewId`; ids are fresh `cuid`s); a number of a member of staff, and the count of
administrators of an organisation, have no upper bound; a day begins anywhere, not on the
first; a set of places in `Scopes` was a union where a choice was meant; `Tick` stops at
the last instant without naming it; and `AllPaidBackEndsOrder` held of rollbacks only while
staff could award no more than one amount.

**Sums.** `SumFunctionOnSet` is defined by a fold over a set chosen element by element.
`Sums` shows that the fold exists and what adding, removing and changing one term does to
it, by induction written as facts about sets (a set of subsets that contains a set
whenever it contains each smaller by one contains all finite ones), because the rules of
the library that take a predicate are of no use to the provers.

**Only model-checked.** Everything with fairness (`ChargeIsSettled`, `StaleOrderCloses`,
`InFlightSettles`, `PaidBackIsRecorded`, `LockIsNotOrphaned`, `PaidGoesOut`,
`DeliveredCompletes`, the liveness half of `PromiseKept`), which is out of the prover's
reach.

## Plan

1. Done: the three modules of an order (`OrderPayment`, `RefundSettlement`,
   `Fulfillment`), the shop (`Restock`, `Inventory`, `Catalogue`, `Storefront`,
   `AddressBook`, `Receipts`) and the offices (`AccessControl`, `Benefits`, `Payroll`,
   `Workforce`, `StaffCover`, `Tenancy`, `StaffMessages`).
2. Done: a theorem for every safety property of the passing runs.
3. The safety steps that the liveness properties rest on: a refund in flight stays so until
   it is settled, an answer in hand leads on.
4. `OrderDesk`: every target of `updateOrderStatus` and `mark-exception`, composed with
   payment, refunds and fulfilment.

## Not modelled

Price arithmetic, catalogue reads, signatures, tokens and credentials, layout of receipts,
pushes to customers (fire-and-forget, they change no order), files, analytics, reports and
lists. Rooms, storage locations, banners, delivery configuration, and the platform's
product library with its copies: `pullUpstream` and `confirmRestockReceipt` leave a
campus's product in a category of the platform, which no module shows. The desk's targets
beyond exception and cancelled are a constant of `Fulfillment`, and no run takes all of
them. The 24 hour window for after-sales applications is not modelled: any delivered order
may apply. Batches of crons (100 refunds, 50 deliveries, 20 shipments) are larger than any
instance. The row locks of two payments are not modelled; that Postgres aborts one of them
is an outcome of `PayAborts`.
