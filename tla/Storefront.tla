------------------------------- MODULE Storefront -------------------------------
(***************************************************************************)
(* The cart of one user, the flash sales of its products, and the order    *)
(* that is made of the cart.  The user's devices send requests at the same *)
(* time; what a request writes rests on what it read before.  Stock,       *)
(* coupons, addresses, slots and the opening hours are left out, as are    *)
(* products that go off sale.                                              *)
(***************************************************************************)
EXTENDS Naturals, FiniteSets

CONSTANTS
  Goods,           \* products, all of which may have a flash sale
  Devices,         \* devices of the user
  MaxQty,          \* bound on a line of the cart
  LimitQty         \* purchaseLimitQty of every product

ASSUME StorefrontAssumption == IsFiniteSet(Goods) /\ MaxQty \in Nat /\ LimitQty \in Nat \ {0}

VARIABLES
  flash,           \* products whose flash sale is on
  cart,            \* CartItem: quantity and asSeckill
  device,          \* what a request has read
  bought,          \* purchaseLimitBought: pieces in paid orders
  order            \* the last order: the lines and which have the flash price

shopVars == <<flash, cart, device, bought, order>>

NoLine == [qty |-> 0, flash |-> FALSE]
Line == [qty : 0..MaxQty, flash : BOOLEAN]
EmptyCart == [p \in Goods |-> NoLine]
NoSale == [paid |-> TRUE, lines |-> EmptyCart]
Asleep == [pc |-> "idle", lines |-> EmptyCart, on |-> {}]

ShopTypeOK ==
  /\ flash \subseteq Goods
  /\ cart \in [Goods -> Line]
  /\ device \in [Devices -> [pc : {"idle", "line", "save", "quote", "order"}, lines : [Goods -> Line],
                             on : SUBSET Goods]]
  /\ bought \in [Goods -> Nat]
  /\ order \in [paid : BOOLEAN, lines : [Goods -> Line]]

ShopInit ==
  /\ flash = {} /\ cart = EmptyCart
  /\ device = [d \in Devices |-> Asleep]
  /\ bought = [p \in Goods |-> 0]
  /\ order = NoSale

\* Sales start, end, and are switched off by clerks (Catalogue).
FlashSale(p) ==
  /\ flash' = IF p \in flash THEN flash \ {p} ELSE flash \cup {p}
  /\ UNCHANGED <<cart, device, bought, order>>

\* assertPurchaseLimit: what was bought so far, not what is about to be.
UnderLimit(p) == bought[p] < LimitQty
FlashLines(lines) == {p \in Goods : lines[p].qty > 0 /\ lines[p].flash}

-----------------------------------------------------------------------------
(* The cart *)

\* setCartItem: one line, at the flash price or at the normal one.  A flash
\* line is of one piece, of a sale that is on, and the only one of the cart.
FlashMayEnterMany(p, q) == p \in flash /\ FlashLines(cart) \subseteq {p}
FlashMayEnter(p, q) == q = 1 /\ p \in flash /\ FlashLines(cart) \subseteq {p}

SetRead(d, p, q, asFlash) ==
  /\ device[d] = Asleep
  /\ q > 0 =>
       /\ UnderLimit(p)
       /\ cart[p].qty > 0 => cart[p].flash = asFlash
       /\ asFlash => FlashMayEnter(p, q)
  /\ device' = [device EXCEPT ![d] = [pc |-> "line", on |-> {p},
                   lines |-> [EmptyCart EXCEPT ![p] = [qty |-> q, flash |-> asFlash /\ q > 0]]]]
  /\ UNCHANGED <<flash, cart, bought, order>>

SetWrite(d) ==
  /\ device[d].pc = "line"
  /\ cart' = [p \in Goods |-> IF p \in device[d].on THEN device[d].lines[p] ELSE cart[p]]
  /\ device' = [device EXCEPT ![d] = Asleep]
  /\ UNCHANGED <<flash, bought, order>>

\* updateCart: the whole cart is replaced.
CartSaveRead(d, lines) ==
  /\ device[d] = Asleep
  /\ \A p \in Goods : lines[p].qty > 0 => UnderLimit(p)
  /\ \A p \in Goods : lines[p].qty = 0 => ~lines[p].flash
  /\ Cardinality(FlashLines(lines)) <= 1
  /\ \A p \in FlashLines(lines) : p \in flash /\ lines[p].qty = 1
  /\ device' = [device EXCEPT ![d] = [pc |-> "save", on |-> Goods, lines |-> lines]]
  /\ UNCHANGED <<flash, cart, bought, order>>

CartSaveWrite(d) ==
  /\ device[d].pc = "save"
  /\ cart' = device[d].lines
  /\ device' = [device EXCEPT ![d] = Asleep]
  /\ UNCHANGED <<flash, bought, order>>

-----------------------------------------------------------------------------
(* The order *)

\* cartData prices the lines: the flash price for a flash line whose sale is
\* on, the normal price otherwise.
CartData(d) ==
  /\ device[d] = Asleep /\ cart # EmptyCart
  /\ device' = [device EXCEPT ![d] = [pc |-> "quote", on |-> FlashLines(cart),
                   lines |-> [p \in Goods |-> [cart[p] EXCEPT !.flash = @ /\ p \in flash]]]]
  /\ UNCHANGED <<flash, cart, bought, order>>

\* validateQuote: the limit, and at most one flash line whose sale is on now.
Quotable(d) == Cardinality(device[d].on \cap flash) <= 1
ValidateQuote(d) ==
  /\ device[d].pc = "quote"
  /\ device' = [device EXCEPT ![d] =
       IF Quotable(d) /\ \A p \in Goods : device[d].lines[p].qty > 0 => UnderLimit(p)
       THEN [@ EXCEPT !.pc = "order"] ELSE Asleep]
  /\ UNCHANGED <<flash, cart, bought, order>>

\* createOrder takes the lines that were priced; the cart stays as it is.
CreateOrder(d) ==
  /\ device[d].pc = "order"
  /\ order' = [paid |-> FALSE, lines |-> device[d].lines]
  /\ device' = [device EXCEPT ![d] = Asleep]
  /\ UNCHANGED <<flash, cart, bought>>

\* pay: the order is paid and the whole cart is emptied.
PayOrder ==
  /\ ~order.paid
  /\ order' = [order EXCEPT !.paid = TRUE]
  /\ bought' = [p \in Goods |-> bought[p] + order.lines[p].qty]
  /\ cart' = EmptyCart
  /\ UNCHANGED <<flash, device>>

-----------------------------------------------------------------------------

ShopNext ==
  \/ PayOrder
  \/ \E p \in Goods : FlashSale(p)
  \/ \E d \in Devices :
       \/ SetWrite(d) \/ CartSaveWrite(d) \/ CartData(d) \/ ValidateQuote(d) \/ CreateOrder(d)
       \/ \E p \in Goods, q \in 0..MaxQty, asFlash \in BOOLEAN : SetRead(d, p, q, asFlash)
       \/ \E lines \in [Goods -> Line] : CartSaveRead(d, lines)

ShopSpec == ShopInit /\ [][ShopNext]_shopVars

-----------------------------------------------------------------------------
(* Properties *)

\* An order gets the flash price for one piece of one product, although sales
\* start and end while the cart is filled, saved, priced and ordered
\* (setCartItem, updateCart, cartData, validateQuote).
OneFlashPiece ==
  /\ Cardinality(FlashLines(order.lines)) <= 1
  /\ \A p \in FlashLines(order.lines) : order.lines[p].qty = 1
=============================================================================
