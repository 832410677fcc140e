\* Two concurrent requests, two orders, one coupon, contested stock, a crash.
SPECIFICATION Safety
CONSTANTS
  o1 = o1
  o2 = o2
  c1 = c1
  p1 = p1
  p2 = p2
  h1 = h1
  h2 = h2
  Orders = {o1, o2}
  Coupons = {c1}
  Products = {p1, p2}
  Handlers = {h1, h2}
  NoCoupon = NoCoupon
  NoOrder = NoOrder
  Qty <- ContestedQty
  InitialStock <- ContestedStock
  MaxCrashes = 1
INVARIANTS TypeOK StockAccounted CouponExclusive CouponFollowsOrder AckedIsSettled
PROPERTY ClosedOrPaidForGood
CHECK_DEADLOCK FALSE
