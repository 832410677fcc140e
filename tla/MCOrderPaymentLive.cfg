\* Liveness and refinement: one request at a time, two orders, a crash.
SPECIFICATION Spec
CONSTANTS
  o1 = o1
  o2 = o2
  c1 = c1
  p1 = p1
  p2 = p2
  h1 = h1
  h2 = h2
  Orders = {o1, o2}
  Coupons = {c1}
  Products = {p1, p2}
  Handlers = {h1}
  NoCoupon = NoCoupon
  NoOrder = NoOrder
  Qty <- ContestedQty
  InitialStock <- ContestedStock
  MaxCrashes = 1
PROPERTIES ChargeIsSettled StaleOrderCloses PromiseKept
CHECK_DEADLOCK FALSE
