\* A disagreement with the code: one request at a time is enough.
SPECIFICATION Safety
CONSTANTS
  r1 = r1
  r2 = r2
  w1 = w1
  w2 = w2
  Refunds = {r1}
  Workers = {w1}
  NoRefund = NoRefund
  Goods = 2
  Fee = 1
  ListPrice = 2
  Awards = {1}
  MaxFaults = 0
INVARIANT ShippedGoodsStayOut
CHECK_DEADLOCK FALSE
