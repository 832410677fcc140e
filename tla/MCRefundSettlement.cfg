\* Safety: two refunds, one request at a time, a crash, no settlement rolled back.
SPECIFICATION Unbroken
CONSTANTS
  r1 = r1
  r2 = r2
  w1 = w1
  w2 = w2
  Refunds = {r1, r2}
  Workers = {w1}
  NoRefund = NoRefund
  Goods = 2
  Fee = 1
  ListPrice = 2
  Awards = {1, 2}
  MaxFaults = 1
INVARIANTS TypeOK AllPaidBackEndsOrder
CHECK_DEADLOCK FALSE
