\* A disagreement with the code: two audits of one refund, no faults.
SPECIFICATION Safety
CONSTANTS
  r1 = r1
  r2 = r2
  w1 = w1
  w2 = w2
  Refunds = {r1}
  Workers = {w1, w2}
  NoRefund = NoRefund
  Goods = 2
  Fee = 1
  ListPrice = 2
  Awards = {1, 2}
  MaxFaults = 0
INVARIANT RecordedAmountIsPaid
CHECK_DEADLOCK FALSE
