\* One refund, two concurrent requests, a crash or an aborted transaction.
SPECIFICATION Spec
CONSTANTS
  r1 = r1
  r2 = r2
  w1 = w1
  w2 = w2
  Refunds = {r1}
  Workers = {w1, w2}
  NoRefund = NoRefund
  Goods = 2
  Fee = 1
  ListPrice = 2
  Awards = {1}
  MaxFaults = 1
INVARIANTS RefundedAtWechat RefundedOrderIsPaidBack GoodsReturnOnce
PROPERTIES InFlightSettles PaidBackIsRecorded LockIsNotOrphaned
CHECK_DEADLOCK FALSE
