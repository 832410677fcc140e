\* One order, of either kind of campus, two riders, a manager, two requests.
SPECIFICATION Spec
CONSTANTS
  o1 = o1
  r1 = r1
  r2 = r2
  m1 = m1
  q1 = q1
  q2 = q2
  Orders = {o1}
  Riders = {r1, r2}
  Managers = {m1}
  DeskTargets = {"exception", "cancelled"}
  Requests = {q1, q2}
  NoRider = NoRider
  NoOrder = NoOrder
INVARIANTS CarrierIsPaid OneRiderPaid BookedOutOnce
PROPERTIES CarrierKeepsOrder DeliveredStays PaidGoesOut DeliveredCompletes
CHECK_DEADLOCK FALSE
