\* A disagreement with the code: the desk enters a delivery it read before the grab.
SPECIFICATION Safety
CONSTANTS
  o1 = o1
  r1 = r1
  r2 = r2
  m1 = m1
  q1 = q1
  q2 = q2
  Orders = {o1}
  Riders = {r1, r2}
  Managers = {m1}
  DeskTargets = {"delivered"}
  Requests = {q1, q2}
  NoRider = NoRider
  NoOrder = NoOrder
INVARIANT CarrierIsPaid
CHECK_DEADLOCK FALSE
