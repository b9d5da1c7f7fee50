\* One booking, one payment, one batch.
SPECIFICATION Spec
CONSTANTS
  Bookings = {b1}
  Slots = {s1}
  Clashing <- OwnTime
  Agents = {a1}
  Jobs = {j1}
  Checklisted = {}
  Payments = {p1}
  Batches = {n1}
  None = None
INVARIANT RefundNeverKept
CHECK_DEADLOCK FALSE
