\* Two bookings, two times, one agent, two assignments, one payment, one batch.
SPECIFICATION Spec
CONSTANTS
  Bookings = {b1, b2}
  Slots = {s1, s2}
  Clashing <- OwnTime
  Agents = {a1}
  Jobs = {j1, j2}
  Checklisted = {b1}
  Payments = {p1}
  Batches = {n1}
  None = None
SYMMETRY RowSymmetry
INVARIANTS NoDoubleWork ConfirmedPassed RecoveryJustified
PROPERTY DraftedWhenDue
CHECK_DEADLOCK FALSE
