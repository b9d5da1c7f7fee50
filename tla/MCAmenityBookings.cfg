\* Two units, one window, two policies, three rows, two concurrent calls.
SPECIFICATION Spec
CONSTANTS
  Units = {u1, u2}
  Windows <- OneWindow
  Bookings = {b1, b2, b3}
  Policies <- TwoPolicies
  Opening <- Single
  Hours <- HoursChoices
  Requests = {r1, r2}
  None = None
SYMMETRY Slot
INVARIANTS NeverOverbooked NoIdlePlace DepositMatchesMoney NoWaiterWhileClosed SomeCallCanEnd
CHECK_DEADLOCK FALSE
