\* One visit of any origin, two taps on one phone, two calls that may overlap, two faults.
SPECIFICATION FairSpec
CONSTANTS
  Visits = {v1}
  k1 = k1
  k2 = k2
  Keys = {k1, k2}
  Phones = {p1}
  Calls = {c1, c2}
  MaxCredentials = 2
  MaxFaults = 2
  None = None
CONSTRAINT KeysInOrder
INVARIANTS EnteredOnce OpenActionsHeld ToldTrue
PROPERTIES QueueDrains ImplementsBook
CHECK_DEADLOCK FALSE
