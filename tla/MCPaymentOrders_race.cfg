\* Two residents, one key each, two invoices, two concurrent calls, one handler.
SPECIFICATION Spec
CONSTANTS
  i1 = i1
  u1 = u1
  k1 = k1
  Payers = {u1, u2}
  Keys = {k1}
  Invoices = {i1, i2}
  MayPay <- EveryonePays
  Requests = {r1, r2}
  Handlers = {h1}
  Copies = {c1}
  Legacy <- NothingCollected
  MaxCrashes = 0
  None = None
SYMMETRY SlotSymmetry
INVARIANTS OneLiveOrder PaidIffCaptured ReplyMatchesCall NoLockCycle
PROPERTY ImplementsSettlement
CHECK_DEADLOCK FALSE
