\* One order, every event in two copies, two handlers, one lost transaction.
SPECIFICATION Spec
CONSTANTS
  i1 = i1
  u1 = u1
  k1 = k1
  Payers = {u1}
  Keys = {k1}
  Invoices = {i1}
  MayPay <- EveryonePays
  Requests = {r1}
  Handlers = {h1, h2}
  Copies = {c1, c2}
  Legacy <- NothingCollected
  MaxCrashes = 1
  None = None
SYMMETRY SlotSymmetry
INVARIANTS ProcessedMeansApplied AppliedOnce
PROPERTY HistoryKept
CHECK_DEADLOCK FALSE
