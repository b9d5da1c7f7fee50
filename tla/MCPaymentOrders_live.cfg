\* One order collected before receipts were recorded and one new one; a handler may lose a delivery.
SPECIFICATION FairSpec
CONSTANTS
  i1 = i1
  u1 = u1
  k1 = k1
  Invoices = {i1}
  Payers = {u1}
  Keys = {k1, k2}
  MayPay <- EveryonePays
  Requests = {r1}
  Handlers = {h1}
  Copies = {c1}
  Legacy <- OneCollected
  MaxCrashes = 1
  None = None
PROPERTIES RefundsArrive CapturesArrive
CHECK_DEADLOCK FALSE
