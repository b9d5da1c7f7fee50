\* Two periods, three entry numbers, one expense of two, payments of one and two, two concurrent calls.
SPECIFICATION Spec
CONSTANTS
  p1 = p1
  e1 = e1
  Periods = {p1, p2}
  Journals = {j1, j2, j3}
  Expenses = {e1}
  Amount <- AmountTwo
  DateOf <- FirstPeriod
  Entries <- AnyPayment
  Named = {None, e1}
  Charges = {c1}
  Requests = {r1, r2}
  None = None
SYMMETRY SlotSymmetry
INVARIANTS NoDraftInClosedPeriod ReversedByOne ExpenseBookedOnce PaidIffSettled SomeCallCanEnd
PROPERTIES ClosedBooksFrozen ImplementsBooks
CHECK_DEADLOCK FALSE
