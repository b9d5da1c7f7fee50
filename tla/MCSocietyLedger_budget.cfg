\* Reverse the journal of a posted expense: the budget report subtracts it twice.
SPECIFICATION Spec
CONSTANTS
  p1 = p1
  e1 = e1
  Periods = {p1, p2}
  Journals = {j1, j2, j3}
  Expenses = {e1}
  Amount <- AmountTwo
  DateOf <- FirstPeriod
  Entries <- AnyPayment
  Named = {None, e1}
  Charges = {c1}
  Requests = {r1, r2}
  None = None
SYMMETRY SlotSymmetry
INVARIANT BudgetShowsLedger
CHECK_DEADLOCK FALSE
