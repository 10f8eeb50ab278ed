CONSTANTS
  OrderIds = {o1}
  Admins = {a1, a2}
  Phones = {p1, p2}
  Totals = {1, 2}
  Guest = Guest
  DoubleTap = TRUE
  MaxQueue = 2
SPECIFICATION Spec
INVARIANTS TypeOK CopiesAgreeWhenQuiet LastTotalsCount
PROPERTIES ImplementsOrderLifecycle
CONSTRAINT LivesOrTotals
SYMMETRY Symmetry
CHECK_DEADLOCK FALSE
