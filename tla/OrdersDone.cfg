CONSTANTS
  OrderIds = {o1}
  Admins = {a1, a2}
  Phones = {p1}
  Totals = {1}
  Guest = Guest
  DoubleTap = FALSE
  MaxQueue = 1
SPECIFICATION FairSpec
PROPERTIES ConfirmedStaysDone
CHECK_DEADLOCK FALSE
