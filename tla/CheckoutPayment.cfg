CONSTANTS
  Titles = {pelmeni}
  Prices = {3}
  MaxQuantity = 1
  TapsPerFrame = 1
  MaxVisits = 1
  MaxOrderLines = 1
SPECIFICATION Spec
INVARIANTS PaymentIsTheTickedBox
