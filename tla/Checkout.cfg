CONSTANTS
  Titles = {pelmeni, vareniki}
  Prices = {3}
  MaxQuantity = 2
  TapsPerFrame = 2
  MaxVisits = 2
  MaxOrderLines = 4
SPECIFICATION Spec
INVARIANTS TypeOK ConfirmedSumIsSent HistoryTellsTheOrder
PROPERTIES OrderSaysWhatTheCartHeld ResubmissionChangesNothing ImplementsPurchase
CONSTRAINT HurriedOnce
