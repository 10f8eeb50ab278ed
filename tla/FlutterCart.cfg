CONSTANTS
  Titles = {pelmeni, vareniki, manty}
  Prices = {0, 3}
  MaxQuantity = 2
  MaxWrites = 2
SPECIFICATION FairSpec
INVARIANTS TypeOK CartWellFormed WriteBehind
PROPERTIES TapChangesOneQuantity ImplementsDurableBasket EveryCartReachesDisk
