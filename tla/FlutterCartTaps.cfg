CONSTANTS
  Titles = {pelmeni, vareniki}
  Prices = {3}
  MaxQuantity = 2
  MaxWrites = 2
SPECIFICATION Spec
PROPERTIES TapsConcernTheirLine
