CONSTANTS
  Devices = {d1}
  Phones = {p1, p2}
  People = {x}
  Nobody = Nobody
  MaxQueue = 1
SPECIFICATION Spec
INVARIANTS TypeOK StaticsFollow AccountExists AdressIsTheAccounts
CONSTRAINT NobodyAstray
SYMMETRY Symmetry
