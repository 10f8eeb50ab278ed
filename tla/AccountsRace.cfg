CONSTANTS
  Devices = {d1, d2}
  Phones = {p1}
  People = {x}
  Nobody = Nobody
  MaxQueue = 1
SPECIFICATION Spec
INVARIANTS AuthorShowsTheName
CONSTRAINT DevicesRace
SYMMETRY RaceSymmetry
