CONSTANTS
  Devices = {a, c}
  Admins = {a}
  Titles = {t1, t2}
  Prices = {1}
  None = None
  MaxUploads = 2
  MaxQueue = 1
SPECIFICATION Spec
INVARIANTS TypeOK PictureExists SpinnerUntilUploaded PictureIsItsOwn LineTellsOneVersion
CONSTRAINT EitherPage
SYMMETRY Symmetry
