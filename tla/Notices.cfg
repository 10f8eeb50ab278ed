CONSTANTS
  p1 = p1
  p2 = p2
  Phones <- TwoPhones
  AdminPhones <- TwoAdmins
  Devices = {d1, d2}
  NoPhone = NoPhone
  NoToken = NoToken
  MaxAsks = 2
  MaxQueue = 1
  MaxReads = 2
  MaxRunning = 1
  MaxUses = 2
SPECIFICATION FairSpec
INVARIANTS TypeOK OrderReachesAdmins TotalReachesItsCustomer
PROPERTIES LateTokenIsTheAccounts ProfileFilesToken
CHECK_DEADLOCK FALSE
CONSTRAINT OneReader
