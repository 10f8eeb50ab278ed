CONSTANTS
  NumWrites = 3
  MaxPending = 3
  MaxFaults = 2
SPECIFICATION Spec
INVARIANT DroppedIsTheRefused
CHECK_DEADLOCK FALSE
