CONSTANTS
  NumWrites = 4
  MaxPending = 2
  MaxFaults = 2
SPECIFICATION FairSpec
INVARIANTS
  TypeOK
  BatchesAscend
  PipelineIsNextInLine
  AnswersMatchThePipeline
  AssertionsHold
  NothingForgotten
PROPERTIES
  ImplementsOutbox
  EveryWriteIsDecided
CHECK_DEADLOCK FALSE
