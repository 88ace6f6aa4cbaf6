SPECIFICATION FairSpec
CONSTANTS
  MaxStarts = 2
  BufferCap = 1
  TickerOn = TRUE
INVARIANTS TypeOK OneLoop StopWaitsForLoop
PROPERTIES StopReturns NothingLeft TickerSurvives
CHECK_DEADLOCK FALSE
