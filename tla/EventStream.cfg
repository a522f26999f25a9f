SPECIFICATION FairSpec
CONSTANTS
  RowCap = 1
  Contents <- MCContents
  MaxWrites = 5
  MaxRow = 2
  MaxFaults = 1
  MaxRequests = 2
  TickReadCap = 4
  FrameMax = 1
  Limit = 1
  WindowCap = 2
  Requests = {"earlier", "tail"}
INVARIANTS
  OneRange
  ResultShownOnce
PROPERTIES
  CatchesUp
CHECK_DEADLOCK FALSE
