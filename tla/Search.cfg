CONSTANTS
  Path = {1, 2, 3, 4}
  Indexes <- MCIndexes
  Requests <- MCRequests
  ParThreshold = 3
  MaxPerPage = 2
  MaxPathDepth = 3
SPECIFICATION Spec
INVARIANTS
  ClientGetsAll
  PagesFull
PROPERTIES
  KeepsPromise
  SearchEnds
CHECK_DEADLOCK FALSE
