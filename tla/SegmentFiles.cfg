CONSTANTS
  Bytes = 4
  Fold <- MCFold
  Base = 2
  MaxU32 = 15
  Tree <- MCTree
  MaxColumn = 3
  Inputs <- MCInputs
  NameOf <- MCNameOf
  Queries <- MCQueries
  SymbolRequests <- MCSymbolRequests
  PageSize = 2
  Starts <- MCStarts
  MaxBuilds = 1
  MaxCrashes = 1
  MaxTombstones = 1
  MaxRecoveries = 1
  Listing <- MCListing
  Newline = 0
  MaxRun = 2
  MaxSize = 20
  WordBits = 2
  Radix = 2
  Pad = 2
SPECIFICATION Spec
INVARIANTS
  ReadsTrue
  CommittedStay
  SymbolsFound
  StatusTrue
CHECK_DEADLOCK FALSE
