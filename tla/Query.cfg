CONSTANTS
  a = a
  b = b
  A = A
  n = n
  x = x
  y = y
  z = z
  src = src
  Byte = {a, b, A, n}
  Fold <- MCFold
  CaseFold <- MCFold
  Newline = n
  Bad = Bad
  Lossy <- MCLossy
  Contents <- MCContents
  FileId = {x, y, z}
  Prefix = {src}
  Corpora <- MCCorpora
  Token <- MCTokens
  Inputs <- MCInputs
  OrText <- abb
  MaxDepth = 3
  MaxBranches = 3
SPECIFICATION Spec
INVARIANTS
  NothingMissed
  OnlyMatches
  ParsedAsWritten
  MatchesWhereShown
  LinesShownOnce
CHECK_DEADLOCK FALSE
