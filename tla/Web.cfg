SPECIFICATION MCSpec
CONSTANTS
  Repos = {"r1", "r2"}
  Registered = {"r1"}
  FirstRepo = "r1"
  Queries = {"a"}
  Found <- MCFound
  Symbols <- MCSymbols
  PerPage = 2
  MaxActs = 7
CHECK_DEADLOCK FALSE
INVARIANTS
  OpensWhatIsSelected
  ShowsWhatWasAsked
  SameAnswer
  RenderedFaithfully
