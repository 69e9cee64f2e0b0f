SPECIFICATION MCSpec
CONSTANTS
  Paths = {1, 2}
  Languages = {"rust", "python"}
  Language <- MCLanguage
  MaxChanges = 4
  MaxCalls = 1
  Files = 2
CHECK_DEADLOCK FALSE
INVARIANTS
  ViewIsOfTheStart
  ListingsAgree
  ListingIsTrue
  OneIndicator
