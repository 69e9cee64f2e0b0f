\* The MCP server beside a command-line client: requests, answers, daemons that come and go.
SPECIFICATION FairSpec
CONSTANTS
  Clients = {"m", "c"}
  Kind <- McpAndCli
  Asks <- CliAsks
  MaxDaemons = 2
  MaxFrames <- OnePayload
  MaxDeaths = 1
INVARIANTS
  AnswersMatch
  FreshUnlessStale
PROPERTIES
  NotRepeated
  EveryRequestEnds
  OrphansLeave
CHECK_DEADLOCK FALSE
