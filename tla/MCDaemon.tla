------------------------------ MODULE MCDaemon ------------------------------
(* Instances of Daemon for TLC: the MCP server beside one other client. *)
EXTENDS Daemon

McpAndCli == [c \in Clients |-> IF c = "m" THEN "mcp" ELSE "cli"]
CliAsks   == [c \in Clients |-> IF c = "m" THEN <<{"QuerySearch"}, {"Ping"}>> ELSE <<{"Files"}>>]

\* Only the answer to the other client has a payload.
OnePayload == [c \in Clients |-> IF c = "m" THEN 0 ELSE 1]
=============================================================================
