---------------------------- MODULE MCMcpServer ----------------------------
(* The MCP server beside a daemon that changes the index, with the tools, which answer the same *)
(* whatever is indexed, before the first change; and, on its own, the display of                *)
(* `ferret reindex`: a behaviour is one of the server or one of the display.                    *)
EXTENDS McpServer, ReindexDisplay

MCLanguage == [p \in Paths |-> IF p = 1 THEN "rust" ELSE "python"]

MCInit == Init /\ DisplayInit
MCNext ==
  \/ phase = "start" /\ (DaemonStep \/ ServerStep \/ (changes = 0 /\ ToolStep)) /\ UNCHANGED displayVars
  \/ changes = 0 /\ ~up /\ calls = 0 /\ DisplayNext /\ UNCHANGED vars
MCSpec == MCInit /\ [][MCNext]_<<vars, displayVars>>
=============================================================================
