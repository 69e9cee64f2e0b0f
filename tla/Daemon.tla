------------------------------- MODULE Daemon -------------------------------
(***************************************************************************)
(* The life of the daemons of one repository and of the clients that       *)
(* connect to them (ferret-cli/src/daemon.rs, ferret-daemon/src/client.rs, *)
(* ferret-cli/src/mcp/daemon_client.rs).                                   *)
(*                                                                         *)
(* A client that finds nobody behind the socket spawns a daemon and polls. *)
(* A starting daemon removes whatever socket file it finds and binds its   *)
(* own; a daemon that saw no new connection for five minutes removes the   *)
(* socket file, whoever owns it by then, and its process exits.  Requests  *)
(* and answers travel over connections as sequences of frames; the frames  *)
(* carry, beside what the code sends, the number of the request they       *)
(* answer and whether the snapshot behind them is newer than the start-up  *)
(* catch-up.                                                               *)
(***************************************************************************)
EXTENDS Naturals, Sequences

CONSTANTS
  Clients,      \* processes that talk to the daemon
  Kind,         \* Kind[c]: which client code c runs
  Asks,         \* Asks[c][i]: what c may ask in its i-th request
  MaxDaemons,   \* processes that may be spawned
  MaxFrames,    \* MaxFrames[c]: payload frames of one answer to c
  MaxDeaths     \* daemons that die without a word

(* The request handlers.  flag: whether caught_up is loaded before the      *)
(* snapshot is taken or when Done is sent, or not at all; payload: the      *)
(* frames before Done; stats: a statistics frame goes ahead of Done; fails: *)
(* when the handler may answer Error, before any payload or at any time;    *)
(* drops: it may end its connection (a `?` on a broken segment or on a      *)
(* frame too large, a panic).                                               *)
Handler(flag, payload, stats, fails, drops) ==
  [flag |-> flag, payload |-> payload, stats |-> stats, fails |-> fails, drops |-> drops]

SearchHandler      == Handler("early", "Line", FALSE, "anytime", FALSE)
QuerySearchHandler == Handler("early", "Line", FALSE, "first", FALSE)
FilesHandler       == Handler("early", "Line", FALSE, "first", TRUE)
SymbolsHandler     == Handler("early", "Line", FALSE, "first", TRUE)
JsonSymbolsHandler == Handler("early", "Json", TRUE, "first", TRUE)
JsonSearchHandler  == Handler("late", "Json", TRUE, "first", TRUE)
GetFileHandler     == Handler("late", "Json", FALSE, "first", TRUE)
StatusHandler      == Handler("late", "Json", FALSE, "never", TRUE)
HealthHandler      == Handler("none", "Json", FALSE, "never", FALSE)
ReindexHandler     == Handler("none", "Progress", FALSE, "anytime", FALSE)

Handlers == [Search |-> SearchHandler, QuerySearch |-> QuerySearchHandler, Files |-> FilesHandler,
             Symbols |-> SymbolsHandler, JsonSymbols |-> JsonSymbolsHandler,
             JsonSearch |-> JsonSearchHandler, GetFile |-> GetFileHandler, Status |-> StatusHandler,
             Health |-> HealthHandler, Reindex |-> ReindexHandler]

\* Requests the loop of handle_connection answers itself.
Control  == {"Ping", "Shutdown", "Bad"}
Requests == DOMAIN Handlers \cup Control

ASSUME DaemonAssumption ==
  /\ Kind \in [Clients -> {"cli", "json", "mcp"}]
  /\ Asks \in [Clients -> Seq(SUBSET Requests)]
  /\ \A c \in Clients : Kind[c] # "mcp" => Len(Asks[c]) <= 1
  /\ \A c \in Clients, r \in Control : (\E i \in DOMAIN Asks[c] : r \in Asks[c][i]) => Kind[c] = "mcp"
  /\ MaxDaemons \in Nat /\ MaxFrames \in [Clients -> Nat] /\ MaxDeaths \in Nat

VARIABLES
  sock,   \* the daemon whose listener the socket file names, 0 if there is no file
  dpc,    \* where each daemon's main task stands
  bg,     \* each daemon's background task; "live" is the caught_up flag
  deaths,
  cpc,    \* where each client stands
  conn,   \* the daemon its stream leads to, 0 for none
  task,   \* the daemon's side of the stream
  inbox,  \* the request line on its way to the daemon
  frames, \* the frames on their way to the client
  cur,    \* the request a client works on: its kind, its number, the attempts made
  work    \* what the connection's task holds while it answers

daemonVars == <<sock, dpc, bg, deaths>>
clientVars == <<cpc, cur>>
wireVars   == <<conn, task, inbox, frames, work>>
vars       == <<daemonVars, clientVars, wireVars>>

Daemons    == 1..MaxDaemons
NoWork     == [fresh |-> FALSE, stale |-> FALSE, sent |-> 0]

Init ==
  /\ sock = 0
  /\ dpc = [d \in Daemons |-> "none"]
  /\ bg = [d \in Daemons |-> "off"]
  /\ deaths = 0
  /\ cpc = [c \in Clients |-> "idle"]
  /\ conn = [c \in Clients |-> 0]
  /\ task = [c \in Clients |-> "none"]
  /\ inbox = [c \in Clients |-> FALSE]
  /\ frames = [c \in Clients |-> <<>>]
  /\ cur = [c \in Clients |-> [kind |-> "none", rid |-> 0, tries |-> 0]]
  /\ work = [c \in Clients |-> NoWork]

-----------------------------------------------------------------------------
(* The daemon process.                                                     *)

\* remove_file before bind: the result is ignored, and the file may belong to a daemon that serves.
RemoveStaleSocket(d) ==
  /\ dpc[d] = "remove"
  /\ sock' = 0
  /\ dpc' = [dpc EXCEPT ![d] = "bind"]
  /\ UNCHANGED <<bg, deaths, clientVars, wireVars>>

\* UnixListener::bind fails when another daemon has bound since.
Bind(d) ==
  /\ dpc[d] = "bind"
  /\ IF sock = 0 THEN sock' = d /\ dpc' = [dpc EXCEPT ![d] = "load"]
                 ELSE sock' = sock /\ dpc' = [dpc EXCEPT ![d] = "gone"]
  /\ UNCHANGED <<bg, deaths, clientVars, wireVars>>

\* SegmentManager::new, then the background task is spawned.  bg is "skip" when the daemon was started with --skip-catchup.
LoadIndex(d) ==
  /\ dpc[d] = "load"
  /\ dpc' = [dpc EXCEPT ![d] = "serve"]
  /\ bg' = [bg EXCEPT ![d] = IF @ = "skip" THEN "live" ELSE "catchup"]
  /\ UNCHANGED <<sock, deaths, clientVars, wireVars>>

\* run_catchup returned, with or without an error: caught_up is stored.
CaughtUp(d) ==
  /\ dpc[d] \in {"serve", "fired"}
  /\ bg[d] = "catchup"
  /\ bg' = [bg EXCEPT ![d] = "live"]
  /\ UNCHANGED <<sock, dpc, deaths, clientVars, wireVars>>

\* Every stream to d breaks; what was written before can still be read.
CloseStreams(d) ==
  /\ task' = [c \in Clients |-> IF conn[c] = d THEN "closed" ELSE task[c]]
  /\ inbox' = [c \in Clients |-> inbox[c] /\ conn[c] # d]
  /\ work' = [c \in Clients |-> IF conn[c] = d THEN NoWork ELSE work[c]]
  /\ UNCHANGED <<conn, frames>>

Accept(d) ==
  /\ dpc[d] = "serve"
  /\ \E c \in Clients :
       /\ conn[c] = d /\ task[c] = "backlog"
       /\ task' = [task EXCEPT ![c] = "idle"]
  /\ UNCHANGED <<conn, inbox, frames, work, daemonVars, clientVars>>

\* The accept loop's timeout; it does not look at the connections being served.
IdleTimeout(d) ==
  /\ dpc[d] = "serve"
  /\ ~\E c \in Clients : conn[c] = d /\ task[c] = "backlog"
  /\ dpc' = [dpc EXCEPT ![d] = "fired"]
  /\ UNCHANGED <<sock, bg, deaths, clientVars, wireVars>>

\* An exit that forgets the connections it still serves.
ExitSilently(d) ==
  /\ dpc[d] = "fired"
  /\ sock' = 0
  /\ dpc' = [dpc EXCEPT ![d] = "gone"]
  /\ bg' = [bg EXCEPT ![d] = "off"]
  /\ UNCHANGED <<deaths, clientVars, wireVars>>

\* An exit that never comes: the timer fires and the process waits for its connections.
ExitWhenUnused(d) ==
  /\ dpc[d] = "fired" /\ sock = d
  /\ sock' = 0
  /\ dpc' = [dpc EXCEPT ![d] = "gone"]
  /\ bg' = [bg EXCEPT ![d] = "off"]
  /\ UNCHANGED <<deaths, clientVars, wireVars>>

\* The socket file goes, whoever owns it by now; start_daemon returns and main calls process::exit: nothing waits for the tasks still running.
Exit(d) ==
  /\ dpc[d] = "fired"
  /\ sock' = 0
  /\ dpc' = [dpc EXCEPT ![d] = "gone"]
  /\ bg' = [bg EXCEPT ![d] = "off"]
  /\ CloseStreams(d)
  /\ UNCHANGED <<deaths, clientVars>>

\* The process ends without a word and its socket file stays: SegmentManager::new fails on a broken segment, or the process is killed.
Die(d) ==
  /\ dpc[d] \notin {"none", "gone"}
  /\ deaths < MaxDeaths
  /\ deaths' = deaths + 1
  /\ dpc' = [dpc EXCEPT ![d] = "gone"]
  /\ bg' = [bg EXCEPT ![d] = "off"]
  /\ CloseStreams(d)
  /\ UNCHANGED <<sock, clientVars>>

-----------------------------------------------------------------------------
(* handle_connection: one task per accepted connection, one request at a   *)
(* time.                                                                   *)

Frame(c, tag, stale) ==
  [tag |-> tag, rid |-> cur[c].rid, fresh |-> work[c].fresh, stale |-> stale]

\* Reads the request line; the handlers that load caught_up first do so before the snapshot is taken.
ReadRequest(c) ==
  /\ task[c] = "idle" /\ inbox[c]
  /\ cur[c].kind \notin Control
  /\ task' = [task EXCEPT ![c] = "work"]
  /\ inbox' = [inbox EXCEPT ![c] = FALSE]
  /\ work' = [work EXCEPT ![c] = [fresh |-> bg[conn[c]] = "live", sent |-> 0,
                stale |-> Handlers[cur[c].kind].flag = "early" /\ bg[conn[c]] # "live"]]
  /\ UNCHANGED <<conn, frames, daemonVars, clientVars>>

\* Ping answers Pong, a line that does not parse answers Error, Shutdown ends the connection and not the daemon.
AnswerControl(c) ==
  /\ task[c] = "idle" /\ inbox[c]
  /\ cur[c].kind \in Control
  /\ inbox' = [inbox EXCEPT ![c] = FALSE]
  /\ IF cur[c].kind = "Shutdown"
       THEN task' = [task EXCEPT ![c] = "closed"] /\ frames' = frames
       ELSE /\ frames' = [frames EXCEPT ![c] = Append(@,
                           Frame(c, IF cur[c].kind = "Ping" THEN "Pong" ELSE "Error", FALSE))]
            /\ task' = task
  /\ UNCHANGED <<conn, work, daemonVars, clientVars>>

SendPayload(c) ==
  /\ task[c] = "work"
  /\ work[c].sent < MaxFrames[c]
  /\ frames' = [frames EXCEPT ![c] = Append(@, Frame(c, Handlers[cur[c].kind].payload, FALSE))]
  /\ work' = [work EXCEPT ![c].sent = @ + 1]
  /\ UNCHANGED <<conn, task, inbox, daemonVars, clientVars>>

\* The flag the Done frame carries: JsonSearch, GetFile and Status load caught_up only now, Health and Reindex say FALSE.
StaleFlag(c) ==
  IF Handlers[cur[c].kind].flag = "late" THEN bg[conn[c]] # "live" ELSE work[c].stale

EndAnswer(c, sent) ==
  /\ frames' = [frames EXCEPT ![c] = @ \o sent]
  /\ task' = [task EXCEPT ![c] = "idle"]
  /\ work' = [work EXCEPT ![c] = NoWork]
  /\ UNCHANGED <<conn, inbox, daemonVars, clientVars>>

Stats(c) == IF Handlers[cur[c].kind].stats THEN <<Frame(c, "Json", FALSE)>> ELSE <<>>

\* An answer that sends a last frame behind Done.
SendDoneFirst(c) ==
  task[c] = "work" /\ EndAnswer(c, <<Frame(c, "Done", StaleFlag(c)), Frame(c, "Json", FALSE)>>)

\* An answer whose flag is loaded when it ends, whatever the request.
SendDoneLateFlag(c) ==
  task[c] = "work" /\ EndAnswer(c, Stats(c) \o <<Frame(c, "Done", bg[conn[c]] # "live")>>)

SendDone(c) ==
  task[c] = "work" /\ EndAnswer(c, Stats(c) \o <<Frame(c, "Done", StaleFlag(c))>>)

SendError(c) ==
  /\ task[c] = "work"
  /\ Handlers[cur[c].kind].fails # "never"
  /\ Handlers[cur[c].kind].fails = "first" => work[c].sent = 0
  /\ EndAnswer(c, <<Frame(c, "Error", FALSE)>>)

DropConnection(c) ==
  /\ task[c] = "work"
  /\ Handlers[cur[c].kind].drops
  /\ task' = [task EXCEPT ![c] = "closed"]
  /\ work' = [work EXCEPT ![c] = NoWork]
  /\ UNCHANGED <<conn, inbox, frames, daemonVars, clientVars>>

-----------------------------------------------------------------------------
(* The clients.                                                            *)

\* The command line makes one request, the MCP server goes on to its next one over the stream it kept.
StartRequest(c) ==
  /\ cpc[c] = "idle" \/ (cpc[c] = "over" /\ Kind[c] = "mcp")
  /\ cur[c].rid < Len(Asks[c])
  /\ \E k \in Asks[c][cur[c].rid + 1] : cur' = [cur EXCEPT ![c] = [kind |-> k, rid |-> @.rid + 1, tries |-> 1]]
  /\ cpc' = [cpc EXCEPT ![c] = IF conn[c] = 0 THEN "connect" ELSE "send"]
  /\ UNCHANGED <<daemonVars, wireVars>>

Listening(d) == d # 0 /\ dpc[d] \in {"load", "serve", "fired"}

Connects(c) ==
  /\ Listening(sock)
  /\ conn' = [conn EXCEPT ![c] = sock]
  /\ task' = [task EXCEPT ![c] = "backlog"]
  /\ cpc' = [cpc EXCEPT ![c] = "send"]
  /\ UNCHANGED <<inbox, frames, work, cur, daemonVars>>

FastConnect(c) == cpc[c] = "connect" /\ Connects(c)

PollConnect(c) == cpc[c] = "poll" /\ Connects(c)

\* Nobody listens: spawn_daemon_process.  ferret reindex passes --skip-catchup.
Spawn(c) ==
  /\ cpc[c] = "connect"
  /\ ~Listening(sock)
  /\ \E d \in Daemons :
       /\ dpc[d] = "none" /\ \A e \in 1..(d - 1) : dpc[e] # "none"
       /\ dpc' = [dpc EXCEPT ![d] = "remove"]
       /\ bg' = [bg EXCEPT ![d] = IF Kind[c] = "cli" /\ cur[c].kind = "Reindex" THEN "skip" ELSE "off"]
  /\ cpc' = [cpc EXCEPT ![c] = "poll"]
  /\ UNCHANGED <<sock, deaths, cur, wireVars>>

\* The stream is dropped: the daemon's task finds it closed.
HangUp(c) ==
  /\ conn' = [conn EXCEPT ![c] = 0]
  /\ task' = [task EXCEPT ![c] = "none"]
  /\ inbox' = [inbox EXCEPT ![c] = FALSE]
  /\ frames' = [frames EXCEPT ![c] = <<>>]
  /\ work' = [work EXCEPT ![c] = NoWork]

\* The request failed: the MCP client drops its stream and tries once more, whatever the error was; the others report it.
Fails(c) ==
  /\ HangUp(c)
  /\ IF Kind[c] = "mcp" /\ cur[c].tries = 1
       THEN /\ cpc' = [cpc EXCEPT ![c] = "connect"]
            /\ cur' = [cur EXCEPT ![c].tries = 2]
       ELSE /\ cpc' = [cpc EXCEPT ![c] = "over"]
            /\ cur' = cur
  /\ UNCHANGED daemonVars

\* The child exited before anybody listened, or did not start in time.
PollFails(c) ==
  /\ cpc[c] = "poll"
  /\ ~Listening(sock)
  /\ Fails(c)

\* The process could not be started.
SpawnFails(c) ==
  /\ cpc[c] = "connect"
  /\ ~Listening(sock)
  /\ Fails(c)

\* A write into a broken stream fails at once.
SendRequest(c) ==
  /\ cpc[c] = "send"
  /\ \/ /\ task[c] # "closed"
        /\ inbox' = [inbox EXCEPT ![c] = TRUE]
        /\ cpc' = [cpc EXCEPT ![c] = "read"]
        /\ UNCHANGED <<conn, task, frames, work, cur, daemonVars>>
     \/ task[c] = "closed" /\ Fails(c)

\* Which frames end the wait for an answer.
Ends(c, tag) == tag \in {"Done", "Error"} \/ (tag = "Pong" /\ Kind[c] = "mcp")

\* A client that takes a stale answer for a failure.
ReadFrameRetryStale(c) ==
  /\ cpc[c] = "read" /\ frames[c] # <<>>
  /\ LET f == Head(frames[c]) IN
     \/ ~Ends(c, f.tag) /\ frames' = [frames EXCEPT ![c] = Tail(@)]
        /\ UNCHANGED <<conn, task, inbox, work, clientVars, daemonVars>>
     \/ Ends(c, f.tag) /\ Fails(c)

ReadFrame(c) ==
  /\ cpc[c] = "read" /\ frames[c] # <<>>
  /\ LET f == Head(frames[c]) IN
     \/ /\ ~Ends(c, f.tag)
        /\ frames' = [frames EXCEPT ![c] = Tail(@)]
        /\ UNCHANGED <<conn, task, inbox, work, clientVars, daemonVars>>
     \/ /\ f.tag = "Error"
        /\ Fails(c)
     \/ /\ f.tag # "Error" /\ Ends(c, f.tag)
        /\ cpc' = [cpc EXCEPT ![c] = "over"]
        /\ IF Kind[c] = "mcp" THEN /\ frames' = [frames EXCEPT ![c] = Tail(@)]
                                   /\ UNCHANGED <<conn, task, inbox, work>>
                              ELSE HangUp(c)
        /\ UNCHANGED <<cur, daemonVars>>

\* The stream ended before an answer did.
ReadEof(c) ==
  /\ cpc[c] = "read" /\ frames[c] = <<>> /\ task[c] = "closed"
  /\ Fails(c)

\* The reader of the command line's output is gone: write_line fails and the command ends.
BrokenPipe(c) ==
  /\ cpc[c] = "read" /\ Kind[c] = "cli" /\ cur[c].kind # "Reindex"
  /\ frames[c] # <<>> /\ Head(frames[c]).tag \in {"Line", "Json"}
  /\ HangUp(c)
  /\ cpc' = [cpc EXCEPT ![c] = "over"]
  /\ UNCHANGED <<cur, daemonVars>>

-----------------------------------------------------------------------------
DaemonStep(d) ==
  \/ RemoveStaleSocket(d) \/ Bind(d) \/ LoadIndex(d) \/ CaughtUp(d)
  \/ Accept(d) \/ Exit(d)

TaskStep(c) == ReadRequest(c) \/ AnswerControl(c) \/ SendDone(c)

ClientStep(c) ==
  \/ FastConnect(c) \/ PollConnect(c) \/ Spawn(c) \/ SpawnFails(c) \/ PollFails(c)
  \/ SendRequest(c) \/ ReadFrame(c) \/ ReadEof(c)

Next ==
  \/ \E d \in Daemons : DaemonStep(d) \/ IdleTimeout(d) \/ Die(d)
  \/ \E c \in Clients :
       \/ TaskStep(c) \/ SendPayload(c) \/ SendError(c) \/ DropConnection(c)
       \/ ClientStep(c) \/ StartRequest(c) \/ BrokenPipe(c)

Spec == Init /\ [][Next]_vars

\* Threads of a running process get to run, timers fire, and a handler ends.  Users and deaths are free.
Fairness ==
  /\ \A d \in Daemons : WF_vars(DaemonStep(d)) /\ WF_vars(IdleTimeout(d))
  /\ \A c \in Clients : WF_vars(TaskStep(c)) /\ WF_vars(ClientStep(c))

FairSpec == Spec /\ Fairness

-----------------------------------------------------------------------------
(* Properties.                                                             *)

\* The MCP client keeps its stream from request to request: no frame of an earlier answer waits on it when a later request is read.
AnswersMatch ==
  \A c \in Clients : cpc[c] = "read" => \A i \in DOMAIN frames[c] : frames[c][i].rid = cur[c].rid

\* The Done frames that tell client c its answer is not stale, though the snapshot behind it is older than the end of the catch-up.
WronglyFresh(c) == {i \in DOMAIN frames[c] :
  frames[c][i].tag = "Done" /\ ~frames[c][i].stale /\ ~frames[c][i].fresh}

\* An answer that does not say "stale" was read from a snapshot taken after the daemon's start-up catch-up ended; for the requests that load caught_up before the snapshot.
FreshUnlessStale ==
  \A c \in Clients :
    cur[c].kind \in DOMAIN Handlers /\ Handlers[cur[c].kind].flag = "early" => WronglyFresh(c) = {}

\* A request whose Done frame was sent is not made a second time: the retry of the MCP client repeats only what did not finish.
NotRepeated ==
  [][\A c \in Clients :
       (\E i \in DOMAIN frames[c] : frames[c][i].tag = "Done" /\ frames[c][i].rid = cur[c].rid)
         => (cur'[c].rid = cur[c].rid => cur'[c].tries = cur[c].tries)]_vars

\* Every request a client starts ends in an answer or in an error, whatever happens to the daemon.
EveryRequestEnds ==
  \A c \in Clients : cpc[c] \notin {"idle", "over"} ~> cpc[c] = "over"

\* A daemon nobody can reach any more does not stay: its idle timer ends it.
Unreachable(d) == dpc[d] \in {"serve", "fired"} /\ sock # d

OrphansLeave == \A d \in Daemons : Unreachable(d) ~> dpc[d] = "gone"
=============================================================================
