---------------------------- MODULE DaemonProofs ----------------------------
(***************************************************************************)
(* What the connections of Daemon promise, for any clients, requests,      *)
(* daemons and deaths: an answer belongs to the request it is read for, it *)
(* is fresh unless it says "stale", and a request that was answered is not *)
(* made again.  All three rest on one fact: the frame that ends an answer  *)
(* is the last one on the stream, and the daemon's task is done by then.   *)
(***************************************************************************)
EXTENDS Daemon, SequenceTheorems, TLAPS

Tag == {"Line", "Json", "Progress", "Done", "Error", "Pong"}

\* The frames after which nothing follows in an answer.
Terminator == {"Done", "Error", "Pong"}

FrameSet == [tag : Tag, rid : Nat, fresh : BOOLEAN, stale : BOOLEAN]

TypeInv ==
  /\ sock \in Daemons \cup {0}
  /\ dpc \in [Daemons -> {"none", "remove", "bind", "load", "serve", "fired", "gone"}]
  /\ bg \in [Daemons -> {"off", "skip", "catchup", "live"}]
  /\ deaths \in Nat
  /\ cpc \in [Clients -> {"idle", "connect", "poll", "send", "read", "over"}]
  /\ conn \in [Clients -> Daemons \cup {0}]
  /\ task \in [Clients -> {"none", "backlog", "idle", "work", "closed"}]
  /\ inbox \in [Clients -> BOOLEAN]
  /\ frames \in [Clients -> Seq(FrameSet)]
  /\ cur \in [Clients -> [kind : Requests \cup {"none"}, rid : Nat, tries : 0..2]]
  /\ work \in [Clients -> [fresh : BOOLEAN, stale : BOOLEAN, sent : Nat]]

Early(k) == k \in DOMAIN Handlers /\ Handlers[k].flag = "early"

\* The stream of client c and the task behind it, while the client waits for its answer and
\* when it does not.
StreamInv(c) ==
  /\ cpc[c] # "idle" => cur[c].kind \in Requests
  /\ cpc[c] # "read" => frames[c] = <<>> /\ ~inbox[c] /\ task[c] # "work"
  /\ inbox[c] => frames[c] = <<>> /\ task[c] # "work"
  /\ task[c] = "work" => /\ cur[c].kind \in DOMAIN Handlers
                         /\ Early(cur[c].kind) => work[c].stale \/ work[c].fresh
  /\ \A i \in DOMAIN frames[c] :
       /\ frames[c][i].rid = cur[c].rid
       /\ frames[c][i].tag \in Terminator => i = Len(frames[c]) /\ ~inbox[c] /\ task[c] # "work"
       /\ frames[c][i].tag = "Done" /\ Early(cur[c].kind) => frames[c][i].stale \/ frames[c][i].fresh

Inv == TypeInv /\ \A c \in Clients : StreamInv(c)

-----------------------------------------------------------------------------
\* No request handler sends a terminator as payload.
LEMMA HandlerFacts ==
  ASSUME NEW k \in DOMAIN Handlers
  PROVE  Handlers[k].payload \in Tag \ Terminator
<1>1. DOMAIN Handlers = {"Search", "QuerySearch", "Files", "Symbols", "JsonSymbols", "JsonSearch",
                         "GetFile", "Status", "Health", "Reindex"}
  BY DEF Handlers
<1>. QED BY <1>1 DEF Handlers, Handler, SearchHandler, QuerySearchHandler, FilesHandler, SymbolsHandler,
     JsonSymbolsHandler, JsonSearchHandler, GetFileHandler, StatusHandler, HealthHandler,
     ReindexHandler, Tag, Terminator

(* The fields a frame is made of are well typed. *)
LEMMA FrameFields ==
  ASSUME TypeInv, NEW c \in Clients
  PROVE  cur[c].rid \in Nat /\ work[c].fresh \in BOOLEAN /\ work[c].stale \in BOOLEAN
<1>1. /\ cur[c] \in [kind : Requests \cup {"none"}, rid : Nat, tries : 0..2]
      /\ work[c] \in [fresh : BOOLEAN, stale : BOOLEAN, sent : Nat]
  BY DEF TypeInv
<1>. QED BY <1>1

(* A frame carries its tag and the request it answers. *)
LEMMA PlainFrame ==
  ASSUME TypeInv, NEW c \in Clients, NEW t \in Tag
  PROVE  /\ Frame(c, t, FALSE) \in FrameSet
         /\ Frame(c, t, FALSE).tag = t /\ Frame(c, t, FALSE).rid = cur[c].rid
  BY FrameFields DEF Frame, FrameSet

(* One frame more keeps a stream well typed. *)
LEMMA OneFrame ==
  ASSUME NEW f \in FrameSet
  PROVE  /\ <<f>> \in Seq(FrameSet) /\ Len(<<f>>) = 1 /\ DOMAIN <<f>> = {1} /\ <<f>>[1] = f
         /\ \A s \in Seq(FrameSet) : Append(s, f) \in Seq(FrameSet)
  OBVIOUS

(* The stale flag is a truth value. *)
LEMMA StaleFlagType ==
  ASSUME TypeInv, NEW c \in Clients
  PROVE  StaleFlag(c) \in BOOLEAN
<1>1. work[c] \in [fresh : BOOLEAN, stale : BOOLEAN, sent : Nat]
  BY DEF TypeInv
<1>2. work[c].stale \in BOOLEAN
  BY <1>1
<1>. QED BY <1>2 DEF StaleFlag

\* The frames an answer ends with: statistics, if the handler sends any, and Done.
LEMMA DoneFrames ==
  ASSUME TypeInv, NEW c \in Clients, NEW s, s = Stats(c) \o <<Frame(c, "Done", StaleFlag(c))>>
  PROVE  /\ s \in Seq(FrameSet)
         /\ \A i \in DOMAIN s : /\ s[i].rid = cur[c].rid
                                /\ i # Len(s) => s[i].tag \notin Terminator
                                /\ s[i].tag = "Done" => /\ s[i].stale = StaleFlag(c)
                                                        /\ s[i].fresh = work[c].fresh
<1>. DEFINE d == Frame(c, "Done", StaleFlag(c))
            j == Frame(c, "Json", FALSE)
<1>1. /\ d \in FrameSet /\ d.tag = "Done" /\ d.rid = cur[c].rid
      /\ d.stale = StaleFlag(c) /\ d.fresh = work[c].fresh
  BY StaleFlagType, FrameFields DEF Tag, Frame, FrameSet
<1>2. j \in FrameSet /\ j.tag = "Json" /\ j.rid = cur[c].rid
  BY PlainFrame DEF Tag
<1>3. Stats(c) = <<>> \/ Stats(c) = <<j>>
  BY DEF Stats
<1>4. s = Stats(c) \o <<d>>
  OBVIOUS
<1>. HIDE DEF d, j
<1>5. /\ <<d>> \in Seq(FrameSet) /\ Len(<<d>>) = 1 /\ <<d>>[1] = d
      /\ <<j>> \in Seq(FrameSet) /\ Len(<<j>>) = 1 /\ <<j>>[1] = j
  BY <1>1, <1>2, OneFrame
<1>6. ASSUME NEW t \in Seq(FrameSet), NEW u \in Seq(FrameSet), Len(u) = 1, s = t \o u,
             \A i \in 1 .. Len(t) : t[i] = j
      PROVE  /\ s \in Seq(FrameSet) /\ Len(s) = Len(t) + 1 /\ s[Len(s)] = u[1]
             /\ \A i \in 1 .. Len(t) : s[i] = j
  <2>1. Len(t) \in Nat
    BY <1>6
  <2>2. /\ t \o u \in Seq(FrameSet) /\ Len(t \o u) = Len(t) + 1
        /\ \A i \in 1 .. Len(t) : (t \o u)[i] = t[i]
        /\ (t \o u)[Len(t) + 1] = u[1]
    <3>1. /\ t \o u \in Seq(FrameSet) /\ Len(t \o u) = Len(t) + Len(u)
          /\ \A i \in 1 .. Len(t) + Len(u) :
                (t \o u)[i] = IF i <= Len(t) THEN t[i] ELSE u[i - Len(t)]
      BY <1>6, ConcatProperties
    <3>2. Len(t) + 1 \in 1 .. Len(t) + Len(u) /\ ~ (Len(t) + 1 <= Len(t)) /\ (Len(t) + 1) - Len(t) = 1
      BY <1>6, <2>1
    <3>3. \A i \in 1 .. Len(t) : i \in 1 .. Len(t) + Len(u) /\ i <= Len(t)
      BY <1>6, <2>1
    <3>. QED BY <1>6, <3>1, <3>2, <3>3
  <2>. QED BY <1>6, <2>1, <2>2
<1>7. /\ s \in Seq(FrameSet) /\ s[Len(s)] = d
      /\ \A i \in DOMAIN s : i # Len(s) => s[i] = j
  <2>1. Stats(c) \in Seq(FrameSet) /\ \A i \in 1 .. Len(Stats(c)) : Stats(c)[i] = j
    <3>1. CASE Stats(c) = <<>>
      BY <3>1
    <3>2. CASE Stats(c) = <<j>>
      <4>. DEFINE one == <<j>>
      <4>1. one \in Seq(FrameSet) /\ Len(one) = 1 /\ one[1] = j /\ Stats(c) = one
        BY <3>2, <1>5
      <4>. HIDE DEF one
      <4>2. \A i \in 1 .. Len(one) : one[i] = j
        BY <4>1
      <4>. QED BY <4>1, <4>2
    <3>. QED BY <1>3, <3>1, <3>2
  <2>. DEFINE t == Stats(c)
              u == <<d>>
  <2>2. t \in Seq(FrameSet) /\ u \in Seq(FrameSet) /\ Len(u) = 1 /\ u[1] = d /\ s = t \o u
        /\ \A i \in 1 .. Len(t) : t[i] = j
    BY <1>4, <1>5, <2>1
  <2>. HIDE DEF t, u
  <2>3. /\ s \in Seq(FrameSet) /\ Len(s) = Len(t) + 1 /\ s[Len(s)] = u[1]
        /\ \A i \in 1 .. Len(t) : s[i] = j
    BY <1>6, <2>2
  <2>4. Len(t) \in Nat /\ DOMAIN s = 1 .. Len(t) + 1
    BY <2>2, <2>3
  <2>. QED BY <2>2, <2>3, <2>4
<1>8. ASSUME NEW i \in DOMAIN s
      PROVE  /\ s[i].rid = cur[c].rid
             /\ i # Len(s) => s[i].tag \notin Terminator
             /\ s[i].tag = "Done" => /\ s[i].stale = StaleFlag(c)
                                     /\ s[i].fresh = work[c].fresh
  <2>1. CASE i = Len(s)
    BY <2>1, <1>1, <1>7
  <2>2. CASE i # Len(s)
    BY <2>2, <1>2, <1>7 DEF Terminator
  <2>. QED BY <2>1, <2>2
<1>. QED BY <1>7, <1>8

-----------------------------------------------------------------------------
(* Types *)

(* Closing a stream keeps the types of what belongs to it. *)
LEMMA HangUpType ==
  ASSUME TypeInv, NEW c \in Clients, HangUp(c)
  PROVE  /\ conn' \in [Clients -> Daemons \cup {0}]
         /\ task' \in [Clients -> {"none", "backlog", "idle", "work", "closed"}]
         /\ inbox' \in [Clients -> BOOLEAN]
         /\ frames' \in [Clients -> Seq(FrameSet)]
         /\ work' \in [Clients -> [fresh : BOOLEAN, stale : BOOLEAN, sent : Nat]]
<1>1. NoWork \in [fresh : BOOLEAN, stale : BOOLEAN, sent : Nat] /\ <<>> \in Seq(FrameSet)
  BY DEF NoWork
<1>. QED BY <1>1 DEF HangUp, TypeInv

(* A failing request keeps all types. *)
LEMMA FailsType ==
  ASSUME TypeInv, NEW c \in Clients, Fails(c)
  PROVE  TypeInv'
<1>1. cur' \in [Clients -> [kind : Requests \cup {"none"}, rid : Nat, tries : 0..2]]
  <2>1. cur' = cur \/ cur' = [cur EXCEPT ![c].tries = 2]
    BY DEF Fails
  <2>2. 2 \in 0..2
    OBVIOUS
  <2>3. cur \in [Clients -> [kind : Requests \cup {"none"}, rid : Nat, tries : 0..2]]
    BY DEF TypeInv
  <2>. QED BY <2>1, <2>2, <2>3
<1>2. cpc' \in [Clients -> {"idle", "connect", "poll", "send", "read", "over"}]
  BY DEF Fails, TypeInv
<1>3. UNCHANGED daemonVars /\ HangUp(c)
  BY DEF Fails
<1>. QED BY <1>1, <1>2, <1>3, HangUpType DEF TypeInv, daemonVars

(* Closing a daemon's streams keeps the types of what belongs to them. *)
LEMMA CloseType ==
  ASSUME TypeInv, NEW d \in Daemons, CloseStreams(d)
  PROVE  /\ conn' \in [Clients -> Daemons \cup {0}]
         /\ task' \in [Clients -> {"none", "backlog", "idle", "work", "closed"}]
         /\ inbox' \in [Clients -> BOOLEAN]
         /\ frames' \in [Clients -> Seq(FrameSet)]
         /\ work' \in [Clients -> [fresh : BOOLEAN, stale : BOOLEAN, sent : Nat]]
<1>1. NoWork \in [fresh : BOOLEAN, stale : BOOLEAN, sent : Nat]
  BY DEF NoWork
<1>. QED BY <1>1 DEF CloseStreams, TypeInv

(* Ending an answer keeps all types. *)
LEMMA EndType ==
  ASSUME TypeInv, NEW c \in Clients, NEW s \in Seq(FrameSet), EndAnswer(c, s)
  PROVE  TypeInv'
<1>1. NoWork \in [fresh : BOOLEAN, stale : BOOLEAN, sent : Nat]
  BY DEF NoWork
<1>2. frames[c] \in Seq(FrameSet)
  BY DEF TypeInv
<1>3. frames[c] \o s \in Seq(FrameSet)
  BY <1>2, ConcatProperties
<1>. QED BY <1>1, <1>3 DEF EndAnswer, TypeInv, daemonVars, clientVars

\* Nothing but the empty sequence has length zero.
LEMMA NoLength == ASSUME NEW S, NEW s \in Seq(S), Len(s) = 0 PROVE s = <<>>
  OBVIOUS

(* Reading a frame takes the first and leaves the others in their order. *)
LEMMA ReadTail ==
  ASSUME TypeInv, NEW c \in Clients, frames[c] # <<>>
  PROVE  /\ Tail(frames[c]) \in Seq(FrameSet) /\ Head(frames[c]) = frames[c][1]
         /\ Len(frames[c]) \in Nat /\ Len(frames[c]) >= 1
         /\ DOMAIN frames[c] = 1 .. Len(frames[c])
         /\ Len(Tail(frames[c])) = Len(frames[c]) - 1
         /\ \A i \in 1 .. Len(frames[c]) - 1 : Tail(frames[c])[i] = frames[c][i + 1]
<1>1. frames[c] \in Seq(FrameSet)
  BY DEF TypeInv
<1>. QED BY <1>1

(* Every step keeps the types. *)
LEMMA TypeStep == ASSUME Inv, [Next]_vars PROVE TypeInv'
<1>. USE DEF Inv
<1>1. ASSUME NEW d \in Daemons, RemoveStaleSocket(d) \/ Bind(d) \/ LoadIndex(d) \/ CaughtUp(d) \/ IdleTimeout(d)
      PROVE  TypeInv'
  BY <1>1 DEF RemoveStaleSocket, Bind, LoadIndex, CaughtUp, IdleTimeout, TypeInv, clientVars, wireVars
<1>2. ASSUME NEW d \in Daemons, Accept(d) PROVE TypeInv'
  BY <1>2 DEF Accept, TypeInv, daemonVars, clientVars
<1>3. ASSUME NEW d \in Daemons, Exit(d) \/ Die(d) PROVE TypeInv'
  <2>1. CloseStreams(d)
    BY <1>3 DEF Exit, Die
  <2>2. /\ sock' \in Daemons \cup {0} /\ deaths' \in Nat /\ UNCHANGED <<cpc, cur>>
        /\ dpc' \in [Daemons -> {"none", "remove", "bind", "load", "serve", "fired", "gone"}]
        /\ bg' \in [Daemons -> {"off", "skip", "catchup", "live"}]
    <3>1. CASE Exit(d)
      BY <3>1 DEF Exit, TypeInv, clientVars
    <3>2. CASE Die(d)
      BY <3>2 DEF Die, TypeInv, clientVars
    <3>. QED BY <1>3, <3>1, <3>2
  <2>. QED BY <2>1, <2>2, CloseType DEF TypeInv
<1>4. ASSUME NEW c \in Clients, ReadRequest(c) PROVE TypeInv'
  <2>1. work' \in [Clients -> [fresh : BOOLEAN, stale : BOOLEAN, sent : Nat]]
    BY <1>4 DEF ReadRequest, TypeInv
  <2>. QED BY <1>4, <2>1 DEF ReadRequest, TypeInv, daemonVars, clientVars
<1>5. ASSUME NEW c \in Clients, AnswerControl(c) PROVE TypeInv'
  <2>1. \E t \in Tag : frames' = frames \/ frames' = [frames EXCEPT ![c] = Append(@, Frame(c, t, FALSE))]
    BY <1>5 DEF AnswerControl, Tag
  <2>2. frames' \in [Clients -> Seq(FrameSet)]
    <3>1. ASSUME NEW t \in Tag PROVE Append(frames[c], Frame(c, t, FALSE)) \in Seq(FrameSet)
      BY PlainFrame, OneFrame DEF TypeInv
    <3>. QED BY <2>1, <3>1 DEF TypeInv
  <2>. QED BY <1>5, <2>2 DEF AnswerControl, TypeInv, daemonVars, clientVars
<1>6. ASSUME NEW c \in Clients, SendPayload(c) PROVE TypeInv'
  <2>1. Handlers[cur[c].kind].payload \in Tag
    BY <1>6, HandlerFacts DEF SendPayload, StreamInv
  <2>2. Append(frames[c], Frame(c, Handlers[cur[c].kind].payload, FALSE)) \in Seq(FrameSet)
    BY <2>1, PlainFrame, OneFrame DEF TypeInv
  <2>3. frames' \in [Clients -> Seq(FrameSet)]
    BY <1>6, <2>2 DEF SendPayload, TypeInv
  <2>4. work' \in [Clients -> [fresh : BOOLEAN, stale : BOOLEAN, sent : Nat]]
    <3>1. work[c].sent + 1 \in Nat /\ work \in [Clients -> [fresh : BOOLEAN, stale : BOOLEAN, sent : Nat]]
      BY DEF TypeInv
    <3>2. work' = [work EXCEPT ![c] = [work[c] EXCEPT !.sent = work[c].sent + 1]]
      BY <1>6 DEF SendPayload
    <3>. QED BY <3>1, <3>2
  <2>. QED BY <1>6, <2>3, <2>4 DEF SendPayload, TypeInv, daemonVars, clientVars
<1>7. ASSUME NEW c \in Clients, SendDone(c) PROVE TypeInv'
  BY <1>7, DoneFrames, EndType DEF SendDone
<1>8. ASSUME NEW c \in Clients, SendError(c) PROVE TypeInv'
  <2>1. <<Frame(c, "Error", FALSE)>> \in Seq(FrameSet)
    BY PlainFrame, OneFrame DEF Tag
  <2>. QED BY <1>8, <2>1, EndType DEF SendError
<1>9. ASSUME NEW c \in Clients, DropConnection(c) PROVE TypeInv'
  BY <1>9 DEF DropConnection, TypeInv, NoWork, daemonVars, clientVars
<1>10. ASSUME NEW c \in Clients, FastConnect(c) \/ PollConnect(c) PROVE TypeInv'
  <2>1. Connects(c)
    BY <1>10 DEF FastConnect, PollConnect
  <2>. QED BY <2>1 DEF Connects, TypeInv, daemonVars
<1>11. ASSUME NEW c \in Clients, Spawn(c) PROVE TypeInv'
  BY <1>11 DEF Spawn, TypeInv, wireVars
<1>12. ASSUME NEW c \in Clients, SpawnFails(c) \/ PollFails(c) \/ ReadEof(c) PROVE TypeInv'
  BY <1>12, FailsType DEF SpawnFails, PollFails, ReadEof
<1>13. ASSUME NEW c \in Clients, SendRequest(c) PROVE TypeInv'
  <2>1. CASE Fails(c)
    BY <2>1, FailsType
  <2>2. CASE ~ Fails(c)
    BY <1>13, <2>2 DEF SendRequest, TypeInv, daemonVars
  <2>. QED BY <2>1, <2>2
<1>14. ASSUME NEW c \in Clients, ReadFrame(c) PROVE TypeInv'
  <2>1. CASE Fails(c)
    BY <2>1, FailsType
  <2>2. CASE HangUp(c) /\ ~ Fails(c)
    <3>1. /\ cpc' \in [Clients -> {"idle", "connect", "poll", "send", "read", "over"}]
          /\ UNCHANGED <<cur, daemonVars>>
      BY <1>14, <2>2 DEF ReadFrame, TypeInv, clientVars
    <3>. QED BY <2>2, <3>1, HangUpType DEF TypeInv, daemonVars
  <2>3. CASE ~ HangUp(c) /\ ~ Fails(c)
    <3>1. frames' = [frames EXCEPT ![c] = Tail(@)] /\ frames[c] # <<>>
      BY <1>14, <2>3 DEF ReadFrame
    <3>2. frames' \in [Clients -> Seq(FrameSet)]
      BY <3>1, ReadTail DEF TypeInv
    <3>. QED BY <1>14, <2>3, <3>2 DEF ReadFrame, TypeInv, clientVars, daemonVars
  <2>. QED BY <2>1, <2>2, <2>3
<1>15. ASSUME NEW c \in Clients, BrokenPipe(c) PROVE TypeInv'
  BY <1>15, HangUpType DEF BrokenPipe, TypeInv, daemonVars
<1>16. ASSUME NEW c \in Clients, StartRequest(c) PROVE TypeInv'
  <2>1. PICK k \in Asks[c][cur[c].rid + 1] :
           cur' = [cur EXCEPT ![c] = [kind |-> k, rid |-> @.rid + 1, tries |-> 1]]
    BY <1>16 DEF StartRequest
  <2>2. cur[c].rid \in Nat
    BY DEF TypeInv
  <2>3. Asks[c] \in Seq(SUBSET Requests) /\ cur[c].rid + 1 \in 1 .. Len(Asks[c])
    BY <1>16, <2>2, DaemonAssumption DEF StartRequest
  <2>4. k \in Requests
    BY <2>3
  <2>5. cur' \in [Clients -> [kind : Requests \cup {"none"}, rid : Nat, tries : 0..2]]
    BY <2>1, <2>2, <2>4 DEF TypeInv
  <2>. QED BY <1>16, <2>5 DEF StartRequest, TypeInv, daemonVars, wireVars
<1>17. CASE UNCHANGED vars
  BY <1>17 DEF vars, daemonVars, clientVars, wireVars, TypeInv
<1>. QED BY <1>1, <1>2, <1>3, <1>4, <1>5, <1>6, <1>7, <1>8, <1>9, <1>10, <1>11, <1>12, <1>13, <1>14,
         <1>15, <1>16, <1>17 DEF Next, DaemonStep, TaskStep, ClientStep

-----------------------------------------------------------------------------
(* Streams *)

\* The invariant of a client's stream only looks at that client and that stream.
LEMMA StreamSame ==
  ASSUME NEW c \in Clients, StreamInv(c),
         cpc'[c] = cpc[c], cur'[c] = cur[c], frames'[c] = frames[c], inbox'[c] = inbox[c],
         task'[c] = task[c], work'[c] = work[c]
  PROVE  StreamInv(c)'
  BY DEF StreamInv, Early

(* A closed stream holds nothing a later request could read. *)
LEMMA HungUp ==
  ASSUME TypeInv, NEW c \in Clients, StreamInv(c), HangUp(c), cpc[c] # "idle", cpc'[c] # "read",
         cur'[c].kind = cur[c].kind
  PROVE  StreamInv(c)'
<1>1. frames'[c] = <<>> /\ inbox'[c] = FALSE /\ task'[c] = "none"
  BY DEF HangUp, TypeInv
<1>. QED BY <1>1 DEF StreamInv

(* A request that fails leaves its stream closed or empty. *)
LEMMA FailedStream ==
  ASSUME TypeInv, NEW c \in Clients, StreamInv(c), cpc[c] # "idle", Fails(c)
  PROVE  StreamInv(c)'
<1>1. HangUp(c) /\ cpc'[c] # "read"
  BY DEF Fails, TypeInv
<1>2. cur'[c].kind = cur[c].kind
  BY DEF Fails, TypeInv
<1>. QED BY <1>1, <1>2, HungUp

\* A frame is added behind the others while the task works, or as the whole answer.
LEMMA AnswerEnds ==
  ASSUME TypeInv, NEW c \in Clients, StreamInv(c), task[c] = "work", NEW s \in Seq(FrameSet),
         \A i \in DOMAIN s : /\ s[i].rid = cur[c].rid
                             /\ i # Len(s) => s[i].tag \notin Terminator
                             /\ s[i].tag = "Done" /\ Early(cur[c].kind) => s[i].stale \/ s[i].fresh,
         EndAnswer(c, s)
  PROVE  StreamInv(c)'
<1>1. /\ frames'[c] = frames[c] \o s /\ task'[c] = "idle" /\ inbox'[c] = inbox[c]
      /\ cpc'[c] = cpc[c] /\ cur'[c] = cur[c]
  BY DEF EndAnswer, TypeInv, clientVars
<1>2. /\ cpc[c] = "read" /\ ~ inbox[c] /\ frames[c] \in Seq(FrameSet)
      /\ \A i \in DOMAIN frames[c] : frames[c][i].tag \notin Terminator
  BY DEF StreamInv, TypeInv
<1>. DEFINE f == frames[c]
            g == f \o s
<1>3. /\ Len(f) \in Nat /\ Len(s) \in Nat /\ DOMAIN f = 1 .. Len(f) /\ DOMAIN s = 1 .. Len(s)
      /\ DOMAIN g = 1 .. Len(f) + Len(s) /\ Len(g) = Len(f) + Len(s)
      /\ \A i \in 1 .. Len(f) : g[i] = f[i]
      /\ \A i \in 1 .. Len(s) : g[Len(f) + i] = s[i]
  BY <1>2
<1>4. ASSUME NEW i \in DOMAIN g
      PROVE  /\ g[i].rid = cur[c].rid
             /\ g[i].tag \in Terminator => i = Len(g)
             /\ g[i].tag = "Done" /\ Early(cur[c].kind) => g[i].stale \/ g[i].fresh
  <2>. HIDE DEF g
  <2>1. CASE i \in DOMAIN f
    BY <2>1, <1>2, <1>3 DEF StreamInv
  <2>2. CASE i \notin DOMAIN f
    <3>1. i - Len(f) \in DOMAIN s /\ Len(f) + (i - Len(f)) = i
      BY <2>2, <1>3
    <3>2. g[i] = s[i - Len(f)] /\ (i - Len(f) = Len(s) => i = Len(g))
      BY <3>1, <1>3
    <3>. QED BY <3>1, <3>2
  <2>. QED BY <2>1, <2>2
<1>5. frames'[c] = g
  BY <1>1
<1>. HIDE DEF f, g
<1>6. cur[c].kind \in Requests
  BY <1>2 DEF StreamInv
<1>. QED BY <1>1, <1>2, <1>4, <1>5, <1>6 DEF StreamInv

(* Every step of any client or daemon keeps the invariant of every stream. *)
LEMMA StreamStep == ASSUME Inv, [Next]_vars, NEW c \in Clients PROVE StreamInv(c)'
<1>0. TypeInv /\ StreamInv(c)
  BY DEF Inv
<1>1. ASSUME NEW d \in Daemons, RemoveStaleSocket(d) \/ Bind(d) \/ LoadIndex(d) \/ CaughtUp(d) \/ IdleTimeout(d)
      PROVE  StreamInv(c)'
  <2>1. UNCHANGED <<cpc, cur, frames, inbox, task, work>>
    BY <1>1 DEF RemoveStaleSocket, Bind, LoadIndex, CaughtUp, IdleTimeout, clientVars, wireVars
  <2>. QED BY <1>0, <2>1, StreamSame
<1>2. ASSUME NEW d \in Daemons, Accept(d) PROVE StreamInv(c)'
  <2>1. /\ UNCHANGED <<cpc, cur, frames, inbox, work>>
        /\ task'[c] = task[c] \/ task'[c] = "idle"
    BY <1>2, <1>0 DEF Accept, clientVars, TypeInv
  <2>2. CASE task'[c] = task[c]
    BY <1>0, <2>1, <2>2, StreamSame
  <2>3. CASE task'[c] = "idle"
    BY <1>0, <2>1, <2>3 DEF StreamInv, Early
  <2>. QED BY <2>1, <2>2, <2>3
<1>3. ASSUME NEW d \in Daemons, Exit(d) \/ Die(d) PROVE StreamInv(c)'
  <2>1. /\ UNCHANGED <<cpc, cur, frames>>
        /\ \/ task'[c] = "closed" /\ inbox'[c] = FALSE
           \/ task'[c] = task[c] /\ inbox'[c] = inbox[c] /\ work'[c] = work[c]
    <3>1. CloseStreams(d) /\ UNCHANGED <<cpc, cur, frames>>
      BY <1>3 DEF Exit, Die, CloseStreams, clientVars
    <3>2. /\ task'[c] = IF conn[c] = d THEN "closed" ELSE task[c]
          /\ inbox'[c] = (inbox[c] /\ conn[c] # d)
          /\ work'[c] = IF conn[c] = d THEN NoWork ELSE work[c]
      BY <3>1 DEF CloseStreams
    <3>3. inbox[c] \in BOOLEAN
      BY <1>0 DEF TypeInv
    <3>. QED BY <3>1, <3>2, <3>3
  <2>2. CASE task'[c] = task[c] /\ inbox'[c] = inbox[c] /\ work'[c] = work[c]
    BY <1>0, <2>1, <2>2, StreamSame
  <2>3. CASE task'[c] = "closed" /\ inbox'[c] = FALSE
    BY <1>0, <2>1, <2>3 DEF StreamInv, Early
  <2>. QED BY <2>1, <2>2, <2>3
<1>4. ASSUME NEW b \in Clients, b # c, TypeInv,
             \/ TaskStep(b) \/ SendPayload(b) \/ SendError(b) \/ DropConnection(b)
             \/ ClientStep(b) \/ StartRequest(b) \/ BrokenPipe(b)
      PROVE  StreamInv(c)'
  <2>1. cpc'[c] = cpc[c] /\ cur'[c] = cur[c] /\ frames'[c] = frames[c] /\ inbox'[c] = inbox[c]
        /\ task'[c] = task[c] /\ work'[c] = work[c]
    <3>1. CASE TaskStep(b) \/ SendPayload(b) \/ SendError(b) \/ DropConnection(b)
      BY <3>1, <1>4 DEF TaskStep, ReadRequest, AnswerControl, SendDone, SendPayload, SendError, EndAnswer,
         DropConnection, clientVars, TypeInv
    <3>2. CASE FastConnect(b) \/ PollConnect(b) \/ Spawn(b) \/ StartRequest(b)
      BY <3>2, <1>4 DEF FastConnect, PollConnect, Connects, Spawn, StartRequest, wireVars, TypeInv
    <3>3. CASE Fails(b)
      BY <3>3, <1>4 DEF Fails, HangUp, TypeInv
    <3>4. CASE BrokenPipe(b)
      BY <3>4, <1>4 DEF BrokenPipe, HangUp, TypeInv
    <3>5. CASE (SendRequest(b) \/ ReadFrame(b)) /\ ~ Fails(b)
      BY <3>5, <1>4 DEF SendRequest, ReadFrame, HangUp, clientVars, TypeInv
    <3>. QED BY <1>4, <3>1, <3>2, <3>3, <3>4, <3>5
             DEF ClientStep, SpawnFails, PollFails, ReadEof
  <2>. QED BY <1>0, <2>1, StreamSame
<1>5. CASE ReadRequest(c)
  <2>1. /\ cpc'[c] = cpc[c] /\ cur'[c] = cur[c] /\ frames'[c] = frames[c] /\ task'[c] = "work"
        /\ inbox[c] /\ inbox'[c] = FALSE
        /\ work'[c].fresh = (bg[conn[c]] = "live")
        /\ work'[c].stale = (Handlers[cur[c].kind].flag = "early" /\ bg[conn[c]] # "live")
    BY <1>5, <1>0 DEF ReadRequest, clientVars, TypeInv
  <2>2. frames[c] = <<>> /\ cpc[c] = "read" /\ cur[c].kind \in DOMAIN Handlers
    BY <1>5, <1>0, <2>1 DEF StreamInv, ReadRequest, Requests
  <2>3. Early(cur[c].kind) => work'[c].stale \/ work'[c].fresh
    BY <2>1 DEF Early
  <2>. QED BY <1>0, <2>1, <2>2, <2>3 DEF StreamInv, Early
<1>6. CASE AnswerControl(c)
  <2>1. /\ cpc'[c] = cpc[c] /\ cur'[c] = cur[c] /\ inbox[c] /\ inbox'[c] = FALSE
        /\ task'[c] \in {"closed", "idle"}
    BY <1>6, <1>0 DEF AnswerControl, clientVars, TypeInv
  <2>2. frames[c] = <<>> /\ cpc[c] = "read" /\ cur[c].kind \in Requests
    BY <1>0, <2>1 DEF StreamInv
  <2>3. CASE frames'[c] = frames[c]
    BY <2>1, <2>2, <2>3 DEF StreamInv
  <2>4. CASE frames'[c] # frames[c]
    <3>1. PICK t \in {"Pong", "Error"} : frames'[c] = Append(frames[c], Frame(c, t, FALSE))
      BY <1>6, <1>0, <2>4 DEF AnswerControl, TypeInv
    <3>2. PICK f \in FrameSet : f = Frame(c, t, FALSE) /\ f.tag = t /\ f.rid = cur[c].rid
      BY <1>0, PlainFrame DEF Tag
    <3>3. Len(frames'[c]) = 1 /\ DOMAIN frames'[c] = {1} /\ frames'[c][1] = f
      BY <2>2, <3>1, <3>2
    <3>. QED BY <2>1, <2>2, <3>2, <3>3 DEF StreamInv
  <2>. QED BY <2>3, <2>4
<1>7. CASE SendPayload(c)
  <2>1. /\ cpc'[c] = cpc[c] /\ cur'[c] = cur[c] /\ inbox'[c] = inbox[c] /\ task'[c] = task[c]
        /\ task[c] = "work" /\ work'[c].fresh = work[c].fresh /\ work'[c].stale = work[c].stale
        /\ frames'[c] = Append(frames[c], Frame(c, Handlers[cur[c].kind].payload, FALSE))
    BY <1>7, <1>0 DEF SendPayload, clientVars, TypeInv
  <2>2. Handlers[cur[c].kind].payload \in Tag \ Terminator
    BY <1>0, <2>1, HandlerFacts DEF StreamInv
  <2>3. PICK f \in FrameSet : /\ f.tag \notin Terminator /\ f.rid = cur[c].rid
                              /\ frames'[c] = Append(frames[c], f)
    BY <1>0, <2>1, <2>2, PlainFrame
  <2>4. /\ \A i \in DOMAIN frames[c] : frames[c][i].tag \notin Terminator
        /\ frames[c] \in Seq(FrameSet)
    BY <1>0, <2>1 DEF StreamInv, TypeInv
  <2>5. \A i \in DOMAIN frames'[c] : (i \in DOMAIN frames[c] /\ frames'[c][i] = frames[c][i]) \/ frames'[c][i] = f
    BY <2>3, <2>4
  <2>6. \A i \in DOMAIN frames'[c] : frames'[c][i].tag \notin Terminator /\ frames'[c][i].rid = cur[c].rid
    BY <1>0, <2>3, <2>4, <2>5 DEF StreamInv
  <2>7. cpc[c] = "read" /\ ~ inbox[c]
    BY <1>0, <2>1 DEF StreamInv
  <2>. QED BY <1>0, <2>1, <2>6, <2>7 DEF StreamInv, Early, Terminator
<1>8. CASE SendDone(c)
  <2>. DEFINE s == Stats(c) \o <<Frame(c, "Done", StaleFlag(c))>>
  <2>1. task[c] = "work" /\ EndAnswer(c, s)
    BY <1>8 DEF SendDone
  <2>2. /\ s \in Seq(FrameSet)
        /\ \A i \in DOMAIN s : /\ s[i].rid = cur[c].rid
                               /\ i # Len(s) => s[i].tag \notin Terminator
                               /\ s[i].tag = "Done" => /\ s[i].stale = StaleFlag(c)
                                                       /\ s[i].fresh = work[c].fresh
    BY <1>0, DoneFrames
  <2>3. Early(cur[c].kind) => StaleFlag(c) = work[c].stale /\ (work[c].stale \/ work[c].fresh)
    BY <1>0, <2>1 DEF StaleFlag, Early, StreamInv
  <2>. HIDE DEF s
  <2>. QED BY <1>0, <2>1, <2>2, <2>3, AnswerEnds
<1>9. CASE SendError(c)
  <2>1. PICK f \in FrameSet : f = Frame(c, "Error", FALSE) /\ f.tag = "Error" /\ f.rid = cur[c].rid
    BY <1>0, PlainFrame DEF Tag
  <2>2. PICK s : s = <<f>> /\ s \in Seq(FrameSet) /\ Len(s) = 1 /\ DOMAIN s = {1} /\ s[1] = f
    BY OneFrame
  <2>3. task[c] = "work" /\ EndAnswer(c, s)
    BY <1>9, <2>1, <2>2 DEF SendError
  <2>. QED BY <1>0, <2>1, <2>2, <2>3, AnswerEnds
<1>10. CASE DropConnection(c)
  <2>1. /\ cpc'[c] = cpc[c] /\ cur'[c] = cur[c] /\ frames'[c] = frames[c] /\ inbox'[c] = inbox[c]
        /\ task'[c] = "closed"
    BY <1>10, <1>0 DEF DropConnection, clientVars, TypeInv
  <2>. QED BY <1>0, <2>1 DEF StreamInv, Early
<1>11. CASE FastConnect(c) \/ PollConnect(c) \/ Spawn(c)
  <2>1. /\ cpc[c] \in {"connect", "poll"} /\ cpc'[c] \in {"send", "poll"} /\ cur'[c] = cur[c]
        /\ frames'[c] = frames[c] /\ inbox'[c] = inbox[c] /\ task'[c] \in {task[c], "backlog"}
    BY <1>11, <1>0 DEF FastConnect, PollConnect, Connects, Spawn, wireVars, TypeInv
  <2>2. frames[c] = <<>> /\ ~ inbox[c] /\ task[c] # "work" /\ cur[c].kind \in Requests
    BY <1>0, <2>1 DEF StreamInv
  <2>. QED BY <2>1, <2>2 DEF StreamInv
<1>12. CASE Fails(c) /\ (SpawnFails(c) \/ PollFails(c) \/ ReadEof(c) \/ SendRequest(c) \/ ReadFrame(c))
  <2>1. cpc[c] # "idle"
    BY <1>12 DEF SpawnFails, PollFails, ReadEof, SendRequest, ReadFrame
  <2>. QED BY <1>0, <1>12, <2>1, FailedStream
<1>13. CASE SendRequest(c) /\ ~ Fails(c)
  <2>1. /\ cpc[c] = "send" /\ cpc'[c] = "read" /\ cur'[c] = cur[c] /\ inbox'[c] = TRUE
        /\ frames'[c] = frames[c] /\ task'[c] = task[c]
    BY <1>13, <1>0 DEF SendRequest, TypeInv
  <2>2. frames[c] = <<>> /\ task[c] # "work" /\ cur[c].kind \in Requests
    BY <1>0, <2>1 DEF StreamInv
  <2>. QED BY <2>1, <2>2 DEF StreamInv
<1>14. CASE ReadFrame(c) /\ ~ Fails(c)
  <2>. DEFINE f == frames[c]
              t == Tail(frames[c])
  <2>1. /\ cpc[c] = "read" /\ f # <<>> /\ cur'[c] = cur[c]
        /\ \/ ~ Ends(c, Head(f).tag) /\ cpc'[c] = "read" /\ frames'[c] = t
              /\ inbox'[c] = inbox[c] /\ task'[c] = task[c] /\ work'[c] = work[c]
           \/ Ends(c, Head(f).tag) /\ cpc'[c] = "over" /\ frames'[c] = t
              /\ inbox'[c] = inbox[c] /\ task'[c] = task[c]
           \/ HangUp(c) /\ cpc'[c] = "over"
    BY <1>14, <1>0 DEF ReadFrame, clientVars, TypeInv
  <2>2. /\ t \in Seq(FrameSet) /\ Head(f) = f[1] /\ Len(f) \in Nat /\ Len(f) >= 1 /\ DOMAIN f = 1 .. Len(f)
        /\ Len(t) = Len(f) - 1
        /\ \A i \in 1 .. Len(f) - 1 : t[i] = f[i + 1]
    BY <1>0, <2>1, ReadTail
  <2>3. cur[c].kind \in Requests
    BY <1>0, <2>1 DEF StreamInv
  <2>4. CASE HangUp(c) /\ cpc'[c] = "over"
    BY <1>0, <2>1, <2>4, HungUp
  <2>5. CASE ~ Ends(c, Head(f).tag) /\ cpc'[c] = "read" /\ frames'[c] = t
             /\ inbox'[c] = inbox[c] /\ task'[c] = task[c] /\ work'[c] = work[c]
    <3>1. \A i \in DOMAIN t : i + 1 \in DOMAIN f /\ t[i] = f[i + 1] /\ (i + 1 = Len(f) => i = Len(t))
      BY <2>2
    <3>2. ~ inbox[c]
      BY <1>0, <2>1 DEF StreamInv
    <3>. HIDE DEF t
    <3>3. ASSUME NEW i \in DOMAIN t
          PROVE  /\ t[i].rid = cur[c].rid
                 /\ t[i].tag \in Terminator => i = Len(t) /\ task[c] # "work"
                 /\ t[i].tag = "Done" /\ Early(cur[c].kind) => t[i].stale \/ t[i].fresh
      BY <1>0, <3>1 DEF StreamInv
    <3>. QED BY <1>0, <2>1, <2>3, <2>5, <3>2, <3>3 DEF StreamInv, Early
  <2>6. CASE Ends(c, Head(f).tag) /\ cpc'[c] = "over" /\ frames'[c] = t
             /\ inbox'[c] = inbox[c] /\ task'[c] = task[c]
    <3>0. 1 \in DOMAIN f /\ f[1].tag \in Terminator
      BY <2>2, <2>6 DEF Ends, Terminator
    <3>1. 1 = Len(f) /\ ~ inbox[c] /\ task[c] # "work"
      BY <1>0, <3>0 DEF StreamInv
    <3>2. t \in Seq(FrameSet) /\ Len(t) = 0
      BY <2>2, <3>1
    <3>. HIDE DEF t
    <3>3. t = <<>>
      BY <3>2, NoLength
    <3>. QED BY <2>1, <2>3, <2>6, <3>1, <3>3 DEF StreamInv
  <2>. QED BY <2>1, <2>4, <2>5, <2>6
<1>15. CASE BrokenPipe(c)
  <2>1. HangUp(c) /\ cpc[c] = "read" /\ cpc'[c] = "over" /\ cur'[c] = cur[c]
    BY <1>15, <1>0 DEF BrokenPipe, TypeInv
  <2>. QED BY <1>0, <2>1, HungUp
<1>16. CASE StartRequest(c)
  <2>1. /\ cpc[c] \in {"idle", "over"} /\ cpc'[c] \in {"connect", "send"}
        /\ frames'[c] = frames[c] /\ inbox'[c] = inbox[c] /\ task'[c] = task[c]
    BY <1>16, <1>0 DEF StartRequest, wireVars, TypeInv
  <2>2. frames[c] = <<>> /\ ~ inbox[c] /\ task[c] # "work"
    BY <1>0, <2>1 DEF StreamInv
  <2>3. cur'[c].kind \in Requests
    <3>1. PICK k \in Asks[c][cur[c].rid + 1] :
             cur' = [cur EXCEPT ![c] = [kind |-> k, rid |-> @.rid + 1, tries |-> 1]]
      BY <1>16 DEF StartRequest
    <3>2. Asks[c] \in Seq(SUBSET Requests) /\ cur[c].rid + 1 \in 1 .. Len(Asks[c])
      BY <1>16, <1>0, FrameFields, DaemonAssumption DEF StartRequest
    <3>3. k \in Requests
      BY <3>2
    <3>. QED BY <3>1, <3>3, <1>0 DEF TypeInv
  <2>. QED BY <2>1, <2>2, <2>3 DEF StreamInv
<1>17. CASE UNCHANGED vars
  BY <1>0, <1>17, StreamSame DEF vars, clientVars, wireVars
<1>. QED BY <1>0, <1>1, <1>2, <1>3, <1>4, <1>5, <1>6, <1>7, <1>8, <1>9, <1>10, <1>11, <1>12, <1>13, <1>14,
         <1>15, <1>16, <1>17 DEF Next, DaemonStep, TaskStep, ClientStep, SpawnFails, PollFails, ReadEof

(* No stream is open at the start. *)
LEMMA InvInit == Init => Inv
<1>. SUFFICES ASSUME Init PROVE Inv
  OBVIOUS
<1>1. TypeInv
  <2>1. /\ <<>> \in Seq(FrameSet) /\ 0 \in 0..2
        /\ NoWork \in [fresh : BOOLEAN, stale : BOOLEAN, sent : Nat]
    BY DEF NoWork
  <2>. QED BY <2>1 DEF Init, TypeInv
<1>2. ASSUME NEW c \in Clients PROVE StreamInv(c)
  <2>1. cpc[c] = "idle" /\ frames[c] = <<>> /\ inbox[c] = FALSE /\ task[c] = "none"
    BY DEF Init
  <2>. QED BY <2>1 DEF StreamInv
<1>. QED BY <1>1, <1>2 DEF Inv

(* Every step keeps types and streams. *)
LEMMA InvStep == Inv /\ [Next]_vars => Inv'
<1>. SUFFICES ASSUME Inv, [Next]_vars PROVE Inv'
  OBVIOUS
<1>1. TypeInv'
  BY TypeStep
<1>2. \A c \in Clients : StreamInv(c)'
  BY StreamStep
<1>. QED BY <1>1, <1>2 DEF Inv

\* Every frame a client reads answers the request it waits for, though the MCP client keeps
\* its stream from request to request.
THEOREM AnswersAreOwn == Spec => []AnswersMatch
<1>1. Inv => AnswersMatch
  BY DEF Inv, StreamInv, AnswersMatch
<1>. QED BY <1>1, InvInit, InvStep, PTL DEF Spec

\* An answer that does not say "stale" was read from a snapshot taken after the catch-up.
THEOREM FreshAnswers == Spec => []FreshUnlessStale
<1>1. Inv => FreshUnlessStale
  BY DEF Inv, StreamInv, FreshUnlessStale, WronglyFresh, Early
<1>. QED BY <1>1, InvInit, InvStep, PTL DEF Spec

\* A request whose Done frame was sent is not made again by the retry of the MCP client.
THEOREM AnsweredOnce == Spec => NotRepeated
<1>1. ASSUME Inv, [Next]_vars
      PROVE  [\A c \in Clients :
                (\E i \in DOMAIN frames[c] : frames[c][i].tag = "Done" /\ frames[c][i].rid = cur[c].rid)
                  => (cur'[c].rid = cur[c].rid => cur'[c].tries = cur[c].tries)]_vars
  <2>. SUFFICES ASSUME NEW c \in Clients, NEW i \in DOMAIN frames[c], frames[c][i].tag = "Done"
                PROVE  cur'[c] = cur[c]
    OBVIOUS
  <2>0. TypeInv /\ StreamInv(c)
    BY <1>1 DEF Inv
  <2>1. frames[c] \in Seq(FrameSet) /\ frames[c] # <<>> /\ cpc[c] = "read" /\ i = Len(frames[c])
    BY <2>0 DEF StreamInv, TypeInv, Terminator
  <2>2. Head(frames[c]).tag # "Error"
    <3>1. Head(frames[c]) = frames[c][1] /\ Len(frames[c]) >= 1 /\ DOMAIN frames[c] = 1 .. Len(frames[c])
          /\ Len(frames[c]) \in Nat
      BY <2>0, <2>1, ReadTail
    <3>0. 1 \in DOMAIN frames[c]
      BY <3>1
    <3>2. frames[c][1].tag \in Terminator => i = 1
      BY <2>0, <2>1, <3>0 DEF StreamInv
    <3>. QED BY <3>1, <3>2 DEF Terminator
  <2>3. CASE UNCHANGED vars
    BY <2>3 DEF vars, clientVars
  <2>4. ASSUME NEW d \in Daemons, DaemonStep(d) \/ IdleTimeout(d) \/ Die(d) PROVE cur' = cur
    BY <2>4 DEF DaemonStep, RemoveStaleSocket, Bind, LoadIndex, CaughtUp, Accept, Exit, IdleTimeout, Die, clientVars
  <2>5. ASSUME NEW b \in Clients, TaskStep(b) \/ SendPayload(b) \/ SendError(b) \/ DropConnection(b)
        PROVE  cur' = cur
    BY <2>5 DEF TaskStep, ReadRequest, AnswerControl, SendDone, EndAnswer, SendPayload, SendError, DropConnection,
       clientVars
  <2>6. ASSUME NEW b \in Clients, ClientStep(b) \/ StartRequest(b) \/ BrokenPipe(b)
        PROVE  cur' = cur \/ b # c
    BY <2>1, <2>2, <2>6 DEF ClientStep, FastConnect, PollConnect, Connects, Spawn, SpawnFails, PollFails,
       SendRequest, ReadFrame, ReadEof, StartRequest, BrokenPipe, clientVars
  <2>7. ASSUME NEW b \in Clients, ClientStep(b) \/ StartRequest(b) \/ BrokenPipe(b), b # c
        PROVE  cur'[c] = cur[c]
    BY <2>0, <2>7 DEF ClientStep, FastConnect, PollConnect, Connects, Spawn, SpawnFails, PollFails,
       SendRequest, ReadFrame, ReadEof, StartRequest, BrokenPipe, Fails, clientVars, TypeInv
  <2>. QED BY <1>1, <2>3, <2>4, <2>5, <2>6, <2>7 DEF Next
<1>. QED BY <1>1, InvInit, InvStep, PTL DEF Spec, NotRepeated
=============================================================================
