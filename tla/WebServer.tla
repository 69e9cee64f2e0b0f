----------------------------- MODULE WebServer -----------------------------
(***************************************************************************)
(* What the web server makes of a daemon's reply (ferret-web/src/ui.rs,    *)
(* proxy.rs, sse.rs, api.rs, error.rs; ferret-daemon/src/client.rs,        *)
(* json_protocol.rs).  The pages, the JSON interface and the event stream  *)
(* read the same frames, each with code of its own.                        *)
(*                                                                         *)
(* A reply is the sequence of frames the daemon wrote before the           *)
(* connection ended; a daemon that dies leaves one without an end.         *)
(***************************************************************************)
EXTENDS Naturals, Sequences, FiniteSets, SequencesExt

NoText == ""

CONSTANTS
  Repos,       \* repositories a page may ask about
  Registered,  \* those the server's map knows
  Queries,     \* non-empty queries
  Found,       \* Found[r][q]: the files of r that match q, best first
  Symbols,     \* Symbols[r][q]: the symbols of r that match q
  PerPage      \* files on a page: 20 for pages

ASSUME WebServerAssumption ==
  /\ Registered \subseteq Repos /\ NoText \notin Queries
  /\ Found \in [Repos -> [Queries -> Seq(STRING)]] /\ Symbols \in [Repos -> [Queries -> Seq(STRING)]]
  /\ PerPage \in Nat \ {0}

Smaller(a, b) == IF a < b THEN a ELSE b

-----------------------------------------------------------------------------
(* Frames. *)

ResultFrame(f)  == [is |-> "result", value |-> f]
StatsFrame(n)   == [is |-> "stats", value |-> n]      \* n: total_pages
Unparsable      == [is |-> "unparsable", value |-> NoText]  \* a payload that is not a frame
OtherFrame      == [is |-> "other", value |-> NoText]      \* Line, Progress, Pong
DoneFrame       == [is |-> "done", value |-> NoText]
ErrorFrame      == [is |-> "error", value |-> NoText]

IsJson(f) == f.is \in {"result", "stats", "unparsable"}
IsEnd(f)  == f.is \in {"done", "error"}

\* The frames up to the first that ends the answer.
Answer(frames) ==
  LET e == SelectInSeq(frames, IsEnd) IN IF e = 0 THEN frames ELSE SubSeq(frames, 1, e)

\* A client that takes whatever arrived before the connection was lost.
SendJsonRequestLenient(frames) ==
  [ok |-> ~ \E i \in DOMAIN Answer(frames) : Answer(frames)[i].is = "error",
   payloads |-> SelectSeq(Answer(frames), IsJson)]

\* send_json_request: the payloads up to Done; an Error frame or a lost connection is an error.
SendJsonRequest(frames) ==
  [ok |-> Answer(frames) # <<>> /\ Last(Answer(frames)).is = "done",
   payloads |-> SelectSeq(Answer(frames), IsJson)]

Results(payloads) ==
  LET r == SelectSeq(payloads, LAMBDA f : f.is = "result") IN [i \in DOMAIN r |-> r[i].value]
Stats(payloads) == SelectSeq(payloads, LAMBDA f : f.is = "stats")

Failed(status) == [status |-> status, files |-> <<>>, pages |-> 0]

\* ui::proxy_search: skips what it cannot parse; no statistics are zero pages.
ProxySearch(frames) ==
  LET r == SendJsonRequest(frames)
  IN  IF ~r.ok THEN Failed(502)
      ELSE [status |-> 200, files |-> Results(r.payloads),
            pages |-> IF Stats(r.payloads) = <<>> THEN 0 ELSE Last(Stats(r.payloads)).value]

\* proxy::search for the JSON interface: one payload it cannot parse fails the request.
ApiSearch(frames) ==
  LET r == SendJsonRequest(frames)
  IN  IF ~r.ok \/ \E f \in Range(r.payloads) : f.is = "unparsable" THEN Failed(500)
      ELSE [status |-> 200, files |-> Results(r.payloads),
            pages |-> IF Stats(r.payloads) = <<>> THEN 1 ELSE Last(Stats(r.payloads)).value]

\* parse_first_payload: Status, Health and GetFile answer with one payload.
ParseFirstPayload(frames) ==
  LET r == SendJsonRequest(frames)
  IN  IF r.ok /\ r.payloads # <<>> /\ r.payloads[1].is # "unparsable" THEN 200 ELSE 500

\* symbol_results_fragment: without a total, or with a total of 0, the symbols are counted.
ProxySymbols(frames) ==
  LET r     == SendJsonRequest(frames)
      found == Results(r.payloads)
      total == IF Stats(r.payloads) = <<>> THEN 0 ELSE Last(Stats(r.payloads)).value
  IN  IF ~r.ok THEN Failed(502)
      ELSE [status |-> 200, files |-> found, pages |-> IF total = 0 THEN Len(found) ELSE total]

\* proxy::symbols
ApiSymbols(frames) ==
  LET r     == SendJsonRequest(frames)
      found == Results(r.payloads)
  IN  IF ~r.ok \/ \E f \in Range(r.payloads) : f.is = "unparsable" THEN Failed(500)
      ELSE [status |-> 200, files |-> found,
            pages |-> IF Stats(r.payloads) = <<>> THEN Len(found) ELSE Last(Stats(r.payloads)).value]

\* search_stream: an event for each payload as it arrives, unparsable ones too, and one last event.
SearchStream(frames) ==
  LET shown == SelectSeq(Answer(frames), LAMBDA f : IsJson(f) \/ IsEnd(f))
      event(f) == CASE f.is = "stats" -> [event |-> "stats", data |-> f.value]
                    [] f.is \in {"result", "unparsable"} -> [event |-> "result", data |-> f.value]
                    [] IsEnd(f) -> [event |-> f.is, data |-> NoText]
      events == [i \in DOMAIN shown |-> event(shown[i])]
  IN  IF shown # <<>> /\ IsEnd(Last(shown)) THEN events
      ELSE Append(events, [event |-> "error", data |-> NoText])

Streamed(events) ==
  LET r == SelectSeq(events, LAMBDA e : e.event = "result") IN [i \in DOMAIN r |-> r[i].data]

-----------------------------------------------------------------------------
(* The handlers.  A request names a repository; r.given says that it has a query, which may be    *)
(* empty, or a path; the daemon can be reached or not.                                            *)

\* The JSON interface: an unknown repository, a bad request and an unreachable daemon are told apart.
ApiStatus(r, bad, status) ==
  IF r.repo \notin Registered THEN 404
  ELSE IF bad THEN 400
  ELSE IF ~r.connected THEN 503 ELSE status

SearchHandler(r)       == ApiStatus(r, r.q = NoText, ApiSearch(r.frames).status)
\* symbols: an empty query goes to the daemon, and so does a path alone.
SymbolsHandler(r)      == ApiStatus(r, ~r.given, ApiSymbols(r.frames).status)
SearchStreamHandler(r) == ApiStatus(r, r.q = NoText, 200)
GetFile(r)             == ApiStatus(r, FALSE, ParseFirstPayload(r.frames))
IndexStatusHandler(r) == ApiStatus(r, FALSE, ParseFirstPayload(r.frames))
\* refresh_index: accepted, whatever the daemon replied.
RefreshIndex(r)        == ApiStatus(r, FALSE, 202)

FilePreview(r) ==
  IF r.repo \notin Registered THEN 404
  ELSE IF r.connected /\ ParseFirstPayload(r.frames) = 200 THEN 200 ELSE 502

\* symbol_outline_fragment: whatever goes wrong is an empty outline.
SymbolOutline(r) ==
  IF r.repo \in Registered /\ r.connected /\ SendJsonRequest(r.frames).ok
  THEN Results(SendJsonRequest(r.frames).payloads) ELSE <<>>

\* The status in the sidebar: whatever goes wrong reads "unknown".
RepoStatus(r) ==
  IF r.repo \in Registered /\ r.connected /\ ParseFirstPayload(r.frames) = 200 THEN "status" ELSE "unknown"

\* An entry of the overview of repositories.
ReposPage(r) == IF r.connected /\ ParseFirstPayload(r.frames) = 200 THEN "status" ELSE "offline"

\* An event of status_stream: the first payload as it is.
StatusStream(r) ==
  LET reply == SendJsonRequest(r.frames)
  IN  IF ~r.connected \/ ~reply.ok THEN "offline" ELSE IF reply.payloads = <<>> THEN "unknown" ELSE "status"

\* The readers agree about one request: a whole answer is shown whole, in order, by each, and none
\* takes the answer of a daemon that failed, died or was never reached for a whole one; a stream
\* ends with one last event (proxy.rs:35, ui.rs:428, sse.rs:112-150).
Agree(r) ==
  LET ui == ProxySearch(r.frames)  api == ApiSearch(r.frames)  events == SearchStream(r.frames)
      whole == \E i \in DOMAIN r.frames : r.frames[i].is = "done" /\ \A j \in 1 .. i - 1 : ~IsEnd(r.frames[j])
      clean == \A f \in Range(Answer(r.frames)) : f.is # "unparsable"
      handled == {SearchHandler(r), SymbolsHandler(r), GetFile(r), IndexStatusHandler(r)}
  IN  /\ (ui.status = 200) = whole
      /\ (Last(events).event = "done") = whole
      /\ \A i \in DOMAIN events : events[i].event \in {"done", "error"} <=> i = Len(events)
      /\ whole /\ clean => /\ api.status = 200 /\ api.files = ui.files /\ Streamed(events) = ui.files
                           /\ ProxySymbols(r.frames).files = ApiSymbols(r.frames).files
      /\ api.status = 200 => whole
      /\ 200 \in handled => whole /\ r.connected /\ r.repo \in Registered
      /\ r.repo \notin Registered => handled \cup {SearchStreamHandler(r), RefreshIndex(r)} = {404}
      /\ (GetFile(r) = 200) = (FilePreview(r) = 200)
      /\ ~(whole /\ r.connected) => /\ {RepoStatus(r), ReposPage(r), StatusStream(r)} \subseteq {"unknown", "offline"}
                                    /\ SymbolOutline(r) = <<>>

-----------------------------------------------------------------------------
(* The fragments the page asks for. *)

Request(q, repo, mode, page) == [q |-> q, repo |-> repo, mode |-> mode, page |-> page]

\* JsonSearch: searches for as many files as the pages so far hold, and counts what it got.
DaemonPage(r, q, page) ==
  LET all   == SubSeq(Found[r][q], 1, Smaller(page * PerPage, Len(Found[r][q])))
      pages == (Len(all) + PerPage - 1) \div PerPage
  IN  [items |-> SubSeq(all, (page - 1) * PerPage + 1, Len(all)), pages |-> pages, hasNext |-> page < pages]

Fragment(request, items, pages, hasNext) ==
  [asked |-> request, items |-> items, pages |-> pages, hasNext |-> hasNext]

EmptyFragment(request) == Fragment(request, <<>>, 0, FALSE)

\* symbol_results_fragment
SymbolResultsFragment(request) ==
  IF request.q = NoText \/ request.repo \notin Registered THEN EmptyFragment(request)
  ELSE Fragment(request, Symbols[request.repo][request.q], 0, FALSE)

\* search_results_fragment
SearchResultsFragment(request) ==
  IF request.mode = "symbol" THEN SymbolResultsFragment(request)
  ELSE IF request.q = NoText \/ request.repo \notin Registered THEN EmptyFragment(request)
  ELSE LET d == DaemonPage(request.repo, request.q, request.page)
       IN  Fragment(request, d.items, d.pages, d.hasNext)

\* The daemon is asked only for a query in a repository the server knows; otherwise no request fails.
MayFail(request) == request.q # NoText /\ request.repo \in Registered
=============================================================================
