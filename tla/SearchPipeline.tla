--------------------------- MODULE SearchPipeline ---------------------------
(***************************************************************************)
(* A search over the segments of a snapshot (multi_search.rs), run in one  *)
(* of its two ways:                                                        *)
(*   batch   the segments are searched in parallel under a shared budget,  *)
(*           then merged, ranked, cut and divided into pages (JsonSearch); *)
(*   stream  the segments are searched one after the other, newest first,  *)
(*           and every match travels through two channels to the client    *)
(*           while the search goes on (Search and QuerySearch of           *)
(*           daemon.rs, run_query_search of search_cmd.rs).                *)
(* Which candidates match is decided elsewhere (QueryLanguage); here a     *)
(* segment is the sequence of its candidates, smallest file first.         *)
(***************************************************************************)
EXTENDS Naturals, Sequences, FiniteSets

CONSTANTS
  Path,           \* paths, ordered as numbers
  Indexes,        \* snapshots: sequences of segments, oldest first
  Requests,
  ParThreshold,   \* PAR_THRESHOLD
  MaxPerPage,     \* the clamp on per_page
  MaxPathDepth    \* max_path_depth

\* A candidate: dead when tombstoned, broken when its content cannot be read;
\* depth, named, density and fresh are what ranking looks at.
Candidate == [path : Path, dead : BOOLEAN, broken : BOOLEAN, match : BOOLEAN, lines : Nat,
              depth : Nat, named : BOOLEAN, density : 0..100, fresh : 0..100]

\* readable: whether its tombstones can be loaded.
Segment == [files : Seq(Candidate), readable : BOOLEAN]

\* mode and verifier: which of the search functions is run; limit is a
\* stream's, page and perPage are a batch search's.
Request == [mode : {"batch", "stream"}, verifier : {"literal", "pattern", "regex", "query"},
            limit : Nat, page : Nat, perPage : Nat, glob : SUBSET Path]

ASSUME PipelineAssumption ==
  /\ Path \subseteq Nat /\ ParThreshold \in Nat /\ MaxPerPage \in Nat
  /\ MaxPathDepth \in Nat \ {0}
  /\ \A i \in Indexes : i \in Seq(Segment)
  /\ Requests \subseteq Request

VARIABLES
  index, request,
  worker,      \* segment -> where its search stands
  found,       \* segment -> the candidates its search kept, by their position
  budget,      \* the shared budget of a batch search
  tagged,      \* segment -> the candidates that got through the budget
  merged,      \* the ranked answer of a batch search
  seg,         \* the segment a streaming search is at; 0 is behind the last
  sent,        \* sent_paths, with the segment each came from
  search,      \* the search thread: "running", "ok" or "error"
  channel,     \* from the search thread to the bridge
  frames,      \* from the bridge to the socket
  bridging,    \* the bridge task is alive
  writing,     \* the loop that writes frames to the socket
  total,       \* frames taken by that loop
  client,      \* the frames the client has received
  connected,
  reply        \* "none", "done" or "error"

batchVars  == <<worker, budget, tagged, merged>>
streamVars == <<seg, sent, channel, frames, bridging, writing, total, client, connected>>
vars       == <<index, request, found, search, reply, batchVars, streamVars>>

Segs == 1..Len(index)

Batch  == request.mode = "batch"
Stream == request.mode = "stream"

Min(m, n) == IF m < n THEN m ELSE n
Max(m, n) == IF m < n THEN n ELSE m

PerPage == Min(request.perPage, MaxPerPage)
Page    == Max(1, request.page)

\* max_results: enough for the page asked for.
Limit == IF Batch THEN Page * PerPage ELSE request.limit

Init ==
  /\ index \in Indexes /\ request \in Requests
  /\ worker = [s \in Segs |-> "idle"] /\ found = [s \in Segs |-> <<>>]
  /\ budget = Limit /\ tagged = [s \in Segs |-> <<>>] /\ merged = <<>>
  /\ seg = Len(index) /\ sent = {} /\ search = "running"
  /\ channel = <<>> /\ frames = <<>> /\ bridging = TRUE /\ writing = TRUE
  /\ total = 0 /\ client = <<>> /\ connected = TRUE /\ reply = "none"

-----------------------------------------------------------------------------
(* One segment.                                                            *)

\* verify_candidate and its siblings: a tombstoned or unreadable file is passed over.
Matches(c) == ~c.dead /\ ~c.broken /\ c.match

AllMatches(s) == {i \in 1..Len(index[s].files) : Matches(index[s].files[i])}

Parallel(s) == Len(index[s].files) >= ParThreshold

\* The sequential searches of a literal or a pattern stop only after a match; the query search asks its budget first.
Allowance(limit) == IF request.verifier = "query" THEN limit ELSE Max(1, limit)

\* How many of set come before i, and set as a sequence in that order.
Before(set, i) == Cardinality({j \in set : j < i})
InOrder(set)   == [n \in 1..Cardinality(set) |-> CHOOSE i \in set : Before(set, i) = n - 1]

\* search_single_segment_*: in parallel, any of the matches may be the ones the budget lets pass.
SegmentResults(s, limit) ==
  LET all == AllMatches(s) IN
  IF Parallel(s)
  THEN {keep \in SUBSET all : Cardinality(keep) = Min(limit, Cardinality(all))}
  ELSE {{i \in all : Before(all, i) < Allowance(limit)}}

\* search_single_segment_with_context_seq is the one that reports a file it cannot read, if it gets that far.
SegmentFails(s, limit) ==
  /\ request.verifier = "literal" /\ ~Parallel(s)
  /\ \E i \in 1..Len(index[s].files) :
       /\ index[s].files[i].broken /\ ~index[s].files[i].dead
       /\ Before(AllMatches(s), i) < Max(1, limit)

-----------------------------------------------------------------------------
(* The batch search.                                                       *)

\* The closure of par_iter: first look at the budget, then the tombstones.
StartSegment(s) ==
  /\ Batch /\ worker[s] = "idle"
  /\ worker' = [worker EXCEPT ![s] =
                  IF budget = 0 THEN "done" ELSE IF index[s].readable THEN "search" ELSE "failed"]
  /\ UNCHANGED <<index, request, found, search, reply, budget, tagged, merged, streamVars>>

\* The second look at the budget limits what this segment is searched for.
SearchSegment(s) ==
  /\ Batch /\ worker[s] = "search"
  /\ IF SegmentFails(s, budget)
     THEN worker' = [worker EXCEPT ![s] = "failed"] /\ UNCHANGED found
     ELSE /\ worker' = [worker EXCEPT ![s] = "tag"]
          /\ \E r \in SegmentResults(s, budget) : found' = [found EXCEPT ![s] = InOrder(r)]
  /\ UNCHANGED <<index, request, search, reply, budget, tagged, merged, streamVars>>

\* fetch_update on the shared budget: a match gets through while some is left.
TagMatch(s) ==
  /\ Batch /\ worker[s] = "tag" /\ found[s] # <<>>
  /\ found' = [found EXCEPT ![s] = Tail(@)]
  /\ IF budget > 0
     THEN budget' = budget - 1 /\ tagged' = [tagged EXCEPT ![s] = Append(@, Head(found[s]))]
     ELSE UNCHANGED <<budget, tagged>>
  /\ UNCHANGED <<index, request, worker, search, reply, merged, streamVars>>

EndSegment(s) ==
  /\ Batch /\ worker[s] = "tag" /\ found[s] = <<>>
  /\ worker' = [worker EXCEPT ![s] = "done"]
  /\ UNCHANGED <<index, request, found, search, reply, budget, tagged, merged, streamVars>>

\* ranking.rs, in hundredths: shallow paths, names that contain the query and dense or fresh matches score higher.
BaseScore(verifier) == IF verifier = "regex" THEN 40 ELSE 60

PathDepthScore(depth) == IF depth >= MaxPathDepth THEN 0 ELSE 100 - (100 * depth) \div MaxPathDepth

\* The query search ranks with an empty query, which every name contains.
FilenameMatchScore(c) == IF c.named \/ request.verifier = "query" THEN 100 ELSE 0

Score(c) ==
  30 * BaseScore(request.verifier) + 15 * PathDepthScore(c.depth) + 15 * FilenameMatchScore(c)
    + 25 * c.density + 15 * c.fresh

\* The n-th match of a segment that got through.
TaggedAs(s, n) ==
  LET c == index[s].files[tagged[s][n]] IN [path |-> c.path, seg |-> s, at |-> n, score |-> Score(c)]

Tagged == UNION {{TaggedAs(s, n) : n \in 1..Len(tagged[s])} : s \in Segs}

\* The HashMap merge: the newest segment wins, and in a segment the first.
Winners == {h \in Tagged : \A k \in Tagged : k.path = h.path => k.seg < h.seg \/ (k.seg = h.seg /\ k.at >= h.at)}

\* Sorted by score, then path.
Ahead(h, k) == h.score > k.score \/ (h.score = k.score /\ h.path < k.path)

Ranked(set) ==
  [n \in 1..Cardinality(set) |->
     CHOOSE h \in set : Cardinality({k \in set : Ahead(k, h)}) = n - 1]

\* The merge: the first error of any segment is the answer, else the ranked matches cut at the limit.
Merge ==
  /\ Batch /\ search = "running"
  /\ \A s \in Segs : worker[s] \in {"done", "failed"}
  /\ IF \E s \in Segs : worker[s] = "failed"
     THEN search' = "error" /\ UNCHANGED merged
     ELSE search' = "ok" /\ merged' = SubSeq(Ranked(Winners), 1, Min(Limit, Cardinality(Winners)))
  /\ UNCHANGED <<index, request, found, reply, worker, budget, tagged, streamVars>>

\* An offset that counts the pages from 1.
PaginateFromOne(answer) ==
  SubSeq(answer, Page * PerPage + 1, Min((Page + 1) * PerPage, Len(answer)))

\* paginate: skip the pages before, take one.
Paginate(answer) ==
  SubSeq(answer, (Page - 1) * PerPage + 1, Min(Page * PerPage, Len(answer)))

\* JsonSearch writes its page and Done, or the error, in one go.
SendPage ==
  /\ Batch /\ search # "running" /\ reply = "none"
  /\ reply' = IF search = "ok" THEN "done" ELSE "error"
  /\ client' = Paginate(merged) /\ total' = Len(client')
  /\ UNCHANGED <<index, request, found, search, batchVars, seg, sent, channel, frames, bridging,
                 writing, connected>>

-----------------------------------------------------------------------------
(* The streaming search thread.                                            *)

\* A match as it is sent.
Record(s, i) == [path |-> index[s].files[i].path, seg |-> s, lines |-> index[s].files[i].lines]

StreamSegment ==
  /\ Stream /\ search = "running" /\ seg > 0 /\ worker[seg] = "idle"
  /\ IF index[seg].readable
     THEN /\ found' = [found EXCEPT ![seg] = InOrder(AllMatches(seg))]
          /\ worker' = [worker EXCEPT ![seg] = "tag"] /\ UNCHANGED search
     ELSE search' = "error" /\ UNCHANGED <<found, worker>>
  /\ UNCHANGED <<index, request, reply, budget, tagged, merged, streamVars>>

SentPaths == {h.path : h \in sent}

\* A stream that does not remember what it has sent.
StreamMatchAgain ==
  /\ Stream /\ search = "running" /\ seg > 0 /\ worker[seg] = "tag" /\ found[seg] # <<>>
  /\ found' = [found EXCEPT ![seg] = Tail(@)]
  /\ LET m == Record(seg, Head(found[seg])) IN
     /\ sent' = sent \cup {[path |-> m.path, seg |-> m.seg]}
     /\ channel' = Append(channel, m)
     /\ search' = IF Cardinality(sent') >= Limit THEN "ok" ELSE "running"
  /\ UNCHANGED <<index, request, reply, batchVars, seg, frames, bridging, writing, total, client,
                 connected>>

\* A path already sent is skipped; the limit is looked at after a match is sent.
StreamMatch ==
  /\ Stream /\ search = "running" /\ seg > 0 /\ worker[seg] = "tag" /\ found[seg] # <<>>
  /\ found' = [found EXCEPT ![seg] = Tail(@)]
  /\ LET m == Record(seg, Head(found[seg])) IN
     IF m.path \in SentPaths THEN UNCHANGED <<sent, channel, search>>
     ELSE /\ sent' = sent \cup {[path |-> m.path, seg |-> m.seg]}
          /\ channel' = Append(channel, m)
          /\ search' = IF Cardinality(sent') >= Limit THEN "ok" ELSE "running"
  /\ UNCHANGED <<index, request, reply, batchVars, seg, frames, bridging, writing, total, client,
                 connected>>

NextSegment ==
  /\ Stream /\ search = "running" /\ seg > 0 /\ worker[seg] = "tag" /\ found[seg] = <<>>
  /\ seg' = seg - 1
  /\ UNCHANGED <<index, request, found, search, reply, batchVars, sent, channel, frames, bridging,
                 writing, total, client, connected>>

EndStream ==
  /\ Stream /\ search = "running" /\ seg = 0
  /\ search' = "ok"
  /\ UNCHANGED <<index, request, found, reply, batchVars, streamVars>>

-----------------------------------------------------------------------------
(* The bridge, the socket and the client.                                  *)

\* format_and_send_file_match: a frame per matching line, none if the glob excludes the file.
Formatted(m) ==
  IF m.path \in request.glob THEN [n \in 1..m.lines |-> <<m.path, n>>] ELSE <<>>

Bridge ==
  /\ Stream /\ bridging /\ channel # <<>>
  /\ channel' = Tail(channel)
  /\ frames' = frames \o Formatted(Head(channel))
  /\ UNCHANGED <<index, request, found, search, reply, batchVars, seg, sent, bridging, writing, total,
                 client, connected>>

\* The channel is closed and empty.
BridgeEnds ==
  /\ Stream /\ bridging /\ channel = <<>> /\ search # "running"
  /\ bridging' = FALSE
  /\ UNCHANGED <<index, request, found, search, reply, batchVars, seg, sent, channel, frames, writing,
                 total, client, connected>>

\* One turn of the loop; a failed write leaves it, but keeps the receiver, so the bridge does not notice.
WriteFrame ==
  /\ Stream /\ writing /\ frames # <<>>
  /\ frames' = Tail(frames) /\ total' = total + 1
  /\ IF connected THEN client' = Append(client, Head(frames)) /\ UNCHANGED writing
                  ELSE writing' = FALSE /\ UNCHANGED client
  /\ UNCHANGED <<index, request, found, search, reply, batchVars, seg, sent, channel, bridging, connected>>

\* A loop that ends with the bridge, whatever is still in the channel.
LoopEndsUndrained ==
  /\ Stream /\ writing /\ ~bridging
  /\ writing' = FALSE
  /\ UNCHANGED <<index, request, found, search, reply, batchVars, seg, sent, channel, frames, bridging,
                 total, client, connected>>

\* A loop whose handler has kept a sender of its own: only a failed write ends it.
LoopEndsNever ==
  /\ Stream /\ writing /\ frames = <<>> /\ ~bridging /\ ~connected
  /\ writing' = FALSE
  /\ UNCHANGED <<index, request, found, search, reply, batchVars, seg, sent, channel, frames, bridging,
                 total, client, connected>>

LoopEnds ==
  /\ Stream /\ writing /\ frames = <<>> /\ ~bridging
  /\ writing' = FALSE
  /\ UNCHANGED <<index, request, found, search, reply, batchVars, seg, sent, channel, frames, bridging,
                 total, client, connected>>

\* Both tasks are awaited.  QuerySearch throws the search's result away, Search reports an error.
Reply ==
  /\ Stream /\ reply = "none" /\ ~writing /\ search # "running" /\ ~bridging
  /\ reply' = IF search = "error" /\ request.verifier # "query" THEN "error" ELSE "done"
  /\ UNCHANGED <<index, request, found, search, batchVars, streamVars>>

Disconnect ==
  /\ Stream /\ connected /\ reply = "none"
  /\ connected' = FALSE
  /\ UNCHANGED <<index, request, found, search, reply, batchVars, seg, sent, channel, frames, bridging,
                 writing, total, client>>

Next ==
  \/ \E s \in Segs : StartSegment(s) \/ SearchSegment(s) \/ TagMatch(s) \/ EndSegment(s)
  \/ Merge \/ SendPage
  \/ StreamSegment \/ StreamMatch \/ NextSegment \/ EndStream
  \/ Bridge \/ BridgeEnds \/ WriteFrame \/ LoopEnds \/ Reply \/ Disconnect

\* Threads of the pool, tasks of the runtime and the loop keep running; nobody has to disconnect.
Fairness ==
  /\ WF_vars(\E s \in Segs : StartSegment(s) \/ SearchSegment(s) \/ TagMatch(s) \/ EndSegment(s))
  /\ WF_vars(Merge \/ SendPage)
  /\ WF_vars(StreamSegment \/ StreamMatch \/ NextSegment \/ EndStream)
  /\ WF_vars(Bridge \/ BridgeEnds)
  /\ WF_vars(WriteFrame \/ LoopEnds \/ Reply)

Spec == Init /\ [][Next]_vars /\ Fairness

-----------------------------------------------------------------------------
(* Properties.                                                             *)

\* The matches of the snapshot.
Hits == UNION {{[path |-> index[s].files[i].path, seg |-> s] : i \in AllMatches(s)} : s \in Segs}

\* No path has two live copies that match.
Unambiguous ==
  \A s, t \in Segs : \A i \in AllMatches(s), j \in AllMatches(t) :
    index[s].files[i].path = index[t].files[j].path => s = t /\ i = j

Answer == IF Batch THEN {[path |-> merged[i].path, seg |-> merged[i].seg] : i \in 1..Len(merged)}
                   ELSE sent

Promise == INSTANCE SearchSpec WITH
  hits    <- Hits,
  cap     <- IF Batch THEN Limit ELSE Max(1, Limit),
  exact   <- Stream \/ Unambiguous,
  answer  <- Answer,
  outcome <- search

\* Both searches keep the promise of SearchSpec: no path twice, never more
\* than the limit, only live matches; the streaming search always, and the
\* batch search whenever no path has two live copies, report the newest copy
\* and miss nothing short of the limit, however the segments' workers share
\* the budget.
KeepsPromise == Promise!SearchPromise

\* The lines of the copy that is sent for h: the first of its segment.
LinesOf(h) ==
  LET copies == {i \in AllMatches(h.seg) : index[h.seg].files[i].path = h.path}
      first  == CHOOSE i \in copies : \A j \in copies : i <= j
  IN  index[h.seg].files[first].lines

\* A client still there when the stream ends without an error has received
\* the lines of every file sent that its glob lets pass, each once and file
\* by file, and the total it is told is what it received.
ClientGetsAll ==
  reply = "done" /\ Stream /\ connected =>
    /\ total = Len(client)
    /\ {client[i] : i \in 1..Len(client)} =
         UNION {{<<h.path, n>> : n \in 1..LinesOf(h)} : h \in {k \in sent : k.path \in request.glob}}
    /\ \A i, j \in 1..Len(client) : i < j =>
         client[i] # client[j] /\ (client[i][1] = client[j][1] => client[i][2] < client[j][2])

\* Every page but the last is full: where no path has two live copies, page n
\* holds as many of the matching files as are left behind n - 1 full pages,
\* although the search that fills it stops at n pages' worth of matches.
PagesFull ==
  reply = "done" /\ Batch /\ Unambiguous =>
    total = Min(PerPage, Max(Cardinality(Hits), (Page - 1) * PerPage) - (Page - 1) * PerPage)

\* Every search is answered, also when its client has left in the middle of
\* it: the search thread, the bridge and the writer never wait for each other
\* for ever.
SearchEnds == <>(reply # "none")
=============================================================================
