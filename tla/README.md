# ferret in TLA+

ferret indexes a git repository for code search. A background daemon keeps a trigram index in
`.ferret_index/`, follows the repository as it changes, and answers the requests of the command
line, an MCP server and a web server. This directory holds TLA+ models of it, the TLC
configurations that check them, and TLAPS proofs.

Paths below are relative to the repository (`src/` in `PROJECT.json`).

## 1. The system

| Component | State | Operations | Hard because |
|---|---|---|---|
| Segment manager (`ferret-core/src/segment_manager.rs`, `tombstone.rs`, `index_state.rs`) | list of immutable segments, one directory each; a tombstone file per segment and its in-memory cache; id counter; `write_lock`, `compacting` | `index_files`, `apply_changes`, `compact`, `new` (load) | searches share segments with the writer; kills between files; parallel builds of which one fails |
| Segment files (`segment.rs`, `content.rs`, `metadata.rs`, `posting.rs`, `codec.rs`, `index_writer.rs`, `index_reader.rs`, `symbol_index.rs`, `highlight.rs`, `recovery.rs`) | seven files per directory | build, open, read, recover | kills and power losses; a second process that cleans up |
| Search (`multi_search.rs`, `search.rs`, `ranking.rs`) | a snapshot of the list, a shared budget, two channels | batch and streamed search | parallel segments under one budget; duplicates; clients that leave |
| Query language (`query.rs`, `query_trigrams.rs`, `query_match.rs`, `query_plan.rs`, `verify.rs`) | none | parse, prefilter, match, show | a prefilter may not lose a match |
| Catch-up (`catchup.rs`, `checkpoint.rs`, `git_diff.rs`, `hash_diff.rs`) | `checkpoint.json` | at daemon start and for `Reindex` | three git commands at three moments; a kill between apply and checkpoint |
| Change feed (`watcher.rs`, `hybrid_detector.rs`, `ferret-cli/src/daemon.rs` `run_live_indexing`) | debouncer, two channels, three threads | watch, scan, forward, apply, stamp | reports of one file from two sources; missed events |
| Daemon (`daemon.rs` `start_daemon`, `handle_connection`; `ferret-daemon/src/client.rs`, `wire.rs`; `mcp/daemon_client.rs`) | socket, connections, idle timer, caught-up flag | connect or spawn, serve, idle exit, retry | two clients that spawn, a socket removed under a successor, a kept stream |
| Repositories (`registry.rs`, `walker.rs`, `binary.rs`; `init.rs`, `repos.rs`, `repo.rs`, `main.rs`; `ferret-web/src/api.rs`) | `repos.toml`, its temporary file, the web server's map, the trees | `init`, `repos add/remove/list`, web requests | no lock; edits between walk and read |
| MCP server (`mcp/*.rs`, `files.rs`), reindex display (`reindex_display.rs`) | the segments of its start, late tombstones; a spinner or a bar | resources, status, listings; progress events | the daemon changes the index meanwhile; numbers out of order |
| Web (`ferret-web/src/*.rs`, `static/app.js`, `templates/index.html`), terminal output (`color.rs`, `paths.rs`, `preview.rs`) | the page: form, requests under way, selection | search, page, keys; reading frames; marking lines | answers in any order; replies without an end; overlapping ranges |

How they interact: watcher thread → (channel) → detector thread → (channel) → live thread →
`SegmentManager::apply_changes`; request tasks call `run_catchup` or search beside it; writers
exclude each other by `write_lock`, readers take an `ArcSwap` snapshot and no lock; across a
restart only the segment directories and the checkpoint survive. Clients reach the daemon through
a Unix socket; the MCP server also opens the directories itself.

What makes each part correct is what the runs of section 3 check.

## 2. Modules

| Module | Models | Checked by |
|---|---|---|
| `SegmentIndex` | segment manager, tombstones, searches, kills and restarts | `segment_crash`, `segment_readers`, `segment_faults` |
| `SegmentFiles`, with `PostingLists`, `SymbolIndex`, `Languages` | the files of a segment, their writers and readers, recovery, symbol search, Status | `segment_files` |
| `ChangeFeed` | catch-up, checkpoint, watcher, detector, live thread, Reindex, users of the repository | `feed_catch_up`, `feed_live` |
| `Daemon` | sockets, processes, requests, frames, clients | `daemon_life` |
| `QueryLanguage`, with `MatchText`, `Languages`, `QueryPlan` | parser, trigrams, candidates, verification, context | `query` |
| `SearchPipeline`, `SearchSpec` | batch and streamed search; what a search promises | `search` |
| `Repositories` | registry, `init`, command line, web registry handlers | `repositories` |
| `McpServer`, `ReindexDisplay` | the server's frozen view, listings; progress | `mcp` |
| `WebPage`, `WebServer`, `Rendering` | page, readers of replies, output | `web` |

Theorems stand beside the models: `SegmentIndexProofs`, `ChangeFeedProofs`, `DaemonProofs`,
`SegmentFilesProofs`, `QueryLanguageProofs`, `SearchPipelineProofs` and `RepositoriesProofs` extend the
modules they are named after, and `ClientProofs` extends `McpServer`, `ReindexDisplay` and `WebPage`;
tlapm checks them (section 4).

### SegmentIndex

State: the directories (`dirs`, `entries`, `tomb`, and `partial`/`broken` for removals cut off by a
kill), the manager's memory (`published`, `nextId`, the tombstone caches), the operation that holds
`write_lock` (`pc`, `job`, ids to build, tombstones to write), the searches (`rsnap`, `rtodo`,
`hits`), and history (`truth`: what completed batches say the index holds; `dead`, `touched`: what
happened since a search began). A path is *suspect* when it may be live in an older version too: a
"Created" report of a path that is indexed leaves both entries alive.

Actions, in the order of the code:

* `Batch` / `FirstIndex` / `Compact` take the lock, decide what to build and tombstone, allocate ids
  (`segment_manager.rs` `apply_changes_with_budget`, `index_files_with_budget`,
  `compact_with_progress`);
* `BuildSegment`, `FailBuild`: builds run in parallel and all are awaited; `BuildsDone`,
  `BuildsFailed`: continue, or return the error and leave finished directories behind;
* `WriteTombstones`, `SetCachedTombstones`, `FailTombstones`: per segment, file first, cache next;
* `PublishChanges`, `PublishCompacted`: the ArcSwap store;
* `UnlinkFile`, `RemoveDir`, `FailRemoveDir`, `CompactionDone`: the removal of compacted inputs,
  which ignores errors;
* `TakeSnapshot`, `SearchSegment`, `FinishSearch`: a search reads its segments one at a time and
  fills the tombstone cache as it goes;
* `Crash`, `Restart`: `SegmentManager::new` opens what is there; a directory that cannot be opened
  makes it fail.

A file's content stands for its hash. The byte budget is a free choice of how to cut the files into
at most `MaxBatches` segments. `LoadTombstones` and the merge of results are those of the code.
`should_compact` is left out: compaction may start at any time. What the directories hold is in
`SegmentFiles`.

### ChangeFeed

State: the repository (`work`, `stage`, `head`; a commit is the tree it records), the index per path
(`live`: contents of its live entries, oldest first, as `SegmentIndex` keeps them), `checkpoint.json`
(`cp`), the catch-up (`cpc`, the outputs of its git commands, its `plan`), the detector (`dpc`,
`seen`), debouncer and channels (`win`, `wrx`, `tx`), the live thread (`lpc`).

* Users: `WriteFile`, `GitAdd`, `GitCommit`, `GitCheckout`; `MayAct` says in which phase of the daemon
  they do what. Once the watcher runs they cause events (`Notices`).
* Catch-up, at start or for `Reindex`: `BeginCatchUp` (fast path), `RunGit` three times at three
  moments, `FailGit` (fallback), `DetectByGit`, `DetectByHash`, `ApplyCatchUp`, `StampCatchUp`,
  `FailCatchUp`.
* Live: `GoLive`, `FailGoLive` (the daemon serves on but nobody watches), `Debounce`, `ScanGit`,
  `SendScan`, `FailScan`, `Forward`, `Poll`, `ApplyLive`, `FailLive`, `MissEvent`; after each batch
  `StampLive`, or `CompactLive` when `should_compact` is true: `compact_background` needs a runtime, the
  thread has none and panics, and the daemon serves on as after `FailGoLive` (phase `deaf`).
* `Kill`: at any step, inside `apply_changes` too (`Torn`: what `SegmentIndex` shows a restart can
  find); the idle exit is the same.

Abstractions: `apply_changes` is one step (its inside is `SegmentIndex`), so a file is read when the
batch is published; an edit between the read and the publication has its own event behind it. The
fast path's two git commands are one step. `Path` holds only files that git, the watcher and the
walker agree to see; ignored, hidden and binary files are left out. Compaction does not change what
`live` says. `Reindex` is possible once the daemon is live. The debouncer hands over its events in
order, a prefix at a time. The detector's reindex flag is left out: nothing sets it.

### SegmentFiles, PostingLists, SymbolIndex, Languages

A directory is a function from file names to contents; a file is a record of its sections, and
offsets, lengths, counts and deltas are those the code writes. `WriteFile` adds the next file of a
build (`Written`), `Rename` commits it, `OpenBuilt` publishes, `RemoveOld` removes the inputs of a
compaction file by file. `StartRecovery`, `OpenTemp`, `UnlinkTemp`, `CloseTemp`, `OpenRecovered` are the
MCP server's `recover_segments`, which holds a directory open while the daemon may rename it. `Kill`
stops the daemon anywhere; `PowerLoss` cuts one file that is never synced. zstd is a block that
decompresses whole or not at all; the parse of a file is the constant `Tree`; a content stands for
its hash. `PostingLists` has integers of bounded width (`MaxU32`) in base `Base`.
The tables of `Languages` (extensions, names, kinds, captures, the classes of languages) are those
of `types.rs`, `query.rs` and `grammar.rs`.

### Daemon

A client runs `ensure_daemon` (connect, spawn, poll) and then its request; `Kind` says whether it is a
command or the MCP client, which keeps its stream and retries once. A daemon binds, catches up,
serves and leaves on its idle timer (`IdleTimeout`), removing whatever socket file is there. Each
request handler is described by when it loads the caught-up flag, its payload, whether it may fail
and whether it may drop its connection. Daemons also die without a word (`MaxDeaths`).

### QueryLanguage, MatchText, QueryPlan

Init picks a corpus and the tokens of a query, or the flags of a command-line search. One action per
step of the parser, then of `extract_query_trigrams`, then one per candidate. The grammar has no
parentheses, so a tree is a sequence of sequences. A regular expression is the disjunction of its
branches with the literals each begins and ends with. `Means` is the reference: what the table of the
syntax in `query.rs` says. `QueryPlan` holds the planner and the pattern search's literal prefix, which
no binary calls; the assumption `PlansPruneNothing` of `MCQueryLanguage` compares them with a matcher
for 4096 patterns.

### SearchPipeline and SearchSpec

Batch: one worker per segment looks at the budget, searches, takes from the budget match by match;
`Merge` ranks and cuts, `SendPage` answers. Stream: search thread, bridge and writer with the two
unbounded channels between them; the client may leave. `SearchSpec` is the abstract search: it
reports matching paths, each once and within the limit, and when it ends it has missed nothing short of the
limit. `KeepsPromise` is the refinement: `SearchSpec` instantiated with what has been reported. A match
is a position in a segment (`found`, `tagged`); sorts are listings of a set of positions in the order
the code compares by (`Before`, `InOrder`). The merge keeps one match per path (`Winners`): that of the
newest segment, and in it the first.

### Repositories

Processes are commands or web handlers; each has a program counter. A save opens and truncates the
shared temporary file, writes it and renames it, with other processes in between; a handle follows
the file it was opened for. `init` walks, filters, reads, builds, writes the checkpoint and registers.

### McpServer, ReindexDisplay, WebPage, WebServer, Rendering

`McpServer`: the daemon writes a batch's segment (`ApplyChanges`), then the tombstones of the old copies,
segment by segment (`WriteTombstones`); a compaction writes its segment (`Compact`) and then empties and
removes the old directories, oldest first (`UnlinkFile`, `RemoveDirectory`). Of a directory's files two
kinds matter: `tombstones.bin`, without which it opens and has no tombstones, and those without which it
does not open. The server lists the directories once (`RunMcp`; one that appears meanwhile may be
listed too, `ListLate`), opens or misses them one by one (`OpenEntry`), and reads each segment's
tombstones when a call first needs them (`LoadTombstones`), all beside the daemon's steps.
`ReindexDisplay`: workers take
numbers and send them later. `WebPage`: one request per element, answers in any order, failures; htmx
is external and modelled from the attributes the templates use. `WebServer` and `Rendering` are
operators, applied to every small input by `MCWeb`.

## 3. Runs

Bounds are constants named in the modules. `CHECK_DEADLOCK FALSE` is set where the system really
rests: an index without more work, a daemon that only waits, a query that is answered.

| Run | Bounds | Shows |
|---|---|---|
| `segment_crash` | 2 paths, 2 contents, 4 segment ids, 3 operations of up to 2 segments, 1 kill; 725 633 states | After every completed batch or compaction, and after a restart from the directories, a search answers with the last version of every file and of no other. |
| `segment_readers` | 2 paths, 2 contents, 3 segment ids, 3 operations of 1 segment, 1 search, no kill; 794 019 states | A search that began before a batch returns nothing deleted before it began, and the unchanged answer of every file nobody touched; tombstones only grow. |
| `segment_faults` | 2 paths, 2 contents, 3 segment ids, 3 operations of up to 2 segments, 2 I/O errors, 2 kills, also inside a removal; 3.3 M states with symmetry | A file whose content only changes has a live copy in an undamaged directory, whichever builds, tombstone writes and removals fail. |
| `feed_catch_up` | 1 path, 3 user actions, 1 fault, 1 kill; 7.4 M states with symmetry | A catch-up that completes has indexed every steady path. |
| `feed_live` | 1 path, 2 user actions, 1 Reindex; 1.3 M states | While the live thread runs, the last report on its way agrees with the file, and what was reported is indexed in the end; a compaction that comes due may end the thread after any batch. |
| `daemon_life` | an MCP server with 2 requests and a command, 2 daemons, 1 death; 197 021 states | Answers belong to their requests and are fresh unless marked stale; nothing is executed twice; every request ends; a daemon that lost its socket leaves. |
| `query` | every input of up to 3 tokens, flags, longer inputs that reach the cap of 3 branches, 2 corpora; 40 766 states | The tree is what was written, plain queries return exactly the files they mean, matches stand where they are shown. Its `ASSUME PlansPruneNothing` says that no plan discards a file that matches. |
| `search` | 6 snapshots of up to 3 segments, pages of 2; 40 614 states | Both pipelines implement `SearchSpec`, pages are full, a client that stays receives everything, and every search ends. |
| `segment_files` | 1 build, 1 crash, 1 tombstone, 1 recovery, 3 starts; 425 406 states | What is read back from the bytes is what was indexed; committed segments stay whole, and a start opens them with every tombstone; symbol searches and Status are true. |
| `repositories` | 2 repositories of one name, 2 processes, 3 commands, 1 edit, 1 kill; 673 648 states | The registry keeps what finished commands made of it; the web server's map agrees; nothing excluded is indexed. |
| `web` | 2 repositories (1 registered), pages of 2, 7 user actions, requests that fail or arrive late; 1.07 M states | Keys open what is highlighted, the page shows what its form says, all readers of a reply agree, and what is printed is what was found. |
| `mcp` | 2 paths, 2 languages, 4 batches and compactions, 1 call, 2 files for the display; 1 804 587 states | A server shows the index of its start although it opens and reads it beside the daemon, the directories list the index in the middle of every batch and removal, all listings and counts of one list of segments agree, and the reindex display shows one indicator. |

Why the bounds are enough: one path shows every single-file history, a second is there where files
interact (batches of several segments, files nobody touches, two live copies). Two contents tell a
new version from an old one. One kill and one restart reach every pair of interrupted step and
recovery. Two daemons are the least that can take a socket from each other, two processes the least
that can lose an update. Query inputs reach every rule of the parser and the cap on branches, which
is 3 instead of 64. Integers have one or two digits, so that every boundary is crossed.

A *steady* path (`ChangeFeed!Steady`) is one whose indexed version was the checkpoint commit's when
the catch-up began, that has no staged change, and that no user touched since; with the hash
fallback every untouched path is steady. Where a path is not steady git cannot know better. `lost`
holds the paths `NoChangeLost` and `EventuallyIndexed` exempt: changed before the watcher ran, event
missed, batch failed, or deleted by a stale Reindex. Both feed runs have `.ferret_index` ignored
(`IndexDirIgnored`); without it, every batch produces events of its own and the state space has no
useful bound.

Where the code is known not to keep a promise (see the findings), the property names the condition
under which it does: `~raced` and `~torn` in `CommittedStay`, `~overlapped` and `~crossed` in
`RegistryKept`, `Plain` and `~capped` in `NothingMissed`, `NeverEmpty` in `MatchesWhereShown` and
`LinesShownOnce`, `trusted` in `ShowsWhatWasAsked`, `missed \subseteq atStart.removing` and `lost = {}` in
`ViewIsOfTheStart`, a lost `tombstones.bin` in `ListingIsTrue`, a live thread that runs in `NoChangeLost` and
`EventuallyIndexed`, paths without two live copies in `KeepsPromise` for batch searches and in `PagesFull`.

Fairness. `ChangeFeed!FairSpec`: of the catch-up, the detector, the live thread (each a
loop that waits for nothing but its channel; the live thread's next step may be the one that ends it),
the debouncer's and the poll's timers. `Daemon`: of each
daemon's and handler's steps, of clients, which poll with a bounded number of tries, and of the idle
timer. `SearchPipeline`: of workers, merge, search thread, bridge and writer; none of them waits for a
lock. Nothing is assumed of users, faults, kills, or of clients that leave.

## 4. Proofs

Each theorem holds for every value of the constants that satisfies the assumption of its module. The
assumptions name types and bounds, and beyond that only: paths and known repositories are finite; a
text content is none of the special contents (`nul`, `large`, `denied`) the file filter turns away; the
repositories known at the start have different names, as the registry requires; a repository's button
is no other element of the page. TLC also
finds every inductive invariant true in all states of the runs of section 3 (that of `SegmentFiles` on
a smaller instance, named below).

### SegmentIndex

`SegmentIndexProofs`:

* `TypeCorrect`: `Spec => []TypeOK`. Inductive as it stands; the work is in the choices of `Allocate`
  (sequences cut into segments) and of compaction.
* `TombstonesNeverLost`: `Spec => TombstonesGrow`. Rests on `TombstoneInv`: a segment about to be
  removed has its cache filled, and a set about to be cached includes the one already there. That
  is why a missing `tombstones.bin`, which the code reads as "no tombstones", does no harm.
* `DeletedStaysDeleted`: `Spec => []NoResurrection`. From the first, with `DeadStaysDead`: what was
  dead at a search's snapshot is in what its segment would load now.
* `ListCorrect`: `Spec => []ListMatchesDisk`. `ListInv` adds what the operation in progress holds:
  its new ids lie below the counter and outside the list, and the directories it removes are no
  longer listed.

Its second half compares the index with what completed batches say it holds:

* `SearchesAreStable`: `Spec => []UntouchedFilesStable`. `StableInv`: for a path no batch touched since
  the snapshot, what the search has collected and what it is still to find make up the answer of the
  snapshot. It needs `DoomedInv` (a batch tombstones its own paths only) and `AgreeInv` (file and cache
  of a listed segment say the same, except between the two writes).
* `SearchesFindTruth`: `Spec => [](Undamaged => QueriesSeeTruth)`. `TruthInv` has three parts: what the list holds is the truth
  for every path not being tombstoned (`BaseTrue`); the list with the new segments and all planned
  tombstones is what the batch announced (`PlanTrue`); directories outside the list say nothing new
  (`DiskInv`). `FreshInv` says that a compaction's new segments hold what the old ones hold.
* `RestartFindsTruth`: `Spec => [](Clean => RestartSeesTruth)`, from `DiskInv`.
* `FilesStayOnDisk`: `Spec => []FilesSurvive`, with every fault and every kill. After a fault the
  directories may hold entries they should not, so that only one half of `TruthInv` is kept: the entries
  that must be there are. `KeepBase`: the list has the old version of every file the batch at work has not
  begun to bury; `KeepPlan`: the list with the new segments, without all the copies to be buried, has the
  new one; `KeepDisk`: while no process runs, the undamaged directories have what completed batches say.
  `BrokenInv`: a directory damaged by a kill inside its removal is one the list no longer names.

In `SearchesFindTruth` and `RestartFindsTruth`, `Clean` (no I/O error so far, no kill inside `remove_dir_all`) and
`Undamaged` (no kill so far, or `Clean`) are not conveniences: a failed build or a half-removed directory may be opened by the next
start (section 5). All other kills, at every step of every operation, are covered.

### SegmentFiles

* `CommitsAreWhole`: `Spec => []CommittedStay`, and for every byte of the directory but the tombstones
  `CommitsAreAsBuilt`: `Spec => []CommittedAsBuilt`. `FreshInv`:
  a directory under a temporary name, or one a recovery still has on its list, carries the id and the
  process of a build that is over or the id and the process of the one at work, so that the next build
  finds its name unused, although a restart may give an id out again. `ApartInv`: a recovery that met no
  build never gets hold of a build's directory, and what it holds open is still under its temporary
  name. `ProgressInv`: the directory of a build has the files of the stages before, as `Built` has
  them. `CommitInv`: what is left of a directory is what was built, and all of it is left unless it is being
  removed. The bytes of a file are whatever the writers of section 2 make of the inputs: the theorem
  holds for any inputs, names, trees and numbers of builds, crashes, tombstones and recoveries. It assumes
  of the segments found at the start only that their ids are numbers and that they are finitely many.
  Comparing all bytes in every state is too slow for the run `segment_files`; TLC finds the invariant
  true on one small file with 2 builds, 2 crashes and 1 recovery (1 702 395 states).

### ChangeFeed

* `StartCatchesUp`: `Spec => []CaughtUp`. `CatchInv` says of each steady path what the catch-up knows
  in each of its states: which command will print it or has printed it (`Knows`), that the plan has a
  fitting change for it or it is indexed as it is, and at the end that it is. `MergedKnows` is the heart:
  the three outputs of git together leave out no path that differs from its entry, although edits fall
  between the commands.
* `ChangesAreReported`: `Spec => []NoChangeLost`. `ReportInv` follows the last report of a path through
  the debouncer, the detector's channel, a scan under way and the live thread's channel (`Heard`): where
  the later stations are silent, the earlier one agrees with the file. It says nothing of a daemon whose
  live thread has ended (`CompactLive`).

Both need `QuietInv`: which threads and queues rest in which phase.

### Daemon

* `AnswersAreOwn` (`[]AnswersMatch`), `FreshAnswers` (`[]FreshUnlessStale`), `AnsweredOnce` (`NotRepeated`).
  One invariant, `StreamInv`, of each client's stream: it is empty unless the client reads; all frames
  carry the current request; the frame that ends an answer is the last, and nobody is at work behind it; a
  `Done` of a handler that loads `caught_up` first is stale or fresh.

### QueryLanguage

`QueryLanguageProofs` proves all five properties, for every alphabet, corpus and input the two
assumptions `TextAssumption` and `QueryAssumption` allow: types of tokens and files, letters equal under
ASCII folding are equal under the matcher's, and lossy decoding leaves valid text alone.

* `NothingMissedHolds` (`[]NothingMissed`) and `OnlyMatchesHolds` (`[]OnlyMatches`). `ExtractInv`: every
  disjunct already extracted left a set of trigrams behind, or made the query unprunable, and every
  file that satisfies the disjunct has all trigrams of one of the sets; for the disjunct at work the
  same of its terms up to `ti` (`NotExcluded`). It rests on lemmas about the operators: the trigrams
  of a text found in a content are trigrams of the content, also after folding; so are those of the
  literals a branch of a regular expression begins or ends with; and the product of two lists of sets
  (`Merge`) loses none. `VerifyInv`: a candidate not yet verified is neither lost nor in the answer.
* `ParsedAsWrittenHolds` (`[]ParsedAsWritten`). `ParseInv` says that the tree so far is the tree of the
  tokens before `pos` (`TreeOf`), with the negations and the `case:` flag read since.
* `MatchesWhereShownHolds` and `LinesShownOnceHolds`. Arithmetic of byte offsets, lines and columns:
  the line of an offset is the one with the last newline before it, lines do not overlap, and the groups
  of hit lines are the classes of a chain of gaps of at most `2c + 1`, so the context of one group never
  reaches into another.

The recursive functions of the model (the leftmost matches, the keyword of a token) are reasoned about
without induction on data: the least position at which a claim about them fails is shown not to exist.

### SearchPipeline

* `SearchKeepsPromise`: `Spec => KeepsPromise`, the refinement of `SearchSpec`: initial states map to
  initial states and every step to a step or a stutter. For batches: matches tagged and budget left add
  up to the limit, and `Accounted` says of every worker that it covers all its matches or that the budget
  will be used up; this is why a worker that looks at the budget too early or too late does no harm. For
  streams: what was sent is live and each path once, and segments passed are sent completely.
* `PagesAreFull`: `Spec => []PagesFull`. `PageInv`: the merged list has as many files as match, or the
  limit. Both hold for batch searches where no path has two live copies, as the properties say.
* `ClientReceivesAll`: `Spec => []ClientGetsAll`. `ClientInv`: what the client has, with the frames and
  the messages in the two channels, is the lines of the files sent, in order; a channel whose sender ended
  is empty before its receiver ends.

Sorting and counting are proved from listings of finite sets and the cardinality theorems, not by
induction over the code's sort.

### Repositories

* `InitIndexesFiltered`: `Spec => []IndexedAsFiltered`. `QuietBuild` says how far an `init` that no edit
  and no other `init` of its repository disturbed has come: what was read is the tree's, what is left
  to read is listed, and the index and the checkpoint follow from what was read.
* `RegistryIsKept`: `Spec => []RegistryKept`. `SaveInv`: without overlaps the temporary file belongs to
  the one process that saves, and holds nothing or its configuration; a configuration whose registry
  has not changed since it was loaded is that command's change of it.
* `ServerKnowsRegistry`: `Spec => []ServerAgrees`. `MapInv`: the map with the change of the one handler
  between save and update is the registry.

### McpServer, ReindexDisplay and WebPage

`ClientProofs`:

* `ServerShowsItsStart`: `Spec => []ViewIsOfTheStart`, and `DiskListsTruth`: `Spec => []ListingIsTrue`, for any
  finite set of paths (0, which stands for "not indexed", is none of them) and any number of changes and
  calls. `DiskInv`: every indexed file has a *home*, the newest segment with a copy of it, live, current, and
  not due to be buried or removed; every other live copy is due to be buried by the batch at work or says
  the same; only directories about to be removed have lost files. This is why a compaction may remove its
  inputs file by file, and a batch bury copies one segment at a time. `StartInv`: what is known of the files
  no batch has touched since the server started, and of the others. `ViewInv`: for each file that was left
  alone there is a segment, listed and not yet opened or opened already, from which the server shows it
  in its version of then (`ShowsStart`), also when tombstones are read late or never, because no newer
  segment disagrees; and while no tombstones were lost, what the server would show is right, by the copies
  on disk for the tombstones it has yet to read. `IndexStep` is what any step of the daemon may do to the
  directories as far as the server can see; that every action is one, and that none disturbs `ViewInv`, are
  separate lemmas.
* `ShowsOneIndicator`: `DisplaySpec => []OneIndicator`, for any number of files and any order in which
  workers send their numbers. The invariant adds which numbers can still be on their way in which phase.
* `EnterOpensHighlighted`: `Spec => []OpensWhatIsSelected`, and `PageShowsForm`:
  `Spec => []ShowsWhatWasAsked`. The invariant relates the results shown, the selection, the form, the
  address and the request under way of each element, for as long as the page is `trusted`.

### What stays with TLC

* Liveness under fairness: `EventuallyIndexed`, `EveryRequestEnds`, `OrphansLeave`,
  `SearchEnds`.
* What folds compute for every input, which needs induction over data: `SameAnswer` and
  `RenderedFaithfully` of `MCWeb`, `ListingsAgree` of `McpServer` (counts of a flattened listing), and in
  `SegmentFiles` the reading back of encoded bytes (`ReadsTrue`, `SymbolsFound`, `StatusTrue`).

## 5. Findings

`PROJECT.json` lists where the code and its documents disagree, each with the quoted line. The ones that
lose data: a changed file is skipped after a kill because the checkpoint runs ahead of the queue; a
Reindex deletes a file that came back; staged changes are invisible to the catch-up; the MCP server's
start can damage a build of the daemon; concurrent commands lose registry entries; the first compaction
that comes due after a live batch ends live indexing. The ones that
lose matches: negated filters, more than 64 branches. Consequences seen on the way and not listed
there: a path that is live twice ends up twice in one segment after a compaction, where `GetFile`
finds the older entry; a restart after a kill inside `remove_dir_all` may publish the half-removed
directory; an MCP server that starts while a compaction writes its segment and lists only the inputs may
find them gone when it opens them, and lacks their files until it is restarted; one that reads the
tombstones of a segment only after a compaction has removed it, or any reader of a directory that has
lost `tombstones.bin` and still opens, shows deleted files; an empty `tombstones.bin` after a power loss means no tombstones; from segment id 10000 on
directories are loaded out of order, and a streamed search then prefers the older copy; several
`lang:` or `path:` filters are alternatives; two requests for different elements of the page may leave
the older answer on it; a stream with limit 0 sends one file; `init` of a second repository with the
same base name does not register it and says nothing; an empty phrase (`""`) matches behind the last
newline, and that match is shown on a line the file does not have (`verify.rs:33`: "A trailing newline
does not add an extra empty line").

## 6. Plan

1. Done: all modules of section 2.
2. Done: the theorems of section 4.
3. Open: a Reindex beside the start-up catch-up (`daemon.rs:1437`), if the catch-up's state can be made small
   enough for two of them.

## 7. Not modelled

tree-sitter's parsing, zstd, the ignore rules, regular expressions beyond their literals, htmx and
git are external: constants, or operators that say how ferret uses them. Text for people (wording,
colours, sizes in bytes, `status` and `estimate` output, templates' layout), embedded assets,
re-exports and error types have no state. The progress of `init` is not shown. Floating-point scores
are hundredths. `should_compact`'s thresholds only decide when a compaction starts or the live thread
ends, which the models leave open. The lexer's characters below a token are abstracted, and so is the JSON of requests.
