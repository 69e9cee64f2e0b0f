----------------------------- MODULE McpServer -----------------------------
(***************************************************************************)
(* The MCP server and the listings of the command line (ferret-cli/src/    *)
(* mcp/mod.rs, server.rs, resources.rs, errors.rs, formatter.rs; files.rs, *)
(* status.rs).                                                             *)
(*                                                                         *)
(* The server lists the segments directory once, when it starts, and opens *)
(* what it found one by one.  Its resources and index_status read that     *)
(* list for as long as it lives; a segment's tombstones are read from disk *)
(* when they are first needed and kept.  Meanwhile the daemon changes the  *)
(* index on disk: a batch writes a segment before it buries the old        *)
(* copies, segment by segment, and a compaction writes the merged segment  *)
(* before it removes the directories of the old ones, file by file.  The   *)
(* tools that search go to the daemon.                                     *)
(*                                                                         *)
(* This module has one segment per batch and per compaction, and no path   *)
(* with two live copies but those of a batch at work: budgets, errors,     *)
(* kills and restarts of the daemon are SegmentIndex's.                    *)
(***************************************************************************)
EXTENDS Naturals, Sequences, FiniteSets, SequencesExt

CONSTANTS
  Paths,       \* files of the repository, as natural numbers: their order is the order of the listing
  Language,    \* Language[p], which follows from the path alone
  Languages,   \* languages a filter may name
  MaxChanges,  \* batches and compactions of the daemon
  MaxCalls     \* calls of the server's tools and resources

ASSUME McpServerAssumption ==
  /\ Paths \subseteq Nat \ {0} /\ IsFiniteSet(Paths) /\ Language \in [Paths -> Languages]
  /\ MaxChanges \in Nat /\ MaxCalls \in Nat

VARIABLES
  disk,      \* disk[id]: a directory: its entries (path to version), the tombstones written to it,
             \* and which of its files a removal has unlinked
  daemon,    \* the batch or compaction at work, the segments it has yet to bury in or to remove,
             \* and the paths it changes
  truth,     \* truth[p]: the version of p the index stands for, 0 for none
  changes,   \* batches and compactions so far: the ids of their segments, and the versions
  pending,   \* directories the starting server has listed and not opened yet
  list,      \* list[id]: the entries of a segment the server opened
  cache,     \* cache[id]: the tombstones the server has read
  call,      \* the call at work, and the segments whose tombstones it has yet to ask for
  calls,
  up,        \* the server runs
  atStart,   \* when the server started: truth, the directories being removed, the paths being changed
  touched,   \* paths a batch has begun to change since then
  missed,    \* listed directories that could not be opened
  lost,      \* segments whose tombstones.bin was removed before the server read it
  answer     \* the answer of the tool at work

index  == <<disk, daemon, truth, changes>>
server == <<pending, list, cache, call, calls, up, atStart, missed, lost, answer>>
vars   == <<index, touched, server>>

Nothing   == [i \in {} |-> {}]
Idle      == [is |-> "idle", ids |-> {}, paths |-> {}]
NoCall    == [is |-> "none", left |-> {}]
NotLoaded == {0}        \* 0 is not a path
NotStarted == [truth |-> [p \in Paths |-> 0], removing |-> {}, changing |-> {}]

\* What remove_dir_all may unlink first: the tombstones, or a file that Segment::open needs.
Part == {"tombstones", "required"}

Directory(entries) == [entries |-> entries, dead |-> {}, gone |-> {}]
Live(s) == DOMAIN s.entries \ s.dead

\* load_tombstones_from_disk: a file that is not there is no tombstones.
TombstonesOf(directory) == IF "tombstones" \in directory.gone THEN {} ELSE directory.dead

\* The segments of the directories that can be opened now.
OnDisk ==
  [i \in {j \in DOMAIN disk : "required" \notin disk[j].gone} |->
     [entries |-> disk[i].entries, dead |-> TombstonesOf(disk[i])]]

-----------------------------------------------------------------------------
(* Listings of segments; a higher id is newer. *)

LiveIn(segments, p)  == {i \in DOMAIN segments : p \in Live(segments[i])}
LivePaths(segments)  == UNION {Live(segments[i]) : i \in DOMAIN segments}

\* Dropping a path for good once an older segment has buried it.
NewestLiveUnlessBuried(segments) ==
  [p \in {q \in LivePaths(segments) : \A i \in DOMAIN segments : q \notin segments[i].dead} |->
     segments[Max(LiveIn(segments, p))].entries[p]]

\* collect_live_paths and read_file: from the newest segment, the first live copy of a path.
NewestLive(segments) ==
  [p \in LivePaths(segments) |-> segments[Max(LiveIn(segments, p))].entries[p]]

ReadTree(segments)    == SetToSortSeq(DOMAIN NewestLive(segments), <)
ReadFile(segments, p) == IF p \in DOMAIN NewestLive(segments) THEN {NewestLive(segments)[p]} ELSE {}

\* The sum of a count over all segments.
Total(count(_), segments) == FoldFunction(+, 0, [i \in DOMAIN segments |-> count(segments[i])])

\* read_status, read_repo_status, the language breakdown of `ferret status`: every live copy counts.
ReadStatus(segments) ==
  [segments   |-> Cardinality(DOMAIN segments),
   files      |-> Total(LAMBDA s : Cardinality(Live(s)), segments),
   tombstoned |-> Total(LAMBDA s : Cardinality(s.dead \cap DOMAIN s.entries), segments)]

LanguageBreakdown(segments) ==
  [l \in Languages |-> Total(LAMBDA s : Cardinality({p \in Live(s) : Language[p] = l}), segments)]

\* index_status and the segment summary subtract the number of tombstones.
IndexStatus(segments) ==
  LET entries == Total(LAMBDA s : Cardinality(DOMAIN s.entries), segments)
      dead    == Total(LAMBDA s : Cardinality(s.dead), segments)
  IN  [segments |-> Cardinality(DOMAIN segments),
       files |-> IF dead > entries THEN 0 ELSE entries - dead, tombstoned |-> dead]

\* format_file_list: how many there are, and which of them the page has when it has not all.
FormatFileList(total, page, offset) ==
  [total |-> total, page |-> page,
   showing |-> IF offset = 0 /\ Len(page) = total THEN <<1, total>> ELSE <<offset + 1, offset + Len(page)>>]

\* search_files_direct: newest first, a path is decided by the first live copy; then a page of the
\* paths that have one.
SearchFilesDirect(live, wanted, offset, max) ==
  LET all == SetToSortSeq(DOMAIN live \cap wanted, <)
      end == IF offset + max < Len(all) THEN offset + max ELSE Len(all)
  IN  FormatFileList(Len(all), SubSeq(all, offset + 1, end), offset)

\* collect_files: oldest first, filtered, and the copy of the highest segment id is kept.
CollectFiles(segments, wanted) ==
  FoldLeft(LAMBDA seen, i :
             LET s == segments[i]
             IN  [p \in DOMAIN seen \cup (Live(s) \cap wanted) |->
                    IF p \in Live(s) \cap wanted /\ (p \notin DOMAIN seen \/ seen[p].id < i)
                    THEN [id |-> i, version |-> s.entries[p]] ELSE seen[p]],
           Nothing, SetToSortSeq(DOMAIN segments, <))

-----------------------------------------------------------------------------
(* The tools that go to the daemon. *)

Says(is, warning) == [is |-> is, warning |-> warning]
NoAnswer          == Says("nothing", FALSE)
Invalid           == Says("invalid parameter", FALSE)
Failure           == Says("error", FALSE)

\* A daemon's reply: an error is reported, nothing found is said, a stale index is warned about.
ToolAnswer(reply) ==
  IF reply.error THEN Failure
  ELSE IF reply.total = 0 THEN Says("no results", FALSE)
  ELSE Says("text", reply.stale)

KnownLanguage(l) == l \in Languages \cup {"any"}      \* match_language; "any" for no filter

\* search_code: numbers out of range are refused.
SearchCode(context, max, reply) ==
  IF context > 10 \/ max \notin 1 .. 100 THEN Invalid ELSE ToolAnswer(reply)

\* search_files: too many are cut to 200, none are refused.
SearchFiles(max, language, reply) ==
  IF max = 0 \/ ~KnownLanguage(language) THEN Invalid ELSE ToolAnswer(reply)

\* search_symbols: the number is brought into range.
SearchSymbols(kind, language, reply) ==
  IF kind = "unknown" \/ ~KnownLanguage(language) THEN Invalid ELSE ToolAnswer(reply)

\* reindex: the daemon's text, whatever it found.
Reindex(reply) == IF reply.error THEN Failure ELSE Says("text", FALSE)

-----------------------------------------------------------------------------
(* The daemon, as far as the files on disk show it. *)

\* apply_changes: files W are created or changed and D deleted.  A new segment first; then the
\* segments with a live copy of one of them are due for tombstones.
ApplyChanges(W, D) ==
  LET due == {i \in DOMAIN disk : Live(disk[i]) \cap (W \cup D) # {}}
  IN  /\ daemon = Idle /\ changes < MaxChanges
      /\ W \cup D # {} /\ W \cap D = {} /\ \A p \in D : truth[p] # 0
      /\ changes' = changes + 1
      /\ disk' = IF W = {} THEN disk
                 ELSE [i \in DOMAIN disk \cup {changes'} |->
                         IF i = changes' THEN Directory([p \in W |-> changes']) ELSE disk[i]]
      /\ daemon' = IF due = {} THEN Idle ELSE [is |-> "tombstone", ids |-> due, paths |-> W \cup D]
      /\ truth' = [p \in Paths |-> IF p \in W THEN changes' ELSE IF p \in D THEN 0 ELSE truth[p]]
      /\ touched' = touched \cup W \cup D
      /\ UNCHANGED server

\* One segment less to do; with the last one the write lock is released.
Finished(id) ==
  daemon' = IF daemon.ids = {id} THEN Idle ELSE [daemon EXCEPT !.ids = @ \ {id}]

Bury(i) == [disk[i] EXCEPT !.dead = @ \cup (daemon.paths \cap DOMAIN disk[i].entries)]

\* Burying the copies just written as well.
WriteTombstonesEverywhere(id) ==
  /\ daemon.is = "tombstone" /\ id \in daemon.ids
  /\ disk' = [i \in DOMAIN disk |-> Bury(i)] /\ Finished(id)
  /\ UNCHANGED <<truth, changes, touched, server>>

\* The tombstones of one segment.
WriteTombstones(id) ==
  /\ daemon.is = "tombstone" /\ id \in daemon.ids
  /\ disk' = [disk EXCEPT ![id] = Bury(id)] /\ Finished(id)
  /\ UNCHANGED <<truth, changes, touched, server>>

\* compact: the live copies in a new segment, if there are any; then the old directories are due.
Compact ==
  LET merged == NewestLive(disk)
  IN  /\ daemon = Idle /\ changes < MaxChanges
      /\ Cardinality(DOMAIN disk) > 1 \/ \E i \in DOMAIN disk : disk[i].dead # {}
      /\ changes' = changes + 1
      /\ disk' = IF DOMAIN merged = {} THEN disk
                 ELSE [i \in DOMAIN disk \cup {changes'} |->
                         IF i = changes' THEN Directory(merged) ELSE disk[i]]
      /\ daemon' = [is |-> "remove", ids |-> DOMAIN disk, paths |-> {}]
      /\ UNCHANGED <<truth, touched, server>>

\* remove_dir_all, the oldest directory first: a file, then in the end all of it.
NextToRemove(id) == daemon.is = "remove" /\ id \in daemon.ids /\ \A other \in daemon.ids : id <= other

UnlinkFile(id, part) ==
  /\ NextToRemove(id) /\ part \notin disk[id].gone
  /\ disk' = [disk EXCEPT ![id].gone = @ \cup {part}]
  /\ UNCHANGED <<daemon, truth, changes, touched, server>>

RemoveDirectory(id) ==
  /\ NextToRemove(id)
  /\ disk' = [i \in DOMAIN disk \ {id} |-> disk[i]] /\ Finished(id)
  /\ UNCHANGED <<truth, changes, touched, server>>

-----------------------------------------------------------------------------
(* The server. *)

\* run_mcp and recover_segments: the directories of this moment are listed.
RunMcp ==
  /\ ~up
  /\ up' = TRUE /\ pending' = DOMAIN disk
  /\ list' = Nothing /\ cache' = Nothing
  /\ atStart' = [truth |-> truth, removing |-> IF daemon.is = "remove" THEN daemon.ids ELSE {},
                 changing |-> IF daemon.is = "tombstone" THEN daemon.paths ELSE {}]
  /\ touched' = {} /\ missed' = {} /\ lost' = {}
  /\ UNCHANGED <<index, call, calls, answer>>

\* A directory that appears while read_dir is read may be listed too.
ListLate(id) ==
  /\ pending # {} /\ id \notin pending \cup DOMAIN list \cup missed
  /\ pending' = pending \cup {id}
  /\ UNCHANGED <<index, touched, list, cache, call, calls, up, atStart, missed, lost, answer>>

\* One listed directory: it is opened, or skipped when it is gone or incomplete.
OpenEntry(id) ==
  /\ pending' = pending \ {id}
  /\ IF id \in DOMAIN OnDisk
     THEN /\ list' = [i \in DOMAIN list \cup {id} |-> IF i = id THEN disk[id].entries ELSE list[i]]
          /\ cache' = [i \in DOMAIN cache \cup {id} |-> IF i = id THEN NotLoaded ELSE cache[i]]
          /\ UNCHANGED missed
     ELSE missed' = missed \cup {id} /\ UNCHANGED <<list, cache>>
  /\ UNCHANGED <<index, touched, call, calls, up, atStart, lost, answer>>

\* The server answers once it has opened everything.
Ready == up /\ pending = {} /\ call = NoCall /\ calls < MaxCalls

\* A resource or index_status begins to go through the segments.
Call(what) ==
  /\ Ready
  /\ calls' = calls + 1
  /\ call' = [is |-> what, left |-> DOMAIN list]
  /\ UNCHANGED <<index, touched, pending, list, cache, up, atStart, missed, lost, answer>>

\* Files are looked up from the newest segment on, numbers are summed from the oldest.
NextToLoad(id) ==
  /\ id \in call.left
  /\ \A other \in call.left : IF call.is = "status" THEN id <= other ELSE id >= other

Gone(id) == id \notin DOMAIN disk \/ "tombstones" \in disk[id].gone

\* A tombstone file that is gone hides all of the segment's entries.
LoadTombstonesOrHide(id) ==
  /\ NextToLoad(id)
  /\ cache' = [cache EXCEPT ![id] = IF @ # NotLoaded THEN @ ELSE IF Gone(id) THEN Paths ELSE disk[id].dead]
  /\ lost' = IF cache[id] = NotLoaded /\ Gone(id) THEN lost \cup {id} ELSE lost
  /\ call' = [call EXCEPT !.left = @ \ {id}]
  /\ UNCHANGED <<index, touched, pending, list, calls, up, atStart, missed, answer>>

\* load_tombstones: from the cache, else from the directory; a file that is not there is no tombstones.
LoadTombstones(id) ==
  /\ NextToLoad(id)
  /\ cache' = [cache EXCEPT ![id] = IF @ # NotLoaded THEN @ ELSE IF Gone(id) THEN {} ELSE disk[id].dead]
  /\ lost' = IF cache[id] = NotLoaded /\ Gone(id) THEN lost \cup {id} ELSE lost
  /\ call' = [call EXCEPT !.left = @ \ {id}]
  /\ UNCHANGED <<index, touched, pending, list, calls, up, atStart, missed, answer>>

\* A lookup goes through all segments, or, for one file, to the one that has it.
Return ==
  /\ call # NoCall /\ (call.left = {} \/ call.is = "lookup")
  /\ call' = NoCall /\ answer' = NoAnswer
  /\ UNCHANGED <<index, touched, pending, list, cache, calls, up, atStart, missed, lost>>

\* A call of one of the tools, and what the daemon replied if it was asked.
CallTool(reply) ==
  /\ Ready
  /\ calls' = calls + 1 /\ call' = [is |-> "tool", left |-> {}]
  /\ \/ \E context \in {2, 11}, max \in {0, 20, 101} : answer' = SearchCode(context, max, reply)
     \/ \E max \in {0, 30, 201}, l \in Languages \cup {"any", "unknown"} : answer' = SearchFiles(max, l, reply)
     \/ \E kind \in {"any", "unknown"}, l \in Languages \cup {"any", "unknown"} : answer' = SearchSymbols(kind, l, reply)
     \/ answer' = Reindex(reply)
  /\ UNCHANGED <<index, touched, pending, list, cache, up, atStart, missed, lost>>

Stop ==
  /\ up /\ call = NoCall
  /\ up' = FALSE /\ pending' = {} /\ list' = Nothing /\ cache' = Nothing
  /\ atStart' = NotStarted /\ touched' = {} /\ missed' = {} /\ lost' = {}
  /\ UNCHANGED <<index, call, calls, answer>>

Replies == [error : BOOLEAN, total : 0 .. 1, stale : BOOLEAN]

Init ==
  /\ disk = Nothing /\ daemon = Idle /\ truth = [p \in Paths |-> 0] /\ changes = 0
  /\ pending = {} /\ list = Nothing /\ cache = Nothing /\ call = NoCall /\ calls = 0 /\ up = FALSE
  /\ atStart = NotStarted
  /\ touched = {} /\ missed = {} /\ lost = {}
  /\ answer = NoAnswer

DaemonStep ==
  \/ \E W, D \in SUBSET Paths : ApplyChanges(W, D)
  \/ Compact
  \/ \E id \in DOMAIN disk :
       \/ WriteTombstones(id)
       \/ \E part \in Part : UnlinkFile(id, part)
       \/ RemoveDirectory(id)

ServerStep ==
  \/ RunMcp \/ Stop \/ Return
  \/ \E id \in DOMAIN disk : ListLate(id)
  \/ \E id \in pending : OpenEntry(id)
  \/ \E what \in {"lookup", "status"} : Call(what)
  \/ \E id \in call.left : LoadTombstones(id)

ToolStep == \E reply \in Replies : CallTool(reply)

Next == DaemonStep \/ ServerStep \/ ToolStep

Spec == Init /\ [][Next]_vars

-----------------------------------------------------------------------------
(* Properties. *)

\* The server's segments with the tombstones it has read.
Frozen == [i \in DOMAIN list |-> [entries |-> list[i], dead |-> cache[i]]]
Loaded == pending = {} /\ \A i \in DOMAIN cache : cache[i] # NotLoaded

\* What the server shows, once it has read all tombstones, of the index it listed.  A file that
\* no batch was changing or has changed since is there, in its version of then; and while no
\* tombstones were removed before the server read them, no file is shown in an older version, or
\* at all if it was not indexed.  This holds unless a listed directory was removed before it was
\* opened by a compaction that had not yet written its segment when the directory was listed:
\* then its files are missing until the server is started again (recovery.rs:40-128,
\* segment.rs:289-336, segment_manager.rs:1083-1098).
ViewIsOfTheStart ==
  up /\ Loaded /\ missed \subseteq atStart.removing =>
    LET seen == NewestLive(Frozen)
    IN  /\ \A p \in Paths \ (touched \cup atStart.changing) :
             atStart.truth[p] # 0 => p \in DOMAIN seen /\ seen[p] = atStart.truth[p]
        /\ lost = {} => \A p \in DOMAIN seen \ atStart.changing :
             /\ seen[p] >= atStart.truth[p]
             /\ p \notin touched => seen[p] = atStart.truth[p]

\* Every listing of one list of segments has the same files in the same versions, for every filter
\* and also while a file has two live copies; pages put together are the listing; the counts are
\* never below it (files.rs:26-90, resources.rs:199-345, server.rs:742-840).  The lists are the
\* server's and, while none runs, that of the directories: a server does not change them.
ListingsAgree ==
  \A segments \in IF ~up THEN {OnDisk} ELSE IF Loaded THEN {Frozen} ELSE {} :
    LET tree == NewestLive(segments)
        files == CollectFiles(segments, Paths)
        status == ReadStatus(segments)
    IN  /\ DOMAIN files = DOMAIN tree /\ \A p \in DOMAIN tree : files[p].version = tree[p]
        /\ \A l \in Languages :
             LET wanted == {p \in Paths : Language[p] = l}
                 all    == SearchFilesDirect(tree, wanted, 0, Cardinality(Paths))
             IN  /\ DOMAIN CollectFiles(segments, wanted) = Range(all.page)
                 /\ \A k \in 0 .. all.total :
                      LET one == SearchFilesDirect(tree, wanted, k, 1)
                      IN  /\ one.page = IF k = all.total THEN <<>> ELSE <<all.page[k + 1]>>
                          /\ one.page = SubSeq(all.page, one.showing[1], one.showing[2])
        /\ \A p \in Range(ReadTree(segments)) : ReadFile(segments, p) # {}
        /\ status.files >= Len(ReadTree(segments))
        /\ FoldFunction(+, 0, LanguageBreakdown(segments)) = status.files
        /\ IndexStatus(segments) = status

\* The directories of one moment list every file of the index in its version, also between a new
\* segment and the tombstones of the old copies and in the middle of a removal.  A file that is no
\* longer in the index is listed only while the batch that deletes it writes its tombstones, or
\* from a directory that has lost its tombstones.bin and still opens
\* (segment_manager.rs:794-862, 1083-1100; segment.rs:326-336).
ListingIsTrue ==
  LET tree == NewestLive(OnDisk)
  IN  /\ \A p \in Paths : truth[p] # 0 => p \in DOMAIN tree /\ tree[p] = truth[p]
      /\ \A p \in DOMAIN tree : truth[p] = 0 =>
           \/ daemon.is = "tombstone" /\ p \in daemon.paths
           \/ \A i \in LiveIn(OnDisk, p) : "tombstones" \in disk[i].gone
=============================================================================
