---------------------------- MODULE SegmentFiles ----------------------------
(***************************************************************************)
(* The directory of a segment and the processes that write, read and       *)
(* recover it.  The daemon builds a segment file by file in a temporary    *)
(* directory and renames it (segment.rs), copies the live files of old     *)
(* segments into a new one and marks deleted files in a bitmap             *)
(* (tombstone.rs); it can be killed between any two steps, and the machine *)
(* can lose what was never synced.  A second process, the MCP server,      *)
(* recovers the directory whenever it starts (recovery.rs), also while the *)
(* daemon builds.                                                          *)
(* Files are modelled by their sections (content.rs, metadata.rs,          *)
(* highlight.rs, PostingLists, SymbolIndex); header fields that only name  *)
(* the format are left out.                                                *)
(***************************************************************************)
EXTENDS SymbolIndex

CONSTANTS
  Inputs,        \* the lists of files a build is given
  NameOf(_),     \* the stem and extension of a path's file name
  Queries,       \* what is looked up
  SymbolRequests, PageSize,   \* symbol searches, and the size of their pages
  Starts,        \* what the daemon may have indexed before: segment id -> files
  MaxBuilds,     \* builds in a behaviour
  MaxCrashes,    \* crashes in a behaviour
  MaxTombstones, \* tombstone writes in a behaviour
  MaxRecoveries, \* starts of the MCP server in a behaviour
  Listing,       \* the files of a directory in the order readdir gives them
  Newline,
  MaxRun,        \* u16::MAX, the longest run of tokens
  MaxSize,       \* MAX_DECOMPRESSED_SIZE
  WordBits,      \* bits of a bitmap's word (64)
  Radix, Pad     \* seg_{:04}: ids in decimal, padded to four digits

ASSUME FilesAssumption ==
  /\ MaxBuilds \in Nat /\ MaxCrashes \in Nat /\ MaxRun \in Nat \ {0} /\ MaxSize \in Nat
  /\ WordBits \in Nat \ {0} /\ Radix \in Nat \ {0, 1} /\ Pad \in Nat \ {0}
  /\ MaxTombstones \in Nat /\ MaxRecoveries \in Nat /\ Newline \in Nat
  /\ \A start \in Starts : DOMAIN start \subseteq Nat /\ IsFiniteSet(DOMAIN start)

VARIABLES
  temp,      \* segment id -> its temporary directory
  disk,      \* segment id -> its directory
  job,       \* the build the daemon is at
  list,      \* the segments the daemon has open, in the order it loaded them
  up,        \* "up", "down", or "refused": it could not open the index
  nextId,
  mcp,       \* the recovery the MCP server is at
  recovered, \* the segments it has open
  builds, crashes, marks, recoveries,   \* how many of each there were
  truth,     \* segment id -> the files it was built from (not in the code)
  deleted,   \* segment id -> the file ids marked deleted (not in the code)
  torn, raced  \* a crash left segments that are not whole; recovery met a build in progress

vars == <<temp, disk, job, list, up, nextId, mcp, recovered, builds, crashes, marks, recoveries, truth,
          deleted, torn, raced>>

FileName == {"content", "highlights", "trigrams", "meta", "paths", "tombstones", "symbols"}

Put(f, k, v)   == [x \in DOMAIN f \cup {k} |-> IF x = k THEN v ELSE f[x]]
Drop(f, k)     == [x \in DOMAIN f \ {k} |-> f[x]]
With(d, files) == [x \in DOMAIN d \cup DOMAIN files |-> IF x \in DOMAIN files THEN files[x] ELSE d[x]]

LanguageOf(path) == FromPath(NameOf(path))

-----------------------------------------------------------------------------
(* content.rs.                                                             *)

\* zstd: a block that only decompresses whole.
Compress(content)  == <<Len(content)>> \o content
Decompress(block)  ==
  IF block # <<>> /\ block[1] = Len(block) - 1 THEN Ok(Tail(block)) ELSE Err

\* add_content and add_raw: one block behind the other.
ContentStore(blocks) == FlattenSeq(blocks)

\* read_content and read_content_with_size_hint.
ReadContent(store, offset, len) ==
  LET plain == Decompress(Slice(store, offset, offset + len)) IN
  IF offset + len > Len(store) \/ ~plain.ok \/ Len(plain.v) > MaxSize THEN Err ELSE plain

\* read_raw_compressed.
ReadRaw(store, offset, len) ==
  IF offset + len > Len(store) THEN Err ELSE Ok(Slice(store, offset, offset + len))

-----------------------------------------------------------------------------
(* Highlights: tree_sitter_process.rs and highlight.rs.                    *)

\* The kind of every byte: wider spans are painted first, and narrower ones over them.
ByteKinds(content, spans) ==
  LET order == SortedBy(1..Len(spans), LAMBDA i, j :
        \/ spans[i].start < spans[j].start
        \/ spans[i].start = spans[j].start /\ spans[i].end > spans[j].end
        \/ spans[i].start = spans[j].start /\ spans[i].end = spans[j].end /\ i < j)
      last(b) == SelectLastInSeq(order, LAMBDA i : spans[i].kind # Plain
                                        /\ spans[i].start < b /\ b <= spans[i].end)
  IN  [b \in 1..Len(content) |-> IF last(b) = 0 THEN Plain ELSE spans[order[last(b)]].kind]

\* Where lines begin and end; what follows the last newline is a line too.
LineStarts(content) == <<0>> \o SortedBy({i \in 1..Len(content) : content[i] = Newline}, <)
LineOf(content, l)  ==
  LET starts == LineStarts(content) IN
  [from |-> starts[l], to |-> IF l < Len(starts) THEN starts[l + 1] ELSE Len(content)]

\* The runs of equal kinds of a line.
Tokens(kinds) ==
  FoldLeft(LAMBDA out, k :
    IF out # <<>> /\ Last(out).kind = k
    THEN [out EXCEPT ![Len(out)].len = @ + 1]
    ELSE Append(out, [len |-> 1, kind |-> k]), <<>>, kinds)

\* run_highlight_query: the tokens of every line.
LineTokens(content, spans) ==
  LET kinds == ByteKinds(content, spans) IN
  [l \in 1..Len(LineStarts(content)) |->
     Tokens(Slice(kinds, LineOf(content, l).from, LineOf(content, l).to))]

\* Runs cut to 16 bits instead of split.
EncodeRleCut(tokens) == FlattenSeq(Map(tokens, LAMBDA t : <<t.len % (MaxRun + 1), t.kind>>))

\* encode_rle, a token as its length and its kind, long ones in pieces.
EncodeRle(tokens) ==
  FlattenSeq(Map(tokens, LAMBDA t :
    FlattenSeq([p \in 1..((t.len + MaxRun - 1) \div MaxRun) |->
      <<IF p * MaxRun <= t.len THEN MaxRun ELSE t.len % MaxRun, t.kind>>])))

\* decode_rle.
DecodeRle(data) ==
  [k \in 1..(Len(data) \div 2) |-> [len |-> data[2 * k - 1], kind |-> data[2 * k]]]

\* build_file_highlight and serialize_file_highlight: line offsets before the token data.
FileHighlight(lines) ==
  LET blocks == Map(lines, EncodeRle) IN
  <<Len(lines)>> \o [l \in 1..Len(lines) |-> OffsetOf(blocks, l)] \o FlattenSeq(blocks)

\* deserialize_file_highlight and tokens_for_line, lines counted from 0.
TokensForLine(data, line) ==
  LET count == data[1]
      body  == SubSeq(data, count + 2, Len(data))
      start == data[line + 2]
      end   == IF line + 1 < count THEN data[line + 3] ELSE Len(body)
  IN  IF data = <<>> \/ Len(data) < count + 1 \/ line >= count \/ start >= end THEN <<>>
      ELSE DecodeRle(Slice(body, start, end))

-----------------------------------------------------------------------------
(* metadata.rs.                                                            *)

\* MetadataBuilder::write_to: fixed-size entries and a pool of paths.
MetaTable(entries) ==
  LET paths == Map(entries, LAMBDA e : e.path) IN
  [count |-> Len(entries),
   entries |-> [k \in 1..Len(entries) |->
     [entries[k] EXCEPT !.path = [offset |-> OffsetOf(paths, k), len |-> Len(@)],
                        !.language = ToU16[@]]]]
PathPool(entries)  == FlattenSeq(Map(entries, LAMBDA e : e.path))
WriteMeta(entries) == [meta |-> MetaTable(entries), paths |-> PathPool(entries)]

\* MetadataReader::new: as many entries as the header says.
OpenMetadata(dir) == Len(dir.meta.entries) >= dir.meta.count

\* read_entry.
ReadEntry(dir, k) ==
  LET e == dir.meta.entries[k] IN
  IF e.path.offset + e.path.len > Len(dir.paths) THEN Err
  ELSE Ok([e EXCEPT !.path = Slice(dir.paths, @.offset, @.offset + @.len),
                    !.language = FromU16(@)])

\* get and get_size_bytes: the entry at the id's place, else the first that has it.
GetMetadata(dir, id) ==
  LET with == {k \in 1..dir.meta.count : dir.meta.entries[k].id = id} IN
  IF id + 1 \in with THEN ReadEntry(dir, id + 1)
  ELSE IF with = {} THEN Err ELSE ReadEntry(dir, CHOOSE k \in with : \A j \in with : k <= j)

\* get_size_bytes, which needs no path.
SizeBytes(dir, id) ==
  LET with == {k \in 1..dir.meta.count : dir.meta.entries[k].id = id} IN
  IF with = {} THEN Err
  ELSE Ok(dir.meta.entries[IF id + 1 \in with THEN id + 1 ELSE CHOOSE k \in with : TRUE].size)

-----------------------------------------------------------------------------
(* tombstone.rs: a bitmap of words and the number of its bits.             *)

NoTombstones == [words |-> <<>>, count |-> 0]

HasTombstone(ts, id) ==
  id \div WordBits < Len(ts.words) /\ id % WordBits \in ts.words[(id \div WordBits) + 1]

\* insert: the words grow as far as needed, and a bit counts once.
Insert(ts, id) ==
  LET w     == (id \div WordBits) + 1
      words == [k \in 1..(IF w > Len(ts.words) THEN w ELSE Len(ts.words)) |->
                  IF k <= Len(ts.words) THEN ts.words[k] ELSE {}]
  IN  [words |-> [words EXCEPT ![w] = @ \cup {id % WordBits}],
       count |-> IF id % WordBits \in words[w] THEN ts.count ELSE ts.count + 1]

\* write_to: the capacity, the count and the words.
TombstoneFile(ts) == [capacity |-> Len(ts.words) * WordBits, count |-> ts.count, words |-> ts.words]
EmptyFile == [capacity |-> 0, count |-> 0, words |-> <<>>]

\* load_tombstones_from_disk: an empty or missing file means none; read_from checks size and count.
LoadTombstones(dir) ==
  LET f     == dir.tombstones
      words == (f.capacity + WordBits - 1) \div WordBits
      bits  == FoldLeft(LAMBDA n, w : n + Cardinality(w), 0, f.words)
  IN  IF "tombstones" \notin DOMAIN dir THEN Ok(NoTombstones)
      ELSE IF Len(f.words) < words \/ bits # f.count THEN Err
      ELSE Ok([words |-> SubSeq(f.words, 1, words), count |-> f.count])

\* TombstoneIter: the ids of the set bits, in order.
Marked(ts) == UNION {{(w - 1) * WordBits + b : b \in ts.words[w]} : w \in 1..Len(ts.words)}

-----------------------------------------------------------------------------
(* segment.rs: what a build writes.  A prepared file is an input with what *)
(* the parallel phase computes; compaction brings it from the old segment. *)

\* Phase 1 of build_inner; the hash of a content stands for it.
Prepare(input) ==
  [path |-> input.path, content |-> input.content, mtime |-> input.mtime,
   compressed |-> Compress(input.content), hash |-> input.content,
   language |-> LanguageOf(input.path), size |-> Len(input.content),
   lines |-> Len(SelectSeq(input.content, LAMBDA b : b = Newline))]

Prepared(inputs) == Map(inputs, Prepare)

\* The highlight block of a file, empty where it has none.
HighlightBlock(file) ==
  LET ts == ProcessFile(file.content, file.language) IN
  IF ~ts.highlighted THEN <<>>
  ELSE Compress(FileHighlight(IF file.content = <<>> THEN <<>>
                              ELSE LineTokens(file.content, ts.spans)))

\* The metadata of the files, with where their blocks lie.
MetaEntries(files) ==
  LET blocks == Map(files, LAMBDA f : f.compressed)
      shown  == Map(files, HighlightBlock)
  IN  [k \in 1..Len(files) |->
        [id |-> k - 1, path |-> files[k].path, hash |-> files[k].hash, size |-> files[k].size,
         language |-> files[k].language, mtime |-> files[k].mtime, lines |-> files[k].lines,
         contentOffset |-> OffsetOf(blocks, k), contentLen |-> Len(blocks[k]),
         highlightOffset |-> IF shown[k] = <<>> THEN 0 ELSE OffsetOf(shown, k),
         highlightLen |-> Len(shown[k])]]

\* content.zst, highlights, trigrams.bin and symbols.bin.
Contents(files)   == ContentStore(Map(files, LAMBDA f : f.compressed))
Highlights(files) == FlattenSeq(Map(files, HighlightBlock))
Trigrams(files)   == WriteIndex(Postings(Map(files, LAMBDA f : f.content), FALSE))
Symbols(files)    ==
  WriteSymbols(SymbolRecords(Map(files, LAMBDA f : ProcessFile(f.content, f.language).symbols)))

\* The files a stage of build_inner and build_compact_inner adds to the directory.
Written(stage, files) ==
  CASE stage = "content"    -> [content |-> Contents(files), highlights |-> Highlights(files)]
    [] stage = "trigrams"   -> [trigrams |-> Trigrams(files)]
    [] stage = "meta"       -> WriteMeta(MetaEntries(files))
    [] stage = "tombstones" -> [tombstones |-> EmptyFile]
    [] stage = "symbols"    -> [symbols |-> Symbols(files)]

Stages == <<"content", "trigrams", "meta", "tombstones", "symbols", "rename", "open", "remove">>

Required == {"trigrams", "meta", "paths", "content"}

\* Segment::open: what it needs is there and has the size it says it has.
OpenSegment(dir) ==
  IF /\ Required \subseteq DOMAIN dir
     /\ OpenIndex(dir.trigrams).ok
     /\ OpenMetadata(dir)
     /\ "symbols" \in DOMAIN dir => OpenSymbols(dir.symbols)
  THEN Ok(dir) ELSE Err

\* What a search reads of a file of an open segment.
ContentOf(dir, id) ==
  LET e == GetMetadata(dir, id) IN
  IF ~e.ok THEN Err ELSE ReadContent(dir.content, e.v.contentOffset, e.v.contentLen)

\* populate_highlights: no tokens where the block is missing or cannot be read.
HighlightsOf(dir, id, line) ==
  LET e == GetMetadata(dir, id)
      block == ReadContent(dir.highlights, e.v.highlightOffset, e.v.highlightLen)
  IN  IF ~e.ok \/ e.v.highlightLen = 0 \/ "highlights" \notin DOMAIN dir \/ ~block.ok THEN <<>>
      ELSE TokensForLine(block.v, line)

-----------------------------------------------------------------------------
(* search_symbols.  A request is [query, kind, language, path]; kind 0,    *)
(* language "" and an empty path ask for any.                              *)

\* The hits of one segment, of live files that pass the filters.
SegmentSymbols(s, r) ==
  LET ts    == LoadTombstones(disk[s.id]).v
      entry(h) == GetMetadata(s.dir, h.file).v
      hits  == SelectSeq(SearchFiltered(s.dir.symbols, r.query, r.kind), LAMBDA h :
                 /\ ~HasTombstone(ts, h.file)
                 /\ r.language \in {"", entry(h).language}
                 /\ \E k \in 0..(Len(entry(h).path) - Len(r.path)) :
                      SubSeq(entry(h).path, k + 1, k + Len(r.path)) = r.path)
  IN  Map(hits, LAMBDA h : [name |-> h.name, kind |-> h.kind, line |-> h.line,
                            path |-> entry(h).path, segment |-> s.id,
                            score |-> SymbolScore(h.name, r.query)])

\* Newest segment first, so that its hits win; segments without symbols have none.
SearchSymbols(r) ==
  LET order == SortedBy(1..Len(list), LAMBDA i, j : list[i].id > list[j].id) IN
  RankSymbols(FirstOfEach(FlattenSeq(Map(order, LAMBDA i :
    IF "symbols" \in DOMAIN list[i].dir THEN SegmentSymbols(list[i], r) ELSE <<>>))))

\* The kind and language a client names, "" for none; an unknown one is an error.
SymbolOptions(r) ==
  LET kind     == FromStrLoose(r.kind)
      language == MatchLanguage(r.language)
  IN  IF (r.kind # "" /\ kind = 0) \/ (r.language # "" /\ language = Unknown) THEN Err
      ELSE Ok([query |-> r.query, kind |-> kind, path |-> r.path,
               language |-> IF r.language = "" THEN "" ELSE language])

\* handle_json_symbols_request, before PageOf cuts a page of it: a query or a path is needed.
HandleJsonSymbols(r) ==
  LET options == SymbolOptions(r) IN
  IF (r.query = <<>> /\ r.path = <<>>) \/ ~options.ok THEN Err ELSE Ok(SearchSymbols(options.v))

\* handle_symbols_request, for the terminal: no path, and the query is needed.
HandleSymbols(r) ==
  IF r.query = <<>> THEN Err ELSE HandleJsonSymbols([r EXCEPT !.path = <<>>])

-----------------------------------------------------------------------------
(* Status.                                                                 *)

\* The metadata of the files of a segment, without a look at the tombstones.
AllEntries(s) == [k \in 1..s.dir.meta.count |-> GetMetadata(s.dir, k - 1).v]

\* The metadata of the files of an open segment that are not marked.
LiveEntries(s) ==
  LET ts == LoadTombstones(disk[s.id]).v IN
  Map(SelectSeq([k \in 1..s.dir.meta.count |-> k - 1], LAMBDA i : ~HasTombstone(ts, i)),
      LAMBDA i : GetMetadata(s.dir, i).v)

SegmentInfo(s) ==
  [id |-> s.id, entries |-> s.dir.meta.count, tombstoned |-> LoadTombstones(disk[s.id]).v.count,
   temporary |-> FALSE]

\* A directory in progress, of which meta.bin may not be written yet.
TemporaryInfo(d) ==
  [id |-> d[1], entries |-> IF "meta" \in DOMAIN temp[d] THEN temp[d].meta.count ELSE 0,
   tombstoned |-> 0, temporary |-> TRUE]

\* DaemonRequest::Status; a segment that cannot be read fails the request.
Status ==
  LET live == FlattenSeq(Map(list, LiveEntries))
      readable(s) == LoadTombstones(disk[s.id]).ok
                     /\ \A i \in 0..(s.dir.meta.count - 1) : GetMetadata(s.dir, i).ok
  IN  IF \E s \in ToSet(list) : ~readable(s) THEN Err
      ELSE Ok([files_indexed |-> Len(live),
               languages |-> [l \in {e.language : e \in ToSet(live)} |->
                                Len(SelectSeq(live, LAMBDA e : e.language = l))],
               last |-> Max({e.mtime : e \in ToSet(live)} \cup {0}),
               details |-> {SegmentInfo(s) : s \in ToSet(list)}
                           \cup {TemporaryInfo(d) : d \in DOMAIN temp}])

-----------------------------------------------------------------------------
(* Names of segment directories.                                           *)

Digits[n \in Nat] == IF n < Radix THEN <<n>> ELSE Append(Digits[n \div Radix], n % Radix)

\* seg_{:04}.
SegName(id) ==
  [k \in 1..(IF Len(Digits[id]) < Pad THEN Pad - Len(Digits[id]) ELSE 0) |-> 0] \o Digits[id]

\* Ids that fit the padding are ordered as their names are.
Fits(id) == Len(Digits[id]) <= Pad

Ids(segments) == Map(segments, LAMBDA s : s.id)

-----------------------------------------------------------------------------
(* The daemon.                                                             *)

Idle == [stage |-> 0, id |-> 0, pid |-> 0, files |-> <<>>, old |-> {}]

NoRecovery == [at |-> "idle", dirs |-> {}, holding |-> {}, seen |-> {}]

\* A whole directory.
Built(files) ==
  With(With(With(Written("content", files), Written("trigrams", files)),
            With(Written("meta", files), Written("tombstones", files))), Written("symbols", files))

\* Directories in the order of their ids, and in the order of their names.
ById(d)   == SortedBy(DOMAIN d, <)
ByName(d) == SortedBy(DOMAIN d, LAMBDA i, j : TextBefore(SegName(i), SegName(j)))

Opened(d, order) == Map(order, LAMBDA id : [id |-> id, dir |-> d[id]])

\* The id behind the largest in use.
FirstFree(ids) == IF ids = {} THEN 0 ELSE (CHOOSE m \in ids : \A id \in ids : id <= m) + 1

Init ==
  \E start \in Starts :
  /\ truth = [id \in DOMAIN start |-> Prepared(start[id])]
  /\ disk = [id \in DOMAIN start |-> Built(truth[id])]
  /\ deleted = [id \in DOMAIN start |-> {}]
  /\ list = Opened(disk, ById(disk)) /\ nextId = FirstFree(DOMAIN start)
  /\ temp = <<>> /\ job = Idle /\ up = "up"
  /\ mcp = NoRecovery /\ recovered = <<>>
  /\ builds = 0 /\ crashes = 0 /\ marks = 0 /\ recoveries = 0 /\ torn = FALSE /\ raced = FALSE

\* A build is given an id and an empty temporary directory of its own.
StartJob(files, old) ==
  /\ up = "up" /\ job = Idle /\ builds < MaxBuilds
  /\ job' = [stage |-> 1, id |-> nextId, pid |-> crashes, files |-> files, old |-> old]
  /\ temp' = Put(temp, <<nextId, crashes>>, <<>>)
  /\ nextId' = nextId + 1 /\ builds' = builds + 1
  /\ UNCHANGED <<disk, list, up, mcp, recovered, crashes, marks, recoveries, truth, deleted, torn, raced>>

\* SegmentWriter::build.
StartBuild == \E inputs \in Inputs : StartJob(Prepared(inputs), {})

\* The live files of the list, as compaction reads them back; one that cannot be read stops it.
LiveFiles ==
  LET live(s) == SelectSeq([k \in 1..s.dir.meta.count |-> k - 1],
                   LAMBDA i : ~HasTombstone(LoadTombstones(disk[s.id]).v, i))
      read(s, i) == LET e == GetMetadata(s.dir, i) IN
        [ok |-> e.ok /\ ContentOf(s.dir, i).ok, path |-> e.v.path, content |-> ContentOf(s.dir, i).v,
         mtime |-> e.v.mtime, compressed |-> ReadRaw(s.dir.content, e.v.contentOffset, e.v.contentLen).v,
         hash |-> e.v.hash, language |-> e.v.language, size |-> e.v.size, lines |-> e.v.lines]
  IN  FlattenSeq(Map(list, LAMBDA s : Map(live(s), LAMBDA i : read(s, i))))

\* compact and SegmentWriter::build_from_compact.
StartCompact ==
  /\ Len(list) > 1
  /\ \A s \in ToSet(list) : s.id \in DOMAIN disk /\ LoadTombstones(disk[s.id]).ok
       /\ \A i \in 0..(s.dir.meta.count - 1) : ContentOf(s.dir, i).ok
  /\ LiveFiles # <<>>
  /\ StartJob(LiveFiles, ToSet(Ids(list)))

JobDir == <<job.id, job.pid>>

\* The next file of the directory; with the directory gone, the build fails.
WriteFile ==
  /\ job.stage \in 1..5
  /\ JobDir \in DOMAIN temp
  /\ temp' = [temp EXCEPT ![JobDir] = With(@, Written(Stages[job.stage], job.files))]
  /\ job' = [job EXCEPT !.stage = @ + 1]
  /\ UNCHANGED <<disk, list, up, nextId, mcp, recovered, builds, crashes, marks, recoveries, truth, deleted,
                 torn, raced>>

\* Renaming before the symbols are written.
RenameEarly ==
  /\ job.stage \in {5, 6}
  /\ JobDir \in DOMAIN temp
  /\ temp' = Drop(temp, JobDir)
  /\ disk' = Put(disk, job.id, temp[JobDir])
  /\ truth' = Put(truth, job.id, job.files)
  /\ deleted' = Put(deleted, job.id, {})
  /\ job' = [job EXCEPT !.stage = 7]
  /\ UNCHANGED <<list, up, nextId, mcp, recovered, builds, crashes, marks, recoveries, torn, raced>>

\* fs::rename of the directory: the segment is there from here on.
Rename ==
  /\ job.stage = 6
  /\ JobDir \in DOMAIN temp
  /\ temp' = Drop(temp, JobDir)
  /\ disk' = Put(disk, job.id, temp[JobDir])
  /\ truth' = Put(truth, job.id, job.files)
  /\ deleted' = Put(deleted, job.id, {})
  /\ job' = [job EXCEPT !.stage = 7]
  /\ UNCHANGED <<list, up, nextId, mcp, recovered, builds, crashes, marks, recoveries, torn, raced>>

\* An I/O error, or a directory another process took away: what is left is removed.
BuildFails ==
  /\ job.stage \in 1..6
  /\ temp' = Drop(temp, JobDir)
  /\ job' = Idle
  /\ UNCHANGED <<disk, list, up, nextId, mcp, recovered, builds, crashes, marks, recoveries, truth,
                 deleted, torn, raced>>

Without(segments, ids) == SelectSeq(segments, LAMBDA s : s.id \notin ids)

\* The new segment is opened and published, in place of those it was compacted from.
OpenBuilt ==
  /\ job.stage = 7
  /\ IF OpenSegment(disk[job.id]).ok
     THEN /\ list' = Append(Without(list, job.old), [id |-> job.id, dir |-> disk[job.id]])
          /\ job' = IF job.old = {} THEN Idle ELSE [job EXCEPT !.stage = 8]
     ELSE list' = list /\ job' = Idle
  /\ UNCHANGED <<temp, disk, up, nextId, mcp, recovered, builds, crashes, marks, recoveries, truth, deleted,
                 torn, raced>>

\* The next file of a directory to unlink.
NextOf(names) == {Listing[SelectInSeq(Listing, LAMBDA f : f \in names)]}

\* remove_dir_all of the old segments' directories, one after the other, each file by file.
RemoveOld ==
  /\ job.stage = 8
  /\ \E id \in job.old :
       /\ \A j \in job.old : id <= j
       /\ \/ /\ DOMAIN disk[id] # {}
             /\ \E f \in NextOf(DOMAIN disk[id]) : disk' = [disk EXCEPT ![id] = Drop(@, f)]
             /\ UNCHANGED job
          \/ /\ DOMAIN disk[id] = {}
             /\ disk' = Drop(disk, id)
             /\ job' = IF job.old = {id} THEN Idle ELSE [job EXCEPT !.old = @ \ {id}]
  /\ UNCHANGED <<temp, list, up, nextId, mcp, recovered, builds, crashes, marks, recoveries, truth, deleted,
                 torn, raced>>

\* A tombstone is added to the bitmap, and the bitmap written anew.
MarkDeleted ==
  /\ up = "up" /\ job = Idle /\ marks < MaxTombstones
  /\ \E s \in ToSet(list) :
       LET ts == LoadTombstones(disk[s.id]) IN
       \E i \in 0..(s.dir.meta.count - 1) :
         /\ ts.ok
         /\ disk' = [disk EXCEPT ![s.id] = Put(@, "tombstones", TombstoneFile(Insert(ts.v, i)))]
         /\ deleted' = [deleted EXCEPT ![s.id] = @ \cup {i}]
  /\ marks' = marks + 1
  /\ UNCHANGED <<temp, job, list, up, nextId, mcp, recovered, builds, crashes, recoveries, truth, torn, raced>>

\* SegmentManager::new: the directories in the order of their names; one that does not open stops it.
OpenManager ==
  /\ up = "down"
  /\ IF \A id \in DOMAIN disk : OpenSegment(disk[id]).ok
     THEN /\ up' = "up"
          /\ list' = Opened(disk, ByName(disk))
          /\ nextId' = FirstFree(DOMAIN disk)
     ELSE up' = "refused" /\ UNCHANGED <<list, nextId>>
  /\ UNCHANGED <<temp, disk, job, mcp, recovered, builds, crashes, marks, recoveries, truth, deleted, torn,
                 raced>>

-----------------------------------------------------------------------------
(* The MCP server's recovery.                                              *)

\* recover_segments lists the directory; it removes every temporary one it sees.
StartRecovery ==
  /\ mcp.at = "idle" /\ recoveries < MaxRecoveries /\ (DOMAIN disk # {} \/ DOMAIN temp # {})
  /\ mcp' = [NoRecovery EXCEPT !.at = "removing", !.dirs = DOMAIN temp]
  /\ recoveries' = recoveries + 1
  /\ raced' = (raced \/ (job.stage \in 1..6 /\ JobDir \in DOMAIN temp))
  /\ UNCHANGED <<temp, disk, job, list, up, nextId, recovered, builds, crashes, marks, truth,
                 deleted, torn>>

\* remove_dir_all opens the directory by its name, unless it has been renamed or is gone.
OpenTemp ==
  /\ mcp.at = "removing" /\ mcp.holding = {}
  /\ \E d \in mcp.dirs :
       mcp' = IF d \in DOMAIN temp
              THEN [mcp EXCEPT !.dirs = @ \ {d}, !.holding = {d}, !.seen = DOMAIN temp[d]]
              ELSE [mcp EXCEPT !.dirs = @ \ {d}]
  /\ UNCHANGED <<temp, disk, job, list, up, nextId, recovered, builds, crashes, marks, recoveries, truth,
                 deleted, torn, raced>>

\* It unlinks what is in the directory it holds open, wherever the directory has moved since.
UnlinkTemp ==
  /\ \E d \in mcp.holding :
       \/ /\ d \in DOMAIN temp
          /\ DOMAIN temp[d] # {}
          /\ \E f \in NextOf(DOMAIN temp[d]) : temp' = [temp EXCEPT ![d] = Drop(@, f)]
          /\ UNCHANGED disk
       \/ /\ d \notin DOMAIN temp /\ d[1] \in DOMAIN disk
          /\ DOMAIN disk[d[1]] \cap mcp.seen # {}
          /\ \E f \in NextOf(DOMAIN disk[d[1]] \cap mcp.seen) :
               disk' = [disk EXCEPT ![d[1]] = Drop(@, f)]
          /\ UNCHANGED temp
  /\ UNCHANGED <<job, list, up, nextId, mcp, recovered, builds, crashes, marks, recoveries, truth, deleted,
                 torn, raced>>

\* All it saw is unlinked: an empty directory goes, one with newer files stays.
CloseTemp ==
  /\ \E d \in mcp.holding :
       /\ d \in DOMAIN temp => DOMAIN temp[d] \cap mcp.seen = {}
       /\ d \notin DOMAIN temp /\ d[1] \in DOMAIN disk => DOMAIN disk[d[1]] \cap mcp.seen = {}
       /\ temp' = IF d \in DOMAIN temp /\ DOMAIN temp[d] = {} THEN Drop(temp, d) ELSE temp
  /\ mcp' = [mcp EXCEPT !.holding = {}, !.seen = {}]
  /\ UNCHANGED <<disk, job, list, up, nextId, recovered, builds, crashes, marks, recoveries, truth, deleted,
                 torn, raced>>

\* validate_segment_files and validate_segment_headers, then Segment::open.
Valid(dir) == Required \subseteq DOMAIN dir /\ OpenSegment(dir).ok

\* Every valid segment, by id; the others are skipped.
Recovered(d) == Opened(d, SelectSeq(ById(d), LAMBDA id : Valid(d[id])))

OpenRecovered ==
  /\ mcp.at = "removing" /\ mcp.dirs = {} /\ mcp.holding = {}
  /\ recovered' = Recovered(disk)
  /\ mcp' = NoRecovery
  /\ UNCHANGED <<temp, disk, job, list, up, nextId, builds, crashes, marks, recoveries, truth, deleted, torn,
                 raced>>

-----------------------------------------------------------------------------
(* Faults.                                                                 *)

\* The daemon is killed: the temporary directory of its build stays behind, and one
\* that is being removed stays as it is.
Kill ==
  /\ up = "up" /\ crashes < MaxCrashes
  /\ up' = "down" /\ crashes' = crashes + 1
  /\ job' = Idle /\ list' = <<>>
  /\ torn' = (torn \/ \E id \in DOMAIN disk : DOMAIN disk[id] # FileName)
  /\ UNCHANGED <<temp, disk, nextId, mcp, recovered, builds, marks, recoveries, truth, deleted, raced>>

\* What is left of a file that was never synced, when the machine goes down.
CutFile(name, file, n) ==
  CASE name = "meta"       -> [file EXCEPT !.entries = SubSeq(@, 1, n)]
    [] name = "tombstones" -> IF n = 0 THEN EmptyFile ELSE [file EXCEPT !.words = SubSeq(@, 1, n)]
    [] OTHER               -> SubSeq(file, 1, n)

LengthOf(name, file) ==
  CASE name = "meta"       -> Len(file.entries)
    [] name = "tombstones" -> Len(file.words)
    [] OTHER               -> Len(file)

\* How much of it: nothing, or all but the end.
Cuts(len) == IF len = 0 THEN {} ELSE {0, len - 1}

\* trigrams.bin and symbols.bin are synced; the other files are not.
PowerLoss ==
  /\ up = "up" /\ crashes < MaxCrashes
  /\ \E id \in DOMAIN disk :
       \E name \in {"meta", "paths", "content", "highlights", "tombstones"} \cap DOMAIN disk[id] :
         \E n \in Cuts(LengthOf(name, disk[id][name])) :
           disk' = [disk EXCEPT ![id][name] = CutFile(name, @, n)]
  /\ up' = "down" /\ crashes' = crashes + 1
  /\ job' = Idle /\ list' = <<>> /\ mcp' = NoRecovery /\ recovered' = <<>>
  /\ torn' = TRUE
  /\ UNCHANGED <<temp, nextId, builds, marks, recoveries, truth, deleted, raced>>

Next ==
  \/ StartBuild \/ StartCompact \/ WriteFile \/ Rename \/ BuildFails \/ OpenBuilt \/ RemoveOld
  \/ MarkDeleted \/ OpenManager
  \/ StartRecovery \/ OpenTemp \/ UnlinkTemp \/ CloseTemp \/ OpenRecovered
  \/ Kill \/ PowerLoss

Spec == Init /\ [][Next]_vars

-----------------------------------------------------------------------------
(* Properties.                                                             *)

\* The kinds of the bytes a line's tokens stand for.
Painted(tokens) == FlattenSeq(Map(tokens, LAMBDA t : [k \in 1..t.len |-> t.kind]))

\* What is read of an open segment: lookups find exactly the files that have the trigrams, and
\* metadata, contents and colours are those of the file; after a power loss a read may fail.
SegmentsReadTrue ==
  \A s \in ToSet(list) \cup ToSet(recovered) :
    LET files == truth[s.id]
        index == OpenIndex(s.dir.trigrams).v
    IN
    /\ \A q \in Queries : Len(q) >= 3 =>
         FindCandidates(index, q) =
           SelectSeq([k \in 1..Len(files) |-> k - 1],
                     LAMBDA i : ToSet(Windows(q)) \subseteq ToSet(Windows(files[i + 1].content)))
    /\ \A k \in 1..Len(files) :
         LET e == GetMetadata(s.dir, k - 1)
             c == ContentOf(s.dir, k - 1)
             f == files[k]
         IN
         /\ e.ok => /\ e.v.path = f.path /\ e.v.hash = f.content /\ e.v.mtime = f.mtime
                    /\ e.v.language = LanguageOf(f.path)
                    /\ SizeBytes(s.dir, k - 1) = Ok(Len(f.content))
         /\ c.ok => c.v = f.content
         /\ ~torn => e.ok /\ c.ok
         /\ f.content # <<>> /\ f.language \in DOMAIN LanguageConfig /\ Tree(f.content, f.language).parsed =>
              LET kinds == ByteKinds(f.content, Tree(f.content, f.language).spans) IN
              \A l \in 1..Len(LineStarts(f.content)) :
                LET shown == HighlightsOf(s.dir, k - 1, l - 1)
                    line  == LineOf(f.content, l)
                IN  \/ Painted(shown) = Slice(kinds, line.from, line.to)
                    \/ (torn \/ "highlights" \notin DOMAIN s.dir) /\ shown = <<>>

\* A removal unlinks these directories.
BeingRemoved == IF job.stage = 8 THEN job.old ELSE {}

\* What a start reads of the directories: each opens, with every tombstone that was written; both
\* processes list the segments by id, the daemon as far as ids fit the padding of the names.
DirectoriesReadTrue ==
  ~raced /\ ~torn =>
    /\ up # "refused"
    /\ \A id \in DOMAIN disk \ BeingRemoved :
         /\ OpenSegment(disk[id]).ok /\ LoadTombstones(disk[id]).ok
         /\ Marked(LoadTombstones(disk[id]).v) = deleted[id]
    /\ IsSorted(Ids(recovered), <)
    /\ (\A id \in ToSet(Ids(list)) : Fits(id)) => IsSorted(Ids(list), <)

\* What is read back is what was written, of the segments that are open and of the directories a
\* start finds; after a power loss a read may fail, never return something else (index_reader.rs
\* lookup_file_ids, metadata.rs get, content.rs read_content, highlight.rs tokens_for_line,
\* tombstone.rs read_from, segment_manager.rs new).
ReadsTrue == SegmentsReadTrue /\ DirectoriesReadTrue

\* Until a build meets a recovery, power is lost or a removal is killed, every segment directory
\* that is not being removed has all its files, and the contents are those of the segment's files:
\* neither kills between any two steps nor a recovery of the MCP server, which empties every
\* temporary directory it sees, leave a part of a segment behind under its name (segment.rs
\* build_inner, recovery.rs recover_segments).
CommittedStay ==
  ~raced /\ ~torn =>
    \A id \in DOMAIN disk \ BeingRemoved :
      DOMAIN disk[id] = FileName /\ disk[id].content = Contents(truth[id])

\* What Status tells is what is indexed: as many files, of each language and in each
\* segment, as are live, and a build in progress is shown with the entries it has
\* written (daemon.rs DaemonRequest::Status).
StatusTrue ==
  ~torn /\ ~raced /\ up = "up" =>
    LET status == Status
        ids    == ToSet(Ids(list))
        live   == UNION {{<<id, k>> : k \in {j \in 1..Len(truth[id]) : j - 1 \notin deleted[id]}} :
                         id \in ids}
    IN
    /\ status.ok /\ status.v.files_indexed = Cardinality(live)
    /\ \A l \in LanguageName :
         (IF l \in DOMAIN status.v.languages THEN status.v.languages[l] ELSE 0)
           = Cardinality({x \in live : LanguageOf(truth[x[1]][x[2]].path) = l})
    /\ \A x \in live : truth[x[1]][x[2]].mtime <= status.v.last
    /\ \A info \in status.v.details : ~info.temporary =>
         info.entries - info.tombstoned = Cardinality({x \in live : x[1] = info.id})
    /\ job.stage \in 1..6 => \E info \in status.v.details :
         /\ info.temporary /\ info.id = job.id
         /\ info.entries = IF job.stage > 3 THEN Len(job.files) ELSE 0

\* The symbols of the live files that contain the query, whatever its case, are all
\* found and nothing else is; each path, name and line is shown once, as the newest
\* segment has it, and pages divide the answer without a gap or an overlap
\* (symbol_index.rs search_filtered and search_symbols).
SymbolsFound ==
  ~torn /\ ~raced /\ up = "up" => \A r \in SymbolRequests :
    LET reply  == IF r.path = <<>> THEN HandleSymbols(r) ELSE HandleJsonSymbols(r)
        answer == reply.v
        wanted(id, k) ==
          /\ k - 1 \notin deleted[id]
          /\ r.language # "" => \E e \in ToSet(LanguageTable) :
               r.language \in e.names /\ e.variant = truth[id][k].language
          /\ \E n \in 0..Len(truth[id][k].path) :
               IsPrefix(r.path, SubSeq(truth[id][k].path, n + 1, Len(truth[id][k].path)))
        all == UNION {UNION {
          {[path |-> truth[id][k].path, name |-> m.name, line |-> m.line, segment |-> id] :
             m \in {x \in ToSet(ProcessFile(truth[id][k].content, truth[id][k].language).symbols) :
                      ContainsFolded(x.name, r.query) /\ r.kind \in {""} \cup KindTable[x.kind].aliases}} :
          k \in {j \in 1..Len(truth[id]) : wanted(id, j)}} : id \in ToSet(Ids(list))}
    IN  reply.ok =>
    /\ {[path |-> a.path, name |-> a.name, line |-> a.line, segment |-> a.segment] :
          a \in ToSet(answer)}
       = {x \in all : \A y \in all :
            y.path = x.path /\ y.name = x.name /\ y.line = x.line => y.segment <= x.segment}
    /\ \A i, j \in 1..Len(answer) : i < j =>
         /\ <<answer[i].path, answer[i].name, answer[i].line>> #
              <<answer[j].path, answer[j].name, answer[j].line>>
         /\ answer[i].score >= answer[j].score
    /\ FlattenSeq([n \in 1..(Len(answer) + 1) |-> PageOf(answer, (n - 1) * PageSize, PageSize)])
         = answer

=============================================================================
