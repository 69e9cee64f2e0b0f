---------------------------- MODULE SegmentIndex ----------------------------
(***************************************************************************)
(* The segment manager of ferret-core: an index kept as a list of          *)
(* immutable segments, one seg_NNNN directory each, with a mutable set of  *)
(* tombstoned file ids beside every segment.  One writer at a time (the    *)
(* write_lock) applies change batches, indexes files or compacts; searches *)
(* take a snapshot of the list and read it without locks; the process may  *)
(* be killed between any two steps and started again from the directories. *)
(*                                                                         *)
(* The published list is kept as the set of its segment ids: appending     *)
(* always takes fresh, larger ids, so list order is id order.              *)
(*                                                                         *)
(* A file id is a position in the segment's sequence of entries.           *)
(***************************************************************************)
EXTENDS Naturals, Sequences, FiniteSets

CONSTANTS
    Path,               \* repository paths
    Content,            \* file contents (a content stands for its hash too)
    Readers,            \* concurrent searches
    MaxSegId,           \* the limit of the segment id counter (u32::MAX in the code)
    MaxBatches,         \* most segments one operation is split into by the byte budget
    MaxFaults,          \* bound on I/O errors
    MaxOps,             \* bound on operations started
    MaxCrashes,         \* bound on process deaths
    CrashDuringRemoval  \* may the process die inside one remove_dir_all?

ASSUME BoundsAssumption ==
    /\ MaxSegId \in Nat \ {0}
    /\ MaxBatches \in Nat \ {0}
    /\ MaxFaults \in Nat
    /\ MaxOps \in Nat
    /\ MaxCrashes \in Nat
    /\ CrashDuringRemoval \in BOOLEAN

SegId == 0 .. (MaxSegId - 1)

Entry == [path : Path, content : Content]

ChangeKind == {"Created", "Modified", "Deleted", "Renamed"}

\* An optional content is a set of at most one: {} says "no such file".
Option == {{}} \cup {{c} : c \in Content}

View == [Path -> SUBSET Content]

VARIABLES
    (* The segments directory. *)
    dirs,       \* ids of the seg_NNNN directories on disk
    entries,    \* entries[id]: the immutable files of segment id
    tomb,       \* tomb[id]: file ids in tombstones.bin, {} when there is no such file
    partial,    \* directories of which remove_dir_all has deleted some files
    broken,     \* ... and among them those that Segment::open refuses
    (* The segment manager in memory. *)
    published,  \* ids of the segments in the current SegmentList
    nextId,     \* next_id
    cached,     \* segments whose tombstone cache is filled
    cache,      \* cache[id]: the cached tombstones, meaningful for cached ids
    (* The operation that holds write_lock. *)
    pc,         \* where it is; "idle" when the lock is free, "down" when no process runs
    job,        \* "apply" (apply_changes and index_files) or "compact"
    fresh,      \* ids it has allocated
    todo,       \* ids it has still to build
    targets,    \* segments it has still to tombstone, or whose directory it has still to remove
    doomed,     \* doomed[id]: file ids it is going to tombstone in segment id
    current,    \* segment whose tombstones.bin it has just rewritten
    failed,     \* did one of its builds fail?
    (* Searches in progress. *)
    rpc,        \* rpc[r] \in {"idle", "scan"}
    rsnap,      \* rsnap[r]: the segments of r's snapshot
    rtodo,      \* rtodo[r]: those it has not read yet
    hits,       \* hits[r]: the live <<segment, file id>> pairs it has collected
    (* Environment and history. *)
    faults,     \* I/O errors so far
    ops,        \* operations started so far
    crashes,    \* process deaths so far
    inflight,   \* paths the running batch adds or removes
    goal,       \* what truth and suspect become when the running batch is published
    truth,      \* truth[p]: what the completed batches say the index holds for p
    suspect,    \* paths that may be live in an older version too
    rview,      \* rview[r]: what the index answered when r took its snapshot
    dead,       \* dead[r]: the pairs already tombstoned at that moment
    touched     \* touched[r]: paths some batch has changed since

diskVars   == <<dirs, entries, tomb, partial, broken>>
memVars    == <<published, nextId, cached, cache>>
writerVars == <<pc, job, fresh, todo, targets, doomed, current, failed>>
readerVars == <<rpc, rsnap, rtodo, hits, rview, dead, touched>>
ghostVars  == <<inflight, goal, truth, suspect>>
counters   == <<faults, ops, crashes>>
vars == <<diskVars, memVars, writerVars, readerVars, ghostVars, counters>>

NoSegments == [id \in SegId |-> {}]

-----------------------------------------------------------------------------
(* What a set of segments holds *)

\* Segment::load_tombstones: the cached set, else tombstones.bin, else nothing.
LoadTombstonesUncached(id) == tomb[id]
LoadTombstones(id) == IF id \in cached THEN cache[id] ELSE tomb[id]

\* The set every segment would load now.
Tombstones == [id \in SegId |-> LoadTombstones(id)]

\* The live <<segment, file id>> pairs of path p in segments S under tombstones t.
Copies(S, t, p) ==
    UNION {{<<id, f>> : f \in {g \in DOMAIN entries[id] \ t[id] : entries[id][g].path = p}} :
             id \in S}

\* The daemon's GetFile, and the merge of search results: newest segment first, and the
\* first live entry of the path in that segment.
Wins(c, C) == \A d \in C : d[1] < c[1] \/ (d[1] = c[1] /\ c[2] <= d[2])

Newest(C) == {entries[c[1]][c[2]].content : c \in {x \in C : Wins(x, C)}}

GetFile(S, t, p) == Newest(Copies(S, t, p))

\* batch_find_file_hashes: later segments and later entries overwrite earlier ones.
ExistingHash(p) ==
    LET C == Copies(published, Tombstones, p)
    IN  {entries[c[1]][c[2]].content :
            c \in {x \in C : \A d \in C : d[1] < x[1] \/ (d[1] = x[1] /\ d[2] <= x[2])}}

\* Every segment of S has its tombstones loaded and cached.
FillCache(S) ==
    /\ cached' = cached \cup S
    /\ cache' = [id \in SegId |-> IF id \in S THEN LoadTombstones(id) ELSE cache[id]]

-----------------------------------------------------------------------------
(* Splitting files into segments *)

\* q lists every element of K once.
Lists(q, K) ==
    /\ q \in Seq(K)
    /\ Len(q) = Cardinality(K)
    /\ \A x \in K : \E i \in DOMAIN q : q[i] = x

Orderings(K) == {q \in [1 .. Cardinality(K) -> K] : Lists(q, K)}

\* Where a list of n files may be cut into k consecutive non-empty batches.  A batch is
\* closed as soon as its bytes exceed the budget, so file sizes make every cut possible.
Cuts(k, n) ==
    {c \in [0 .. k -> 0 .. n] : c[0] = 0 /\ c[k] = n /\ \A i \in 0 .. (k - 1) : c[i] < c[i + 1]}

\* next_segment_id k times: checked_add fails at the counter's limit.
IdsLeft(k) == nextId + k <= MaxSegId

\* Allocate one id per batch of files and leave the segments to be built (in parallel).
\* Without enough ids the operation has failed before building anything.
Allocate(files) ==
    /\ pc' = "build"
    /\ \/ /\ files = <<>>
          /\ fresh' = {}
          /\ todo' = {}
          /\ failed' = FALSE
          /\ UNCHANGED <<nextId, entries>>
       \/ \E k \in 1 .. MaxBatches : \E c \in Cuts(k, Len(files)) :
            \/ /\ IdsLeft(k)
               /\ nextId' = nextId + k
               /\ fresh' = nextId .. (nextId + k - 1)
               /\ todo' = fresh'
               /\ failed' = FALSE
               /\ entries' = [id \in SegId |->
                    IF id \in fresh'
                    THEN SubSeq(files, c[id - nextId] + 1, c[id - nextId + 1])
                    ELSE entries[id]]
            \/ /\ ~ IdsLeft(k)
               /\ nextId' = MaxSegId
               /\ fresh' = {}
               /\ todo' = {}
               /\ failed' = TRUE
               /\ UNCHANGED entries

-----------------------------------------------------------------------------
(* The writer *)

CountOp == ops < MaxOps /\ ops' = ops + 1

CountFault == faults < MaxFaults /\ faults' = faults + 1 /\ UNCHANGED <<ops, crashes>>

NeedsTombstoneNotDeleted(kind) == kind \in {"Modified", "Renamed"}
NeedsTombstone(kind) == kind \in {"Modified", "Deleted", "Renamed"}

NeedsNewEntry(kind) == kind \in {"Created", "Modified", "Renamed"}

\* A file whose content is indexed already is skipped, unless its entry is to be tombstoned.
SkipUnchangedAlways(p, gone, c) == ExistingHash(p) = c
SkipUnchanged(p, gone, c) == p \notin gone /\ ExistingHash(p) = c

\* History: the running batch finds want[p] in the repository for its paths.  The paths of
\* blind are reported as created, so nothing tombstones an entry they already have: they
\* become suspect when that entry says something else.
Announce(want, blind) ==
    /\ inflight' = DOMAIN want
    /\ goal' = [truth |-> [p \in Path |-> IF p \in DOMAIN want THEN want[p] ELSE truth[p]],
                suspect |->
                    (suspect \ (DOMAIN want \ blind)) \cup
                    {p \in blind : GetFile(published, Tombstones, p) \notin {{}, want[p]}}]
    /\ touched' = [r \in Readers |-> touched[r] \cup inflight']

\* apply_changes up to the building of segments.  batch maps the changed paths to their
\* change kinds, read gives what reading each path from the repository yields.
ApplyChanges(batch, read) ==
    LET gone  == {p \in DOMAIN batch : NeedsTombstone(batch[p])}
        new   == {p \in DOMAIN batch :
                    /\ NeedsNewEntry(batch[p])
                    /\ read[p] # {}
                    /\ ~ SkipUnchanged(p, gone, read[p])}
        files == UNION {{[path |-> p, content |-> c] : c \in read[p]} : p \in new}
        hit(id) == {f \in DOMAIN entries[id] \ LoadTombstones(id) : entries[id][f].path \in gone}
    IN  /\ pc = "idle"
        /\ DOMAIN batch # {}
        /\ CountOp
        /\ job' = "apply"
        /\ doomed' = [id \in SegId |-> IF id \in published THEN hit(id) ELSE {}]
        /\ targets' = {id \in published : hit(id) # {}}
        /\ FillCache(published)
        /\ Announce([p \in DOMAIN batch |-> IF batch[p] = "Deleted" THEN {} ELSE read[p]],
                    {p \in DOMAIN batch : batch[p] = "Created"})
        /\ \E list \in Orderings(files) : Allocate(list)
        /\ UNCHANGED <<dirs, tomb, partial, broken, published, current, rpc, rsnap, rtodo,
                       hits, rview, dead, truth, suspect, faults, crashes>>

\* index_files: every file gets an entry in a new segment, nothing is looked up.
IndexFiles(contents) ==
    /\ pc = "idle"
    /\ CountOp
    /\ job' = "apply"
    /\ targets' = {}
    /\ doomed' = NoSegments
    /\ Announce([p \in DOMAIN contents |-> {contents[p]}], DOMAIN contents)
    /\ \E list \in Orderings({[path |-> p, content |-> contents[p]] : p \in DOMAIN contents}) :
          Allocate(list)
    /\ UNCHANGED <<dirs, tomb, partial, broken, published, cached, cache, current, rpc, rsnap,
                   rtodo, hits, rview, dead, truth, suspect, faults, crashes>>

\* The live entries of the published segments, in segment and file id order: the i-th is
\* the one with i - 1 entries before it.
Live == UNION {{<<id, f>> : f \in DOMAIN entries[id] \ LoadTombstones(id)} : id \in published}

Before(a, b) == a[1] < b[1] \/ (a[1] = b[1] /\ a[2] < b[2])

InOrder(K) ==
    [i \in 1 .. Cardinality(K) |->
        CHOOSE x \in K : Cardinality({y \in K : Before(y, x)}) = i - 1]

LiveLists ==
    {[i \in DOMAIN q |-> entries[q[i][1]][q[i][2]]] : q \in {s \in {InOrder(Live)} : Lists(s, Live)}}

\* compact up to the building of segments: nothing to do for no segment, or for one
\* without tombstones.  All tombstones are loaded.
Compact ==
    /\ pc = "idle"
    /\ CountOp
    /\ published # {}
    /\ Cardinality(published) > 1 \/ \E id \in published : LoadTombstones(id) # {}
    /\ job' = "compact"
    /\ targets' = published
    /\ doomed' = NoSegments
    /\ FillCache(published)
    /\ Announce(<<>>, {})
    /\ \E list \in LiveLists : Allocate(list)
    /\ UNCHANGED <<dirs, tomb, partial, broken, published, current, rpc, rsnap, rtodo, hits,
                   rview, dead, truth, suspect, faults, crashes>>

\* SegmentWriter::build: the segment is complete before rename makes it visible.
BuildSegment(id) ==
    /\ pc = "build"
    /\ id \in todo
    /\ dirs' = dirs \cup {id}
    /\ todo' = todo \ {id}
    /\ UNCHANGED <<entries, tomb, partial, broken, memVars, pc, job, fresh, targets, doomed,
                   current, failed, readerVars, ghostVars, counters>>

\* A build fails: its temporary directory is removed, or, when only the open after the
\* rename failed, the directory stays.  The other builds still run to their end.
FailBuild(id) ==
    /\ pc = "build"
    /\ id \in todo
    /\ CountFault
    /\ failed' = TRUE
    /\ todo' = todo \ {id}
    /\ dirs' \in {dirs, dirs \cup {id}}
    /\ UNCHANGED <<entries, tomb, partial, broken, memVars, pc, job, fresh, targets, doomed,
                   current, readerVars, ghostVars>>

\* write_lock is released and the locals of the operation are dropped.
Release ==
    /\ pc' = "idle"
    /\ job' = "apply"
    /\ fresh' = {}
    /\ todo' = {}
    /\ targets' = {}
    /\ doomed' = NoSegments
    /\ current' = 0
    /\ failed' = FALSE
    /\ inflight' = {}
    /\ goal' = [truth |-> truth', suspect |-> suspect']

\* The operation returns an error: nothing is published and what it wrote stays on disk.
Abandon ==
    /\ suspect' = suspect \cup inflight
    /\ UNCHANGED truth
    /\ Release
    /\ UNCHANGED <<diskVars, memVars, readerVars>>

BuildsFailed ==
    /\ pc = "build" /\ todo = {} /\ failed
    /\ Abandon
    /\ UNCHANGED counters

\* Going on although a build has failed.
BuildsDoneIgnoringErrors ==
    /\ pc = "build" /\ todo = {}
    /\ pc' = IF job = "compact" THEN "publish" ELSE "tombstone"
    /\ UNCHANGED <<diskVars, memVars, job, fresh, todo, targets, doomed, current, failed,
                   readerVars, ghostVars, counters>>

BuildsDone ==
    /\ pc = "build" /\ todo = {} /\ ~failed
    /\ pc' = IF job = "compact" THEN "publish" ELSE "tombstone"
    /\ UNCHANGED <<diskVars, memVars, job, fresh, todo, targets, doomed, current, failed,
                   readerVars, ghostVars, counters>>

\* Merge the new tombstones into one affected segment's file (temporary file and rename).
ReadyBeforeBuild == pc \in {"build", "tombstone"}
ReadyToTombstone == pc = "tombstone"

OverwriteTombstones(id) == doomed[id]
MergedTombstones(id) == LoadTombstones(id) \cup doomed[id]

WriteTombstones(id) ==
    /\ ReadyToTombstone
    /\ id \in targets
    /\ tomb' = [tomb EXCEPT ![id] = MergedTombstones(id)]
    /\ FillCache({id})
    /\ current' = id
    /\ pc' = "setcache"
    /\ UNCHANGED <<dirs, entries, partial, broken, published, nextId, job, fresh, todo, targets,
                   doomed, failed, readerVars, ghostVars, counters>>

\* set_cached_tombstones: from here on every holder of the segment sees them.
SetCachedTombstones ==
    /\ pc = "setcache"
    /\ cache' = [cache EXCEPT ![current] = tomb[current]]
    /\ cached' = cached \cup {current}
    /\ targets' = targets \ {current}
    /\ pc' = "tombstone"
    /\ UNCHANGED <<diskVars, published, nextId, job, fresh, todo, doomed, current, failed,
                   readerVars, ghostVars, counters>>

FailTombstones ==
    /\ pc = "tombstone"
    /\ targets # {}
    /\ CountFault
    /\ Abandon

\* IndexState::publish at the end of apply_changes and index_files.
PublishChanges ==
    /\ pc = "tombstone"
    /\ targets = {}
    /\ published' = published \cup fresh
    /\ truth' = goal.truth
    /\ suspect' = goal.suspect
    /\ Release
    /\ UNCHANGED <<diskVars, nextId, cached, cache, readerVars, counters>>

\* compact publishes the new segments alone, then removes the old directories.
PublishCompacted ==
    /\ pc = "publish"
    /\ published' = fresh
    /\ pc' = "remove"
    /\ fresh' = {}
    /\ UNCHANGED <<diskVars, nextId, cached, cache, job, todo, targets, doomed, current, failed,
                   readerVars, ghostVars, counters>>

\* remove_dir_all takes the old directories in list order and deletes the files of each in
\* no particular order: tombstones.bin or a file that Segment::open needs may go first.
NextToRemove(id) == id \in targets /\ \A other \in targets : id <= other

UnlinkFile(id) ==
    /\ pc = "remove"
    /\ NextToRemove(id)
    /\ partial' = partial \cup {id}
    /\ \/ tomb' = [tomb EXCEPT ![id] = {}] /\ UNCHANGED broken
       \/ broken' = broken \cup {id} /\ UNCHANGED tomb
    /\ UNCHANGED <<dirs, entries, memVars, writerVars, readerVars, ghostVars, counters>>

RemoveDir(id) ==
    /\ pc = "remove"
    /\ NextToRemove(id)
    /\ dirs' = dirs \ {id}
    /\ tomb' = [tomb EXCEPT ![id] = {}]
    /\ partial' = partial \ {id}
    /\ broken' = broken \ {id}
    /\ targets' = targets \ {id}
    /\ UNCHANGED <<entries, memVars, pc, job, fresh, todo, doomed, current, failed, readerVars,
                   ghostVars, counters>>

\* A failed removal is only logged: the directory stays as it is.
FailRemoveDir(id) ==
    /\ pc = "remove"
    /\ NextToRemove(id)
    /\ CountFault
    /\ targets' = targets \ {id}
    /\ UNCHANGED <<diskVars, memVars, pc, job, fresh, todo, doomed, current, failed, readerVars,
                   ghostVars>>

CompactionDone ==
    /\ pc = "remove"
    /\ targets = {}
    /\ UNCHANGED <<truth, suspect>>
    /\ Release
    /\ UNCHANGED <<diskVars, memVars, readerVars, counters>>

-----------------------------------------------------------------------------
(* Searches *)

\* SegmentManager::snapshot.
TakeSnapshot(r) ==
    /\ pc # "down"
    /\ rpc[r] = "idle"
    /\ rpc' = [rpc EXCEPT ![r] = "scan"]
    /\ rsnap' = [rsnap EXCEPT ![r] = published]
    /\ rtodo' = [rtodo EXCEPT ![r] = published]
    /\ hits' = [hits EXCEPT ![r] = {}]
    /\ rview' = [rview EXCEPT ![r] = [p \in Path |-> GetFile(published, Tombstones, p)]]
    /\ dead' = [dead EXCEPT ![r] =
                  UNION {{<<id, f>> : f \in LoadTombstones(id)} : id \in published}]
    /\ touched' = [touched EXCEPT ![r] = inflight]
    /\ UNCHANGED <<diskVars, memVars, writerVars, ghostVars, counters>>

\* One segment of the snapshot: load its tombstones, collect its live matches.
SearchSegment(r, id) ==
    /\ rpc[r] = "scan"
    /\ id \in rtodo[r]
    /\ rtodo' = [rtodo EXCEPT ![r] = @ \ {id}]
    /\ hits' = [hits EXCEPT ![r] =
                  @ \cup {<<id, f>> : f \in DOMAIN entries[id] \ LoadTombstones(id)}]
    /\ FillCache({id})
    /\ UNCHANGED <<diskVars, published, nextId, writerVars, rpc, rsnap, rview, dead, touched,
                   ghostVars, counters>>

\* The merged answer is returned and the snapshot dropped.
FinishSearch(r) ==
    /\ rpc[r] = "scan"
    /\ rtodo[r] = {}
    /\ rpc' = [rpc EXCEPT ![r] = "idle"]
    /\ rsnap' = [rsnap EXCEPT ![r] = {}]
    /\ hits' = [hits EXCEPT ![r] = {}]
    /\ dead' = [dead EXCEPT ![r] = {}]
    /\ touched' = [touched EXCEPT ![r] = {}]
    /\ rview' = [rview EXCEPT ![r] = [p \in Path |-> {}]]
    /\ UNCHANGED <<diskVars, memVars, writerVars, rtodo, ghostVars, counters>>

\* What the merged answer of a finished scan holds for path p.
Answer(r, p) == Newest({h \in hits[r] : entries[h[1]][h[2]].path = p})

-----------------------------------------------------------------------------
(* Process death and start *)

\* The process is killed: memory, the running operation and the searches are gone.
Crash ==
    /\ pc # "down"
    /\ crashes < MaxCrashes
    /\ crashes' = crashes + 1
    /\ CrashDuringRemoval \/ partial \cap targets = {}
    /\ pc' = "down"
    /\ published' = {}
    /\ nextId' = 0
    /\ cached' = {}
    /\ cache' = NoSegments
    /\ job' = "apply"
    /\ fresh' = {} /\ todo' = {} /\ targets' = {}
    /\ doomed' = NoSegments
    /\ current' = 0
    /\ failed' = FALSE
    /\ entries' = [id \in SegId |-> IF id \in dirs THEN entries[id] ELSE <<>>]
    /\ suspect' = suspect \cup inflight
    /\ inflight' = {}
    /\ goal' = [truth |-> truth, suspect |-> suspect']
    /\ rpc' = [r \in Readers |-> "idle"]
    /\ rsnap' = [r \in Readers |-> {}]
    /\ rtodo' = [r \in Readers |-> {}]
    /\ hits' = [r \in Readers |-> {}]
    /\ rview' = [r \in Readers |-> [p \in Path |-> {}]]
    /\ dead' = [r \in Readers |-> {}]
    /\ touched' = [r \in Readers |-> {}]
    /\ UNCHANGED <<dirs, tomb, partial, broken, truth, faults, ops>>

\* SegmentManager::new opens every seg_NNNN directory, publishes what it found and counts
\* on after the largest id.  One directory that cannot be opened fails the start.
CountedFreeId(n) == n = Cardinality(dirs)
FirstFreeId(n) == (\A id \in dirs : id < n) /\ (n # 0 => (n - 1) \in dirs)

Restart ==
    /\ pc = "down"
    /\ broken = {}
    /\ published' = dirs
    /\ nextId' \in {n \in 0 .. MaxSegId : FirstFreeId(n)}
    /\ pc' = "idle"
    /\ UNCHANGED <<diskVars, cached, cache, job, fresh, todo, targets, doomed, current, failed,
                   readerVars, ghostVars, counters>>

-----------------------------------------------------------------------------
Init ==
    /\ dirs = {}
    /\ entries = [id \in SegId |-> <<>>]
    /\ tomb = NoSegments
    /\ partial = {} /\ broken = {}
    /\ published = {}
    /\ nextId = 0
    /\ cached = {}
    /\ cache = NoSegments
    /\ pc = "idle" /\ job = "apply"
    /\ fresh = {} /\ todo = {} /\ targets = {}
    /\ doomed = NoSegments
    /\ current = 0
    /\ failed = FALSE
    /\ faults = 0 /\ ops = 0 /\ crashes = 0
    /\ rpc = [r \in Readers |-> "idle"]
    /\ rsnap = [r \in Readers |-> {}]
    /\ rtodo = [r \in Readers |-> {}]
    /\ hits = [r \in Readers |-> {}]
    /\ rview = [r \in Readers |-> [p \in Path |-> {}]]
    /\ dead = [r \in Readers |-> {}]
    /\ touched = [r \in Readers |-> {}]
    /\ inflight = {}
    /\ truth = [p \in Path |-> {}]
    /\ suspect = {}
    /\ goal = [truth |-> truth, suspect |-> suspect]

\* A batch names each path at most once: both detectors deduplicate by path.
Changes == UNION {[P -> ChangeKind] : P \in SUBSET Path}

Batch == \E batch \in Changes : \E read \in [DOMAIN batch -> Option] :
            ApplyChanges(batch, read)

FirstIndex == \E P \in (SUBSET Path) \ {{}} : \E contents \in [P -> Content] : IndexFiles(contents)

WriterStep ==
    \/ \E id \in SegId : BuildSegment(id)
    \/ BuildsFailed
    \/ BuildsDone
    \/ \E id \in SegId : WriteTombstones(id)
    \/ SetCachedTombstones
    \/ PublishChanges
    \/ PublishCompacted
    \/ \E id \in SegId : UnlinkFile(id)
    \/ \E id \in SegId : RemoveDir(id)
    \/ CompactionDone

Fault ==
    \/ \E id \in SegId : FailBuild(id)
    \/ FailTombstones
    \/ \E id \in SegId : FailRemoveDir(id)

ReaderStep(r) ==
    \/ \E id \in SegId : SearchSegment(r, id)
    \/ FinishSearch(r)

Next ==
    \/ Batch
    \/ FirstIndex
    \/ Compact
    \/ WriterStep
    \/ Fault
    \/ \E r \in Readers : TakeSnapshot(r) \/ ReaderStep(r)
    \/ Crash
    \/ Restart

Spec == Init /\ [][Next]_vars

-----------------------------------------------------------------------------
(* Properties *)

FileId == Nat \ {0}

\* What every variable holds; ids stay below the bound.
TypeOK ==
    /\ dirs \in SUBSET SegId
    /\ entries \in [SegId -> Seq(Entry)]
    /\ tomb \in [SegId -> SUBSET FileId]
    /\ partial \in SUBSET SegId
    /\ broken \in SUBSET SegId
    /\ published \in SUBSET SegId
    /\ nextId \in 0 .. MaxSegId
    /\ cached \in SUBSET SegId
    /\ cache \in [SegId -> SUBSET FileId]
    /\ pc \in {"idle", "build", "tombstone", "setcache", "publish", "remove", "down"}
    /\ job \in {"apply", "compact"}
    /\ fresh \in SUBSET SegId
    /\ todo \in SUBSET SegId
    /\ targets \in SUBSET SegId
    /\ doomed \in [SegId -> SUBSET FileId]
    /\ current \in SegId
    /\ failed \in BOOLEAN
    /\ faults \in 0 .. MaxFaults
    /\ ops \in 0 .. MaxOps
    /\ crashes \in 0 .. MaxCrashes
    /\ rpc \in [Readers -> {"idle", "scan"}]
    /\ rsnap \in [Readers -> SUBSET SegId]
    /\ rtodo \in [Readers -> SUBSET SegId]
    /\ hits \in [Readers -> SUBSET (SegId \X FileId)]
    /\ rview \in [Readers -> View]
    /\ dead \in [Readers -> SUBSET (SegId \X FileId)]
    /\ touched \in [Readers -> SUBSET Path]
    /\ inflight \in SUBSET Path
    /\ truth \in View
    /\ suspect \in SUBSET Path
    /\ goal \in [truth : View, suspect : SUBSET Path]

\* A search never returns an entry that was tombstoned before it took its snapshot, not
\* even when a compaction deletes the segment's directory, tombstones.bin included, while
\* the search runs: load_tombstones takes a missing file for "no tombstones".
NoResurrection == \A r \in Readers : hits[r] \cap dead[r] = {}

\* While the process runs, no segment ever loses a tombstone: neither apply_changes, which
\* rewrites tombstones.bin, nor compaction, which deletes it, nor a search that loads it in
\* between.
TombstonesGrow ==
    [][pc' # "down" => \A id \in SegId : LoadTombstones(id) \subseteq LoadTombstones(id)']_vars

\* The answer of a search, for every path no batch has changed since its snapshot, is what
\* the index held at the snapshot, whatever compactions did in between.
UntouchedFilesStable ==
    \A r \in Readers : rpc[r] = "scan" /\ rtodo[r] = {} =>
        \A p \in Path \ touched[r] : Answer(r, p) = rview[r][p]

\* A search that starts now sees, for every path held in one version, what the last
\* completed batch gave it: compaction, and a batch for other paths, are invisible.
QueriesSeeTruth ==
    pc # "down" =>
        \A p \in Path \ (suspect \cup inflight) : GetFile(published, Tombstones, p) = truth[p]

\* After a kill at any step, the next start finds for every such path what the last
\* completed batch gave it.
RestartSeesTruth ==
    pc = "down" => \A p \in Path \ suspect : GetFile(dirs, tomb, p) = truth[p]

\* Segments are built before the old entries are tombstoned, a failed build tombstones nothing,
\* and a compaction removes what it has merged last: a file whose content only changes is on
\* disk at every moment, in a directory that opens, in its old version or in its new one,
\* whichever step fails, whatever is killed and however often.
FilesSurvive ==
    \A p \in Path \ suspect : truth[p] # {} /\ goal.truth[p] # {} =>
        \E c \in Copies(dirs \ broken, tomb, p) :
            entries[c[1]][c[2]].content \in truth[p] \cup goal.truth[p]

\* The list only ever names segments that are on disk, and an id is never given to a second
\* segment while the first is in use: by the list, by a directory or by the cache; the counter
\* stops at its limit and does not start again.
ListMatchesDisk ==
    /\ published \subseteq dirs
    /\ fresh \cap published = {}
    /\ pc # "down" => \A id \in dirs \cup cached : id < nextId
    /\ nextId <= MaxSegId

=============================================================================
