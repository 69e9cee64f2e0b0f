------------------------- MODULE SegmentIndexProofs -------------------------
(***************************************************************************)
(* Proofs about SegmentIndex for every set of paths, contents and searches *)
(* and all bounds: type correctness, no search returns an entry that was   *)
(* tombstoned before its snapshot, a search answers with the state of its  *)
(* snapshot for every path no batch touches, a search that starts now and  *)
(* a restarted process find what the completed batches say, and a file     *)
(* that is only replaced is always on disk.                                *)
(***************************************************************************)
EXTENDS SegmentIndex, SequenceTheorems, WellFoundedInduction, TLAPS

(***************************************************************************)
(* Type correctness                                                        *)
(***************************************************************************)

\* Whatever load_tombstones returns is a set of file ids.
LEMMA LoadType == ASSUME TypeOK, NEW id \in SegId PROVE LoadTombstones(id) \in SUBSET FileId
BY DEF TypeOK, LoadTombstones

\* Loading tombstones keeps the cache a map from segments to sets of file ids.
LEMMA FillCacheType ==
    ASSUME TypeOK, NEW S \in SUBSET SegId, FillCache(S)
    PROVE  cached' \in SUBSET SegId /\ cache' \in [SegId -> SUBSET FileId]
BY LoadType DEF TypeOK, FillCache

\* A piece of a list of entries, cut inside its bounds, is a list of entries.
LEMMA SubSeqType ==
    ASSUME NEW q \in Seq(Entry), NEW m \in Nat, NEW n \in 0 .. Len(q)
    PROVE  SubSeq(q, m + 1, n) \in Seq(Entry)
<1>1. \A i \in (m + 1) .. n : i \in 1 .. Len(q) /\ q[i] \in Entry
  <2>1. Len(q) \in Nat /\ (\A i \in 1 .. Len(q) : q[i] \in Entry)
    OBVIOUS
  <2>. QED
    BY <2>1
<1>. QED
  BY <1>1, SubSeqProperties

\* The segments allocated for a list of entries are new ids below the counter's limit,
\* each with a list of entries.
LEMMA AllocateType ==
    ASSUME TypeOK, NEW files \in Seq(Entry), Allocate(files)
    PROVE  /\ pc' = "build"
           /\ nextId' \in 0 .. MaxSegId
           /\ fresh' \in SUBSET SegId
           /\ todo' \in SUBSET SegId
           /\ failed' \in BOOLEAN
           /\ entries' \in [SegId -> Seq(Entry)]
<1>1. CASE files = <<>> /\ fresh' = {} /\ todo' = {} /\ failed' = FALSE
           /\ UNCHANGED <<nextId, entries>>
  BY <1>1 DEF Allocate, TypeOK
<1>2. ASSUME NEW k \in 1 .. MaxBatches, NEW c \in Cuts(k, Len(files)),
             IdsLeft(k), nextId' = nextId + k, fresh' = nextId .. (nextId + k - 1),
             todo' = fresh', failed' = FALSE,
             entries' = [id \in SegId |->
                    IF id \in fresh'
                    THEN SubSeq(files, c[id - nextId] + 1, c[id - nextId + 1])
                    ELSE entries[id]]
      PROVE  /\ nextId' \in 0 .. MaxSegId
             /\ fresh' \in SUBSET SegId
             /\ entries' \in [SegId -> Seq(Entry)]
  <2>1. nextId' \in 0 .. MaxSegId /\ fresh' \in SUBSET SegId
    BY <1>2, BoundsAssumption DEF TypeOK, IdsLeft, SegId
  <2>2. ASSUME NEW id \in fresh'
        PROVE  SubSeq(files, c[id - nextId] + 1, c[id - nextId + 1]) \in Seq(Entry)
    <3>1. id - nextId \in 0 .. k /\ id - nextId + 1 \in 0 .. k
      BY <1>2, <2>2, BoundsAssumption DEF TypeOK
    <3>2. c[id - nextId] \in Nat /\ c[id - nextId + 1] \in 0 .. Len(files)
      BY <3>1 DEF Cuts
    <3>. QED
      BY <3>2, SubSeqType
  <2>3. ASSUME NEW id \in SegId
        PROVE  (IF id \in fresh' THEN SubSeq(files, c[id - nextId] + 1, c[id - nextId + 1])
                                 ELSE entries[id]) \in Seq(Entry)
    BY <2>2 DEF TypeOK
  <2>. QED
    BY <1>2, <2>1, <2>3
<1>3. ASSUME nextId' = MaxSegId, fresh' = {}, todo' = {}, failed' = TRUE, UNCHANGED entries
      PROVE  /\ nextId' \in 0 .. MaxSegId
             /\ entries' \in [SegId -> Seq(Entry)]
  BY <1>3, BoundsAssumption DEF TypeOK
<1>. QED
  BY <1>1, <1>2, <1>3 DEF Allocate

\* A list of the elements of a set of entries is a list of entries.
LEMMA OrderingsType ==
    ASSUME NEW K \in SUBSET Entry, NEW q \in Orderings(K) PROVE q \in Seq(Entry)
<1>1. q \in Seq(K)
  BY DEF Orderings, Lists
<1>. QED
  BY <1>1

\* What compaction lists are entries of the published segments.
LEMMA LiveListsType ==
    ASSUME TypeOK, NEW q \in LiveLists PROVE q \in Seq(Entry)
<1>1. PICK s : Lists(s, Live) /\ q = [i \in DOMAIN s |-> entries[s[i][1]][s[i][2]]]
  BY DEF LiveLists
<1>2. s \in Seq(Live)
  BY <1>1 DEF Lists
<1>3. ASSUME NEW x \in Live PROVE entries[x[1]][x[2]] \in Entry
  <2>1. PICK id \in published : \E f \in DOMAIN entries[id] : x = <<id, f>>
    BY DEF Live
  <2>2. PICK f \in DOMAIN entries[id] : x = <<id, f>>
    BY <2>1
  <2>3. entries[id] \in Seq(Entry)
    BY <2>1 DEF TypeOK
  <2>4. entries[id][f] \in Entry
    BY <2>2, <2>3
  <2>. QED
    BY <2>2, <2>4
<1>4. DOMAIN s = 1 .. Len(s) /\ Len(s) \in Nat /\ \A i \in 1 .. Len(s) : s[i] \in Live
  BY <1>2
<1>5. q \in [1 .. Len(s) -> Entry]
  BY <1>1, <1>3, <1>4
<1>. QED
  BY <1>4, <1>5

\* The version GetFile answers with is a content of the index.
LEMMA GetFileType ==
    ASSUME TypeOK, NEW S \in SUBSET SegId, NEW t, NEW p \in Path
    PROVE  GetFile(S, t, p) \in SUBSET Content
<1>1. ASSUME NEW c \in Copies(S, t, p) PROVE entries[c[1]][c[2]].content \in Content
  <2>1. PICK id \in S : \E f \in DOMAIN entries[id] : c = <<id, f>>
    BY DEF Copies
  <2>2. PICK f \in DOMAIN entries[id] : c = <<id, f>>
    BY <2>1
  <2>3. entries[id] \in Seq(Entry)
    BY <2>1 DEF TypeOK
  <2>4. entries[id][f] \in Entry
    BY <2>2, <2>3
  <2>. QED
    BY <2>2, <2>4 DEF Entry
<1>. QED
  BY <1>1 DEF GetFile, Newest

\* The history variables of a batch are well typed.
LEMMA AnnounceType ==
    ASSUME TypeOK, NEW P \in SUBSET Path, NEW want \in [P -> SUBSET Content],
           NEW blind \in SUBSET P, Announce(want, blind)
    PROVE  /\ inflight' \in SUBSET Path
           /\ goal' \in [truth : View, suspect : SUBSET Path]
           /\ touched' \in [Readers -> SUBSET Path]
<1>1. DOMAIN want = P
  OBVIOUS
<1>2. inflight' \in SUBSET Path
  BY <1>1 DEF Announce
<1>3. touched' \in [Readers -> SUBSET Path]
  BY <1>2 DEF Announce, TypeOK
<1>4. [p \in Path |-> IF p \in DOMAIN want THEN want[p] ELSE truth[p]] \in View
  BY <1>1 DEF TypeOK, View
<1>5. (suspect \ (DOMAIN want \ blind)) \cup
         {p \in blind : GetFile(published, Tombstones, p) \notin {{}, want[p]}} \in SUBSET Path
  BY <1>1 DEF TypeOK
<1>. QED
  BY <1>2, <1>3, <1>4, <1>5 DEF Announce

\* The initial state is well typed.
LEMMA InitType == Init => TypeOK
<1>. SUFFICES ASSUME Init PROVE TypeOK
  OBVIOUS
<1>1. 0 \in SegId /\ 0 \in 0 .. MaxSegId /\ 0 \in 0 .. MaxFaults /\ 0 \in 0 .. MaxOps
      /\ 0 \in 0 .. MaxCrashes
  BY BoundsAssumption DEF SegId
<1>2. <<>> \in Seq(Entry)
  OBVIOUS
<1>3. [p \in Path |-> {}] \in View
  BY DEF View
<1>. QED
  BY <1>1, <1>2, <1>3 DEF Init, TypeOK, NoSegments

\* An operation that ends leaves the writer's variables well typed.
LEMMA ReleaseType ==
    ASSUME TypeOK, Release, truth' \in View, suspect' \in SUBSET Path
    PROVE  /\ pc' = "idle" /\ job' = "apply" /\ fresh' = {} /\ todo' = {} /\ targets' = {}
           /\ doomed' \in [SegId -> SUBSET FileId]
           /\ current' \in SegId
           /\ failed' \in BOOLEAN
           /\ inflight' = {}
           /\ goal' \in [truth : View, suspect : SUBSET Path]
<1>1. 0 \in SegId
  BY BoundsAssumption DEF SegId
<1>2. NoSegments \in [SegId -> SUBSET FileId]
  BY DEF NoSegments
<1>3. [truth |-> truth', suspect |-> suspect'] \in [truth : View, suspect : SUBSET Path]
  OBVIOUS
<1>. QED
  BY <1>1, <1>2, <1>3 DEF Release

\* apply_changes starts in a well-typed state.
LEMMA ApplyChangesType ==
    ASSUME TypeOK, NEW batch \in Changes, NEW read \in [DOMAIN batch -> Option],
           ApplyChanges(batch, read)
    PROVE  TypeOK'
<1>. DEFINE gone == {p \in DOMAIN batch : NeedsTombstone(batch[p])}
            new == {p \in DOMAIN batch :
                      /\ NeedsNewEntry(batch[p])
                      /\ read[p] # {}
                      /\ ~ SkipUnchanged(p, gone, read[p])}
            files == UNION {{[path |-> p, content |-> c] : c \in read[p]} : p \in new}
            hit(id) == {f \in DOMAIN entries[id] \ LoadTombstones(id) :
                          entries[id][f].path \in gone}
            want == [p \in DOMAIN batch |-> IF batch[p] = "Deleted" THEN {} ELSE read[p]]
            blind == {p \in DOMAIN batch : batch[p] = "Created"}
<1>1. DOMAIN batch \in SUBSET Path
  BY DEF Changes
<1>2. \A p \in DOMAIN batch : read[p] \in SUBSET Content
  BY DEF Option
<1>3. files \in SUBSET Entry
  <2>. SUFFICES ASSUME NEW e \in files PROVE e \in Entry
    OBVIOUS
  <2>1. PICK p \in new : \E c \in read[p] : e = [path |-> p, content |-> c]
    OBVIOUS
  <2>. QED
    BY <1>1, <1>2, <2>1 DEF Entry
<1>4. PICK list \in Orderings(files) : Allocate(list)
  BY DEF ApplyChanges
<1>5. list \in Seq(Entry)
  BY <1>3, <1>4, OrderingsType
<1>6. /\ pc' = "build" /\ nextId' \in 0 .. MaxSegId /\ fresh' \in SUBSET SegId
      /\ todo' \in SUBSET SegId /\ failed' \in BOOLEAN /\ entries' \in [SegId -> Seq(Entry)]
  BY <1>4, <1>5, AllocateType
<1>7. /\ inflight' \in SUBSET Path
      /\ goal' \in [truth : View, suspect : SUBSET Path]
      /\ touched' \in [Readers -> SUBSET Path]
  <2>1. want \in [DOMAIN batch -> SUBSET Content] /\ blind \in SUBSET DOMAIN batch
    BY <1>2
  <2>2. Announce(want, blind)
    BY DEF ApplyChanges
  <2>. QED
    BY <1>1, <2>1, <2>2, AnnounceType
<1>8. published \in SUBSET SegId
  BY DEF TypeOK
<1>9. cached' \in SUBSET SegId /\ cache' \in [SegId -> SUBSET FileId]
  BY <1>8, FillCacheType DEF ApplyChanges
<1>10. ASSUME NEW id \in SegId PROVE hit(id) \in SUBSET FileId
  <2>1. entries[id] \in Seq(Entry)
    BY DEF TypeOK
  <2>2. DOMAIN entries[id] \in SUBSET FileId
    BY <2>1 DEF FileId
  <2>. QED
    BY <2>2
<1>11. doomed' \in [SegId -> SUBSET FileId] /\ targets' \in SUBSET SegId
  BY <1>8, <1>10 DEF ApplyChanges
<1>12. ops' \in 0 .. MaxOps
  BY BoundsAssumption DEF ApplyChanges, CountOp, TypeOK
<1>13. job' \in {"apply", "compact"}
  BY DEF ApplyChanges
<1>14. UNCHANGED <<dirs, tomb, partial, broken, published, current, rpc, rsnap, rtodo,
                   hits, rview, dead, truth, suspect, faults, crashes>>
  BY DEF ApplyChanges
<1>. QED
  BY <1>6, <1>7, <1>9, <1>11, <1>12, <1>13, <1>14 DEF TypeOK

\* index_files starts in a well-typed state.
LEMMA IndexFilesType ==
    ASSUME TypeOK, NEW P \in SUBSET Path, NEW contents \in [P -> Content], IndexFiles(contents)
    PROVE  TypeOK'
<1>. DEFINE files == {[path |-> p, content |-> contents[p]] : p \in DOMAIN contents}
            want == [p \in DOMAIN contents |-> {contents[p]}]
<1>1. files \in SUBSET Entry
  BY DEF Entry
<1>2. PICK list \in Orderings(files) : Allocate(list)
  BY DEF IndexFiles
<1>3. list \in Seq(Entry)
  BY <1>1, <1>2, OrderingsType
<1>4. /\ pc' = "build" /\ nextId' \in 0 .. MaxSegId /\ fresh' \in SUBSET SegId
      /\ todo' \in SUBSET SegId /\ failed' \in BOOLEAN /\ entries' \in [SegId -> Seq(Entry)]
  BY <1>2, <1>3, AllocateType
<1>5. /\ inflight' \in SUBSET Path
      /\ goal' \in [truth : View, suspect : SUBSET Path]
      /\ touched' \in [Readers -> SUBSET Path]
  <2>1. want \in [P -> SUBSET Content] /\ DOMAIN contents = P
    OBVIOUS
  <2>2. Announce(want, DOMAIN contents)
    BY DEF IndexFiles
  <2>. QED
    BY <2>1, <2>2, AnnounceType
<1>6. doomed' \in [SegId -> SUBSET FileId] /\ targets' = {} /\ job' = "apply"
  BY DEF IndexFiles, NoSegments
<1>7. ops' \in 0 .. MaxOps
  BY BoundsAssumption DEF IndexFiles, CountOp, TypeOK
<1>8. UNCHANGED <<dirs, tomb, partial, broken, published, cached, cache, current, rpc, rsnap,
                  rtodo, hits, rview, dead, truth, suspect, faults, crashes>>
  BY DEF IndexFiles
<1>. QED
  BY <1>4, <1>5, <1>6, <1>7, <1>8 DEF TypeOK

\* compact starts in a well-typed state.
LEMMA CompactType == ASSUME TypeOK, Compact PROVE TypeOK'
<1>1. PICK list \in LiveLists : Allocate(list)
  BY DEF Compact
<1>2. list \in Seq(Entry)
  BY <1>1, LiveListsType
<1>3. /\ pc' = "build" /\ nextId' \in 0 .. MaxSegId /\ fresh' \in SUBSET SegId
      /\ todo' \in SUBSET SegId /\ failed' \in BOOLEAN /\ entries' \in [SegId -> Seq(Entry)]
  BY <1>1, <1>2, AllocateType
<1>4. /\ inflight' \in SUBSET Path
      /\ goal' \in [truth : View, suspect : SUBSET Path]
      /\ touched' \in [Readers -> SUBSET Path]
  <2>1. <<>> \in [{} -> SUBSET Content]
    OBVIOUS
  <2>2. Announce(<<>>, {})
    BY DEF Compact
  <2>. QED
    BY <2>1, <2>2, AnnounceType
<1>5. published \in SUBSET SegId
  BY DEF TypeOK
<1>6. cached' \in SUBSET SegId /\ cache' \in [SegId -> SUBSET FileId]
  BY <1>5, FillCacheType DEF Compact
<1>7. doomed' \in [SegId -> SUBSET FileId] /\ targets' = published /\ job' = "compact"
  BY DEF Compact, NoSegments
<1>8. ops' \in 0 .. MaxOps
  BY BoundsAssumption DEF Compact, CountOp, TypeOK
<1>9. UNCHANGED <<dirs, tomb, partial, broken, published, current, rpc, rsnap, rtodo, hits,
                  rview, dead, truth, suspect, faults, crashes>>
  BY DEF Compact
<1>. QED
  BY <1>3, <1>4, <1>5, <1>6, <1>7, <1>8, <1>9 DEF TypeOK

\* The steps of the operation that holds the lock keep the state well typed.
LEMMA WriterType == ASSUME TypeOK, WriterStep PROVE TypeOK'
<1>. USE DEF diskVars, memVars, writerVars, readerVars, ghostVars, counters
<1>1. ASSUME NEW id \in SegId, BuildSegment(id) PROVE TypeOK'
  BY <1>1 DEF BuildSegment, TypeOK
<1>2. ASSUME BuildsFailed PROVE TypeOK'
  <2>1. truth' \in View /\ suspect' \in SUBSET Path
    BY <1>2 DEF BuildsFailed, Abandon, TypeOK
  <2>. QED
    BY <1>2, <2>1, ReleaseType DEF BuildsFailed, Abandon, TypeOK
<1>3. ASSUME BuildsDone PROVE TypeOK'
  BY <1>3 DEF BuildsDone, TypeOK
<1>4. ASSUME NEW id \in SegId, WriteTombstones(id) PROVE TypeOK'
  <2>1. LoadTombstones(id) \cup doomed[id] \in SUBSET FileId
    BY LoadType DEF TypeOK
  <2>2. tomb' \in [SegId -> SUBSET FileId]
    BY <1>4, <2>1 DEF WriteTombstones, MergedTombstones, TypeOK
  <2>3. cached' \in SUBSET SegId /\ cache' \in [SegId -> SUBSET FileId]
    BY <1>4, FillCacheType DEF WriteTombstones
  <2>. QED
    BY <1>4, <2>2, <2>3 DEF WriteTombstones, TypeOK
<1>5. ASSUME SetCachedTombstones PROVE TypeOK'
  BY <1>5 DEF SetCachedTombstones, TypeOK
<1>6. ASSUME PublishChanges PROVE TypeOK'
  <2>1. truth' \in View /\ suspect' \in SUBSET Path
    BY <1>6 DEF PublishChanges, TypeOK
  <2>. QED
    BY <1>6, <2>1, ReleaseType DEF PublishChanges, TypeOK
<1>7. ASSUME PublishCompacted PROVE TypeOK'
  BY <1>7 DEF PublishCompacted, TypeOK
<1>8. ASSUME NEW id \in SegId, UnlinkFile(id) PROVE TypeOK'
  BY <1>8 DEF UnlinkFile, TypeOK
<1>9. ASSUME NEW id \in SegId, RemoveDir(id) PROVE TypeOK'
  BY <1>9 DEF RemoveDir, TypeOK
<1>10. ASSUME CompactionDone PROVE TypeOK'
  <2>1. truth' \in View /\ suspect' \in SUBSET Path
    BY <1>10 DEF CompactionDone, TypeOK
  <2>. QED
    BY <1>10, <2>1, ReleaseType DEF CompactionDone, TypeOK
<1>. QED
  BY <1>1, <1>2, <1>3, <1>4, <1>5, <1>6, <1>7, <1>8, <1>9, <1>10 DEF WriterStep

\* I/O errors keep the state well typed.
LEMMA FaultType == ASSUME TypeOK, Fault PROVE TypeOK'
<1>. USE DEF diskVars, memVars, writerVars, readerVars, ghostVars
<1>1. ASSUME CountFault PROVE faults' \in 0 .. MaxFaults /\ UNCHANGED <<ops, crashes>>
  BY <1>1, BoundsAssumption DEF CountFault, TypeOK
<1>2. ASSUME NEW id \in SegId, FailBuild(id) PROVE TypeOK'
  BY <1>1, <1>2 DEF FailBuild, TypeOK
<1>3. ASSUME FailTombstones PROVE TypeOK'
  <2>1. truth' \in View /\ suspect' \in SUBSET Path
    BY <1>3 DEF FailTombstones, Abandon, TypeOK
  <2>. QED
    BY <1>1, <1>3, <2>1, ReleaseType DEF FailTombstones, Abandon, TypeOK
<1>4. ASSUME NEW id \in SegId, FailRemoveDir(id) PROVE TypeOK'
  BY <1>1, <1>4 DEF FailRemoveDir, TypeOK
<1>. QED
  BY <1>2, <1>3, <1>4 DEF Fault

\* Searches keep the state well typed.
LEMMA ReaderType ==
    ASSUME TypeOK, NEW r \in Readers, TakeSnapshot(r) \/ ReaderStep(r) PROVE TypeOK'
<1>. USE DEF diskVars, memVars, writerVars, ghostVars, counters
<1>1. ASSUME TakeSnapshot(r) PROVE TypeOK'
  <2>1. published \in SUBSET SegId
    BY DEF TypeOK
  <2>2. [p \in Path |-> GetFile(published, Tombstones, p)] \in View
    BY <2>1, GetFileType DEF View
  <2>3. UNION {{<<id, f>> : f \in LoadTombstones(id)} : id \in published}
          \in SUBSET (SegId \X FileId)
    BY <2>1, LoadType
  <2>4. rview' \in [Readers -> View]
    BY <1>1, <2>2 DEF TakeSnapshot, TypeOK
  <2>5. dead' \in [Readers -> SUBSET (SegId \X FileId)]
    BY <1>1, <2>3 DEF TakeSnapshot, TypeOK
  <2>. QED
    BY <1>1, <2>4, <2>5 DEF TakeSnapshot, TypeOK
<1>2. ASSUME NEW id \in SegId, SearchSegment(r, id) PROVE TypeOK'
  <2>1. cached' \in SUBSET SegId /\ cache' \in [SegId -> SUBSET FileId]
    BY <1>2, FillCacheType DEF SearchSegment
  <2>2. DOMAIN entries[id] \in SUBSET FileId
    <3>1. entries[id] \in Seq(Entry)
      BY DEF TypeOK
    <3>. QED
      BY <3>1 DEF FileId
  <2>3. {<<id, f>> : f \in DOMAIN entries[id] \ LoadTombstones(id)} \in SUBSET (SegId \X FileId)
    BY <2>2
  <2>4. hits' \in [Readers -> SUBSET (SegId \X FileId)]
    BY <1>2, <2>3 DEF SearchSegment, TypeOK
  <2>. QED
    BY <1>2, <2>1, <2>4 DEF SearchSegment, TypeOK
<1>3. ASSUME FinishSearch(r) PROVE TypeOK'
  <2>1. [p \in Path |-> {}] \in View
    BY DEF View
  <2>. QED
    BY <1>3, <2>1 DEF FinishSearch, TypeOK
<1>. QED
  BY <1>1, <1>2, <1>3 DEF ReaderStep

\* Being killed leaves a well-typed state.
LEMMA CrashType == ASSUME TypeOK, Crash PROVE TypeOK'
<1>1. 0 \in SegId /\ 0 \in 0 .. MaxSegId
  BY BoundsAssumption DEF SegId
<1>2. NoSegments \in [SegId -> SUBSET FileId]
  BY DEF NoSegments
<1>3. [p \in Path |-> {}] \in View
  BY DEF View
<1>4. entries' \in [SegId -> Seq(Entry)]
  <2>1. <<>> \in Seq(Entry)
    OBVIOUS
  <2>. QED
    BY <2>1 DEF Crash, TypeOK
<1>5. crashes' \in 0 .. MaxCrashes
  BY BoundsAssumption DEF Crash, TypeOK
<1>6. suspect' \in SUBSET Path /\ truth \in View
  BY DEF Crash, TypeOK
<1>7. goal' \in [truth : View, suspect : SUBSET Path]
  BY <1>6 DEF Crash
<1>. QED
  BY <1>1, <1>2, <1>3, <1>4, <1>5, <1>6, <1>7 DEF Crash, TypeOK

\* Every step leaves a well-typed state.
LEMMA NextType == ASSUME TypeOK, [Next]_vars PROVE TypeOK'
<1>1. ASSUME Batch PROVE TypeOK'
  BY <1>1, ApplyChangesType DEF Batch
<1>2. ASSUME FirstIndex PROVE TypeOK'
  BY <1>2, IndexFilesType DEF FirstIndex
<1>3. ASSUME NEW r \in Readers, TakeSnapshot(r) \/ ReaderStep(r) PROVE TypeOK'
  BY <1>3, ReaderType
<1>4. ASSUME Restart PROVE TypeOK'
  BY <1>4 DEF Restart, TypeOK, diskVars, readerVars, ghostVars, counters
<1>5. ASSUME UNCHANGED vars PROVE TypeOK'
  BY <1>5 DEF TypeOK, vars, diskVars, memVars, writerVars, readerVars, ghostVars, counters
<1>. QED
  BY <1>1, <1>2, CompactType, WriterType, FaultType, <1>3, CrashType, <1>4, <1>5 DEF Next

\* The segment manager's state has its type in every reachable state: in particular no
\* operation, crash or restart takes the id counter past its limit.
THEOREM TypeCorrect == Spec => []TypeOK
<1>1. Init => TypeOK
  BY InitType
<1>2. TypeOK /\ [Next]_vars => TypeOK'
  BY NextType
<1>. QED
  BY <1>1, <1>2, PTL DEF Spec

(***************************************************************************)
(* No tombstone is lost and no deleted entry comes back                    *)
(***************************************************************************)

\* Why tombstones cannot get lost: a segment about to be removed is cached, and a set about
\* to be cached includes the one in the cache.
TombstoneInv ==
    /\ job = "compact" => targets \subseteq cached
    /\ pc \in {"publish", "remove"} => job = "compact"
    /\ pc = "setcache" => LoadTombstones(current) \subseteq tomb[current]

\* What a search found tombstoned is still tombstoned.
DeadStaysDead == \A r \in Readers : \A d \in dead[r] : d[2] \in LoadTombstones(d[1])

\* Filling the cache from the disk changes nothing that load_tombstones returns.
LEMMA FillCacheKeeps ==
    ASSUME TypeOK, NEW S \in SUBSET SegId, FillCache(S), UNCHANGED tomb, NEW id \in SegId
    PROVE  LoadTombstones(id)' = LoadTombstones(id)
BY DEF TypeOK, FillCache, LoadTombstones

\* Steps that touch neither the disk's tombstones nor the cache.
LEMMA SameTombstones ==
    ASSUME UNCHANGED <<tomb, cached, cache>>, NEW id
    PROVE  LoadTombstones(id)' = LoadTombstones(id)
BY DEF LoadTombstones

\* While the process runs, a step only adds tombstones.
LEMMA StepGrows ==
    ASSUME TypeOK, TombstoneInv, [Next]_vars, pc' # "down", NEW id \in SegId
    PROVE  LoadTombstones(id) \subseteq LoadTombstones(id)'
<1>. USE DEF diskVars, memVars, writerVars, readerVars, ghostVars, counters
<1>1. published \in SUBSET SegId /\ current \in SegId /\ tomb \in [SegId -> SUBSET FileId]
      /\ cache \in [SegId -> SUBSET FileId] /\ cached \in SUBSET SegId
  BY DEF TypeOK
<1>2. CASE Batch
  BY <1>1, <1>2, FillCacheKeeps DEF Batch, ApplyChanges
<1>3. CASE FirstIndex
  BY <1>3, SameTombstones DEF FirstIndex, IndexFiles
<1>4. CASE Compact
  BY <1>1, <1>4, FillCacheKeeps DEF Compact
<1>5. CASE WriterStep
  <2>1. ASSUME NEW i \in SegId, WriteTombstones(i) PROVE LoadTombstones(id) \subseteq LoadTombstones(id)'
    BY <1>1, <2>1 DEF WriteTombstones, FillCache, LoadTombstones
  <2>2. CASE SetCachedTombstones
    BY <1>1, <2>2 DEF SetCachedTombstones, LoadTombstones, TombstoneInv
  <2>3. ASSUME NEW i \in SegId, UnlinkFile(i) \/ RemoveDir(i)
        PROVE  LoadTombstones(id) \subseteq LoadTombstones(id)'
    <3>1. i \in cached
      BY <2>3 DEF UnlinkFile, RemoveDir, NextToRemove, TombstoneInv
    <3>. QED
      BY <1>1, <2>3, <3>1 DEF UnlinkFile, RemoveDir, LoadTombstones
  <2>4. ASSUME NEW i \in SegId, BuildSegment(i) PROVE LoadTombstones(id) \subseteq LoadTombstones(id)'
    BY <2>4, SameTombstones DEF BuildSegment
  <2>5. CASE BuildsFailed \/ BuildsDone \/ PublishChanges \/ PublishCompacted \/ CompactionDone
    BY <2>5, SameTombstones
       DEF BuildsFailed, Abandon, BuildsDone, PublishChanges, PublishCompacted, CompactionDone
  <2>. QED
    BY <1>5, <2>1, <2>2, <2>3, <2>4, <2>5 DEF WriterStep
<1>6. CASE Fault
  BY <1>6, SameTombstones DEF Fault, FailBuild, FailTombstones, Abandon, FailRemoveDir
<1>7. ASSUME NEW r \in Readers, TakeSnapshot(r) \/ ReaderStep(r)
      PROVE  LoadTombstones(id) \subseteq LoadTombstones(id)'
  <2>1. ASSUME NEW i \in SegId, SearchSegment(r, i) PROVE LoadTombstones(id) \subseteq LoadTombstones(id)'
    BY <2>1, FillCacheKeeps DEF SearchSegment
  <2>2. CASE TakeSnapshot(r) \/ FinishSearch(r)
    BY <2>2, SameTombstones DEF TakeSnapshot, FinishSearch
  <2>. QED
    BY <1>7, <2>1, <2>2 DEF ReaderStep
<1>8. CASE Crash
  BY <1>8 DEF Crash
<1>9. CASE Restart
  BY <1>9, SameTombstones DEF Restart
<1>10. CASE UNCHANGED vars
  BY <1>10, SameTombstones DEF vars
<1>. QED
  BY <1>2, <1>3, <1>4, <1>5, <1>6, <1>7, <1>8, <1>9, <1>10 DEF Next

\* The cache of a segment that is to be removed stays filled, and the set on its way to the
\* cache stays the larger one.
LEMMA TombstoneInvStep == ASSUME TypeOK, TombstoneInv, [Next]_vars PROVE TombstoneInv'
<1>. USE DEF diskVars, memVars, writerVars, readerVars, ghostVars, counters
<1>1. published \in SUBSET SegId /\ current \in SegId /\ tomb \in [SegId -> SUBSET FileId]
      /\ cache \in [SegId -> SUBSET FileId] /\ cached \in SUBSET SegId
  BY DEF TypeOK
<1>2. CASE Batch \/ FirstIndex
  BY <1>2 DEF Batch, ApplyChanges, FirstIndex, IndexFiles, Allocate, TombstoneInv
<1>3. CASE Compact
  BY <1>3 DEF Compact, FillCache, Allocate, TombstoneInv
<1>4. CASE WriterStep
  <2>1. ASSUME NEW i \in SegId, WriteTombstones(i) PROVE TombstoneInv'
    <3>1. LoadTombstones(i)' = LoadTombstones(i) /\ cached \subseteq cached'
      BY <1>1, <2>1 DEF WriteTombstones, FillCache, LoadTombstones
    <3>2. tomb'[i] = LoadTombstones(i) \cup doomed[i]
      BY <1>1, <2>1 DEF WriteTombstones, MergedTombstones
    <3>. QED
      BY <2>1, <3>1, <3>2 DEF WriteTombstones, TombstoneInv, LoadTombstones
  <2>2. CASE SetCachedTombstones
    BY <2>2 DEF SetCachedTombstones, TombstoneInv
  <2>3. ASSUME NEW i \in SegId, UnlinkFile(i) \/ RemoveDir(i) \/ BuildSegment(i) PROVE TombstoneInv'
    BY <2>3 DEF UnlinkFile, RemoveDir, BuildSegment, TombstoneInv
  <2>4. CASE BuildsFailed \/ PublishChanges \/ CompactionDone
    BY <2>4 DEF BuildsFailed, Abandon, PublishChanges, CompactionDone, Release, TombstoneInv
  <2>5. CASE BuildsDone \/ PublishCompacted
    BY <2>5 DEF BuildsDone, PublishCompacted, TombstoneInv
  <2>. QED
    BY <1>4, <2>1, <2>2, <2>3, <2>4, <2>5 DEF WriterStep
<1>5. CASE Fault
  BY <1>5 DEF Fault, FailBuild, FailTombstones, Abandon, Release, FailRemoveDir, TombstoneInv
<1>6. ASSUME NEW r \in Readers, TakeSnapshot(r) \/ ReaderStep(r) PROVE TombstoneInv'
  <2>1. ASSUME NEW i \in SegId, SearchSegment(r, i) PROVE TombstoneInv'
    <3>1. LoadTombstones(current)' = LoadTombstones(current)
      BY <1>1, <2>1, FillCacheKeeps DEF SearchSegment
    <3>. QED
      BY <2>1, <3>1 DEF SearchSegment, FillCache, TombstoneInv
  <2>2. CASE TakeSnapshot(r) \/ FinishSearch(r)
    BY <2>2, SameTombstones DEF TakeSnapshot, FinishSearch, TombstoneInv
  <2>. QED
    BY <1>6, <2>1, <2>2 DEF ReaderStep
<1>7. CASE Crash
  BY <1>7 DEF Crash, TombstoneInv
<1>8. CASE Restart
  BY <1>8 DEF Restart, TombstoneInv
<1>9. CASE UNCHANGED vars
  BY <1>9, SameTombstones DEF vars, TombstoneInv
<1>. QED
  BY <1>2, <1>3, <1>4, <1>5, <1>6, <1>7, <1>8, <1>9 DEF Next

\* apply_changes, compaction and searches never make a running process lose a tombstone.
THEOREM TombstonesNeverLost == Spec => TombstonesGrow
<1>1. Init => TypeOK /\ TombstoneInv
  BY InitType DEF Init, TombstoneInv
<1>2. TypeOK /\ TombstoneInv /\ [Next]_vars => (TypeOK /\ TombstoneInv)'
  BY NextType, TombstoneInvStep
<1>3. TypeOK /\ TombstoneInv /\ [Next]_vars =>
        [pc' # "down" => \A id \in SegId : LoadTombstones(id) \subseteq LoadTombstones(id)']_vars
  BY StepGrows
<1>. QED
  BY <1>1, <1>2, <1>3, PTL DEF Spec, TombstonesGrow

\* What a search knows to be dead stays tombstoned, and it collects only what is not.
LEMMA ResurrectionStep ==
    ASSUME TypeOK, TombstoneInv, DeadStaysDead, NoResurrection, [Next]_vars
    PROVE  DeadStaysDead' /\ NoResurrection'
<1>. USE DEF diskVars, memVars, writerVars, readerVars, ghostVars, counters
<1>1. /\ hits \in [Readers -> SUBSET (SegId \X FileId)]
      /\ dead \in [Readers -> SUBSET (SegId \X FileId)]
      /\ published \in SUBSET SegId
  BY DEF TypeOK
<1>2. ASSUME pc' # "down", UNCHANGED dead PROVE DeadStaysDead'
  BY <1>1, <1>2, StepGrows DEF DeadStaysDead
<1>3. ASSUME NEW r \in Readers, TakeSnapshot(r) PROVE DeadStaysDead' /\ NoResurrection'
  <2>1. \A id \in SegId : LoadTombstones(id)' = LoadTombstones(id)
    BY <1>3, SameTombstones DEF TakeSnapshot
  <2>2. \A d \in dead'[r] : d[2] \in LoadTombstones(d[1]) /\ d[1] \in SegId
    BY <1>1, <1>3 DEF TakeSnapshot
  <2>3. \A s \in Readers \ {r} : dead'[s] = dead[s] /\ hits'[s] = hits[s]
    BY <1>1, <1>3 DEF TakeSnapshot
  <2>4. DeadStaysDead'
    BY <1>1, <2>1, <2>2, <2>3 DEF DeadStaysDead
  <2>5. hits'[r] = {}
    BY <1>1, <1>3 DEF TakeSnapshot
  <2>. QED
    BY <2>3, <2>4, <2>5 DEF NoResurrection
<1>4. ASSUME NEW r \in Readers, NEW id \in SegId, SearchSegment(r, id)
      PROVE  DeadStaysDead' /\ NoResurrection'
  <2>1. \A i \in SegId : LoadTombstones(i)' = LoadTombstones(i)
    BY <1>4, FillCacheKeeps DEF SearchSegment
  <2>2. DeadStaysDead'
    BY <1>1, <1>4, <2>1 DEF SearchSegment, DeadStaysDead
  <2>3. hits'[r] = hits[r] \cup {<<id, f>> : f \in DOMAIN entries[id] \ LoadTombstones(id)}
        /\ dead' = dead
    BY <1>1, <1>4 DEF SearchSegment
  <2>4. hits'[r] \cap dead'[r] = {}
    <3>1. ASSUME NEW f, f \notin LoadTombstones(id) PROVE <<id, f>> \notin dead[r]
      BY <3>1 DEF DeadStaysDead
    <3>. QED
      BY <2>3, <3>1 DEF NoResurrection
  <2>5. \A s \in Readers \ {r} : hits'[s] = hits[s]
    BY <1>1, <1>4 DEF SearchSegment
  <2>. QED
    BY <2>2, <2>3, <2>4, <2>5 DEF NoResurrection
<1>5. ASSUME NEW r \in Readers, FinishSearch(r) PROVE DeadStaysDead' /\ NoResurrection'
  <2>1. \A id \in SegId : LoadTombstones(id)' = LoadTombstones(id)
    BY <1>5, SameTombstones DEF FinishSearch
  <2>. QED
    BY <1>1, <1>5, <2>1 DEF FinishSearch, NoResurrection, DeadStaysDead
<1>6. CASE Crash
  BY <1>6 DEF Crash, NoResurrection, DeadStaysDead
<1>7. ASSUME pc' # "down", UNCHANGED <<hits, dead>> PROVE DeadStaysDead' /\ NoResurrection'
  BY <1>2, <1>7 DEF NoResurrection
<1>8. CASE Batch \/ FirstIndex \/ Compact
  BY <1>7, <1>8 DEF Batch, ApplyChanges, FirstIndex, IndexFiles, Compact, Allocate
<1>9. CASE WriterStep \/ Fault
  <2>1. UNCHANGED <<hits, dead>> 
    BY <1>9 DEF WriterStep, Fault, BuildSegment, BuildsFailed, Abandon, BuildsDone,
         WriteTombstones, SetCachedTombstones, PublishChanges, PublishCompacted, UnlinkFile,
         RemoveDir, CompactionDone, FailBuild, FailTombstones, FailRemoveDir
  <2>2. pc' # "down"
    BY <1>9 DEF WriterStep, Fault, BuildSegment, BuildsFailed, Abandon, BuildsDone, Release,
         WriteTombstones, SetCachedTombstones, PublishChanges, PublishCompacted, UnlinkFile,
         RemoveDir, CompactionDone, FailBuild, FailTombstones, FailRemoveDir
  <2>. QED
    BY <1>7, <2>1, <2>2
<1>10. CASE Restart
  BY <1>7, <1>10 DEF Restart
<1>11. CASE UNCHANGED vars
  <2>1. \A id \in SegId : LoadTombstones(id)' = LoadTombstones(id)
    BY <1>11, SameTombstones DEF vars
  <2>. QED
    BY <1>1, <1>11, <2>1 DEF vars, NoResurrection, DeadStaysDead
<1>. QED
  BY <1>3, <1>4, <1>5, <1>6, <1>8, <1>9, <1>10, <1>11 DEF Next, ReaderStep

\* No search returns an entry that was tombstoned before it took its snapshot, whatever
\* batches, compactions, I/O errors and restarts happen meanwhile.
THEOREM DeletedStaysDeleted == Spec => []NoResurrection
<1>. DEFINE Inv == TypeOK /\ TombstoneInv /\ DeadStaysDead /\ NoResurrection
<1>1. Init => Inv
  BY InitType DEF Init, TombstoneInv, DeadStaysDead, NoResurrection
<1>2. Inv /\ [Next]_vars => Inv'
  BY NextType, TombstoneInvStep, ResurrectionStep
<1>. QED
  BY <1>1, <1>2, PTL DEF Spec

(***************************************************************************)
(* The published list and the segments directory                           *)
(***************************************************************************)

\* What ListMatchesDisk says beyond the range of the counter.
ListOnDisk ==
    /\ published \subseteq dirs
    /\ fresh \cap published = {}
    /\ pc # "down" => \A id \in dirs \cup cached : id < nextId

\* Why the list and the disk agree: a segment is published only after its build, removed
\* only after it has left the list, and every id in use is below the counter.
ListInv ==
    /\ ~ failed => fresh \subseteq dirs \cup todo
    /\ pc \in {"tombstone", "setcache", "publish"} => todo = {} /\ ~ failed
    /\ pc \in {"tombstone", "setcache", "down"} => job = "apply"
    /\ pc = "setcache" => current \in targets
    /\ pc = "remove" => targets \cap published = {} /\ fresh = {}
    /\ job = "compact" /\ pc # "remove" => targets = published
    /\ pc = "down" =>
         /\ published = {} /\ fresh = {} /\ todo = {} /\ targets = {} /\ cached = {}
         /\ \A r \in Readers : rtodo[r] = {}
    /\ pc # "down" =>
         /\ \A id \in fresh \cup todo \cup targets : id < nextId
         /\ \A r \in Readers : \A id \in rtodo[r] : id < nextId

\* Allocated ids are new: at or above the old counter, below the new one.
LEMMA AllocateNew ==
    ASSUME TypeOK, NEW files, Allocate(files)
    PROVE  /\ pc' = "build" /\ todo' = fresh' /\ nextId <= nextId'
           /\ nextId \in Nat /\ nextId' \in Nat /\ fresh' \in SUBSET Nat
           /\ \A id \in fresh' : nextId <= id /\ id < nextId'
<1>1. nextId \in 0 .. MaxSegId /\ MaxSegId \in Nat
  BY BoundsAssumption DEF TypeOK
<1>2. ASSUME NEW k \in 1 .. MaxBatches, nextId' = nextId + k,
             fresh' = nextId .. (nextId + k - 1)
      PROVE  /\ nextId <= nextId' /\ nextId' \in Nat /\ fresh' \in SUBSET Nat
             /\ \A id \in fresh' : nextId <= id /\ id < nextId'
  BY <1>1, <1>2
<1>3. CASE nextId' \in {nextId, MaxSegId} /\ fresh' = {} /\ todo' = {}
  BY <1>1, <1>3 DEF Allocate
<1>. QED
  BY <1>1, <1>2, <1>3 DEF Allocate

\* The agreement of list, disk and counter survives every step of the writer.
LEMMA ListWriterStep ==
    ASSUME TypeOK, TombstoneInv, ListInv, ListOnDisk, WriterStep \/ Fault
    PROVE  ListInv' /\ ListOnDisk'
<1>. USE DEF diskVars, memVars, writerVars, readerVars, ghostVars, counters, ListInv,
             ListOnDisk
<1>1. ASSUME NEW i \in SegId, BuildSegment(i) \/ FailBuild(i) PROVE ListInv' /\ ListOnDisk'
  BY <1>1 DEF BuildSegment, FailBuild, CountFault
<1>2. CASE BuildsFailed \/ FailTombstones
  BY <1>2 DEF BuildsFailed, FailTombstones, Abandon, Release
<1>3. CASE BuildsDone
  <2>1. job \in {"apply", "compact"}
    BY DEF TypeOK
  <2>. QED
    BY <1>3, <2>1 DEF BuildsDone
<1>4. ASSUME NEW i \in SegId, WriteTombstones(i) PROVE ListInv' /\ ListOnDisk'
  BY <1>4 DEF WriteTombstones, ReadyToTombstone, FillCache, TombstoneInv
<1>5. CASE SetCachedTombstones
  BY <1>5 DEF SetCachedTombstones, TombstoneInv
<1>6. CASE PublishChanges \/ CompactionDone
  BY <1>6 DEF PublishChanges, CompactionDone, Release
<1>7. CASE PublishCompacted
  BY <1>7 DEF PublishCompacted, TombstoneInv
<1>8. ASSUME NEW i \in SegId, UnlinkFile(i) \/ RemoveDir(i) \/ FailRemoveDir(i)
      PROVE  ListInv' /\ ListOnDisk'
  BY <1>8 DEF UnlinkFile, RemoveDir, FailRemoveDir, CountFault, NextToRemove
<1>. QED
  BY <1>1, <1>2, <1>3, <1>4, <1>5, <1>6, <1>7, <1>8 DEF WriterStep, Fault

\* It survives the start of an operation: the ids allocated are above all ids in use.
LEMMA ListBeginStep ==
    ASSUME TypeOK, ListInv, ListOnDisk, Batch \/ FirstIndex \/ Compact
    PROVE  ListInv' /\ ListOnDisk'
<1>1. /\ pc = "idle" /\ \E files : Allocate(files)
      /\ \/ targets' = published /\ job' = "compact"
         \/ targets' \subseteq published /\ job' = "apply"
      /\ cached' \subseteq cached \cup published
      /\ UNCHANGED <<dirs, published, current, rtodo>>
  <2>1. CASE Batch
    BY <2>1 DEF Batch, ApplyChanges, FillCache
  <2>2. CASE FirstIndex
    BY <2>2 DEF FirstIndex, IndexFiles
  <2>3. CASE Compact
    BY <2>3 DEF Compact, FillCache
  <2>. QED
    BY <2>1, <2>2, <2>3
<1>2. /\ pc' = "build" /\ todo' = fresh' /\ nextId <= nextId'
      /\ nextId \in Nat /\ nextId' \in Nat /\ fresh' \in SUBSET Nat
      /\ \A id \in fresh' : nextId <= id /\ id < nextId'
  BY <1>1, AllocateNew
<1>3. SegId \subseteq Nat /\ dirs \subseteq SegId /\ cached \subseteq SegId
      /\ rtodo \in [Readers -> SUBSET SegId]
  BY BoundsAssumption DEF SegId, TypeOK
<1>4. ASSUME NEW id \in Nat, id < nextId PROVE id < nextId'
  BY <1>2, <1>4
<1>5. /\ \A id \in dirs \cup cached : id < nextId'
      /\ \A r \in Readers : \A id \in rtodo[r] : id < nextId'
  BY <1>1, <1>3, <1>4 DEF ListInv, ListOnDisk
<1>6. fresh' \cap published = {}
  BY <1>1, <1>2, <1>3 DEF ListOnDisk
<1>. QED
  BY <1>1, <1>2, <1>5, <1>6 DEF ListInv, ListOnDisk

\* It survives every step.
LEMMA ListStep ==
    ASSUME TypeOK, TombstoneInv, ListInv, ListOnDisk, [Next]_vars
    PROVE  ListInv' /\ ListOnDisk'
<1>. USE DEF diskVars, memVars, writerVars, readerVars, ghostVars, counters
<1>1. ASSUME NEW r \in Readers, TakeSnapshot(r) \/ ReaderStep(r)
      PROVE  ListInv' /\ ListOnDisk'
  <2>1. rtodo \in [Readers -> SUBSET SegId]
    BY DEF TypeOK
  <2>2. CASE TakeSnapshot(r)
    BY <2>1, <2>2 DEF TakeSnapshot, ListInv, ListOnDisk
  <2>3. ASSUME NEW id \in SegId, SearchSegment(r, id) PROVE ListInv' /\ ListOnDisk'
    BY <2>1, <2>3 DEF SearchSegment, FillCache, ListInv, ListOnDisk
  <2>4. CASE FinishSearch(r)
    BY <2>4 DEF FinishSearch, ListInv, ListOnDisk
  <2>. QED
    BY <1>1, <2>2, <2>3, <2>4 DEF ReaderStep
<1>2. CASE Crash
  BY <1>2 DEF Crash, ListInv, ListOnDisk
<1>3. CASE Restart
  BY <1>3 DEF Restart, FirstFreeId, ListInv, ListOnDisk
<1>4. CASE UNCHANGED vars
  BY <1>4 DEF vars, ListInv, ListOnDisk
<1>. QED
  BY <1>1, <1>2, <1>3, <1>4, ListWriterStep, ListBeginStep DEF Next

\* Every published segment has its directory, and no id in use is handed out again, for any
\* sequence of operations, I/O errors, kills and restarts.
THEOREM ListCorrect == Spec => []ListMatchesDisk
<1>. DEFINE Inv == TypeOK /\ TombstoneInv /\ ListInv /\ ListOnDisk
<1>1. Init => Inv
  BY InitType DEF Init, TombstoneInv, ListInv, ListOnDisk
<1>2. Inv /\ [Next]_vars => Inv'
  BY NextType, TombstoneInvStep, ListStep
<1>3. Inv => ListMatchesDisk
  BY BoundsAssumption DEF TypeOK, ListOnDisk, ListMatchesDisk
<1>. QED
  BY <1>1, <1>2, <1>3, PTL DEF Spec

(***************************************************************************)
(* The phases of an operation                                              *)
(***************************************************************************)

\* The writer is between the start of a batch and its publication.
Applying == job = "apply" /\ pc \in {"build", "tombstone", "setcache"}

\* Which of the writer's variables are in use in which phase.
PhaseInv ==
    /\ todo \subseteq fresh
    /\ pc \in {"idle", "down"} => fresh = {} /\ targets = {}
    /\ ~ Applying => inflight = {} /\ doomed = NoSegments
    /\ pc # "remove" => targets \subseteq published
    /\ job = "compact" => pc \in {"build", "publish", "remove"}
    /\ pc = "down" => \A r \in Readers : rpc[r] = "idle" /\ hits[r] = {}

\* Allocation writes the new segments only.
LEMMA AllocateKeeps ==
    ASSUME TypeOK, NEW files, Allocate(files), NEW id \in SegId, id \notin fresh'
    PROVE  entries'[id] = entries[id]
BY DEF Allocate

\* What the start of every operation has in common: new ids, nothing else on disk or in
\* the list, and the same tombstones.
LEMMA BeginFacts ==
    ASSUME TypeOK, ListInv, ListOnDisk, Batch \/ FirstIndex \/ Compact
    PROVE  /\ pc = "idle" /\ pc' = "build" /\ todo' = fresh'
           /\ \A id \in SegId : LoadTombstones(id)' = LoadTombstones(id)
           /\ \A id \in fresh' : id \notin dirs /\ id \notin cached /\ id \notin published
           /\ \A id \in SegId \ fresh' : entries'[id] = entries[id]
           /\ \A id \in SegId : id < nextId => id \notin fresh' /\ entries'[id] = entries[id]
           /\ cached' \subseteq cached \cup published
           /\ fresh' \subseteq SegId
           /\ nextId <= nextId' /\ nextId \in Nat /\ nextId' \in Nat
           /\ UNCHANGED <<dirs, tomb, partial, broken, published, current, rpc, rsnap, rtodo,
                          hits, rview, dead, truth, suspect, faults, crashes>>
<1>1. /\ pc = "idle" /\ \E files : Allocate(files)
      /\ cached' \subseteq cached \cup published
      /\ UNCHANGED <<dirs, tomb, partial, broken, published, current, rpc, rsnap, rtodo,
                     hits, rview, dead, truth, suspect, faults, crashes>>
  BY DEF Batch, ApplyChanges, FirstIndex, IndexFiles, Compact, FillCache
<1>2. PICK files : Allocate(files)
  BY <1>1
<1>3. /\ pc' = "build" /\ todo' = fresh' /\ nextId <= nextId' /\ nextId \in Nat /\ nextId' \in Nat
      /\ \A id \in fresh' : nextId <= id /\ id < nextId'
  BY <1>2, AllocateNew
<1>4. \A id \in SegId \ fresh' : entries'[id] = entries[id]
  BY <1>2, AllocateKeeps
<1>5. TypeOK'
  BY NextType DEF Next
<1>6. fresh' \subseteq SegId /\ SegId \subseteq Nat
  BY <1>5, BoundsAssumption DEF TypeOK, SegId
<1>7. dirs \subseteq SegId /\ cached \subseteq SegId /\ published \subseteq SegId
  BY DEF TypeOK
<1>8. \A id \in fresh' : id \in Nat /\ id \notin dirs /\ id \notin cached /\ id \notin published
  BY <1>1, <1>3, <1>6, <1>7 DEF ListOnDisk
<1>9. \A id \in SegId : LoadTombstones(id)' = LoadTombstones(id)
  BY <1>7, FillCacheKeeps, SameTombstones
     DEF Batch, ApplyChanges, FirstIndex, IndexFiles, Compact
<1>10. \A id \in SegId : id < nextId => id \notin fresh'
  BY <1>3, <1>6
<1>. QED
  BY <1>1, <1>3, <1>4, <1>6, <1>8, <1>9, <1>10

\* The phases are kept by every step.
LEMMA PhaseStep ==
    ASSUME TypeOK, ListInv, ListOnDisk, PhaseInv, [Next]_vars PROVE PhaseInv'
<1>. USE DEF diskVars, memVars, writerVars, readerVars, ghostVars, counters
<1>1. CASE Batch \/ FirstIndex
  <2>1. job' = "apply" /\ targets' \subseteq published
    BY <1>1 DEF Batch, ApplyChanges, FirstIndex, IndexFiles
  <2>. QED
    BY <1>1, <2>1, BeginFacts DEF PhaseInv, Applying
<1>2. CASE Compact
  <2>1. job' = "compact" /\ targets' = published /\ doomed' = NoSegments /\ inflight' = {}
    BY <1>2 DEF Compact, Announce
  <2>. QED
    BY <1>2, <2>1, BeginFacts DEF PhaseInv, Applying
<1>3. CASE WriterStep \/ Fault
  <2>. USE DEF PhaseInv, Applying
  <2>1. ASSUME NEW i \in SegId, BuildSegment(i) \/ FailBuild(i) PROVE PhaseInv'
    BY <2>1 DEF BuildSegment, FailBuild
  <2>2. CASE BuildsFailed \/ FailTombstones \/ PublishChanges \/ CompactionDone
    BY <2>2 DEF BuildsFailed, FailTombstones, Abandon, PublishChanges, CompactionDone, Release
  <2>3. CASE BuildsDone
    BY <2>3 DEF BuildsDone, TypeOK
  <2>4. ASSUME NEW i \in SegId, WriteTombstones(i) PROVE PhaseInv'
    BY <2>4 DEF WriteTombstones, ReadyToTombstone
  <2>5. CASE SetCachedTombstones
    BY <2>5 DEF SetCachedTombstones
  <2>6. CASE PublishCompacted
    BY <2>6 DEF PublishCompacted, ListInv
  <2>7. ASSUME NEW i \in SegId, UnlinkFile(i) \/ RemoveDir(i) \/ FailRemoveDir(i) PROVE PhaseInv'
    BY <2>7 DEF UnlinkFile, RemoveDir, FailRemoveDir
  <2>. QED
    BY <1>3, <2>1, <2>2, <2>3, <2>4, <2>5, <2>6, <2>7 DEF WriterStep, Fault
<1>4. ASSUME NEW r \in Readers, TakeSnapshot(r) \/ ReaderStep(r) PROVE PhaseInv'
  BY <1>4 DEF ReaderStep, TakeSnapshot, SearchSegment, FinishSearch, PhaseInv, Applying
<1>5. CASE Crash
  BY <1>5 DEF Crash, PhaseInv, Applying
<1>6. CASE Restart
  BY <1>6 DEF Restart, PhaseInv, Applying
<1>7. CASE UNCHANGED vars
  BY <1>7 DEF vars, PhaseInv, Applying
<1>. QED
  BY <1>1, <1>2, <1>3, <1>4, <1>5, <1>6, <1>7 DEF Next

(***************************************************************************)
(* Tombstones on disk, in the cache and on their way                       *)
(***************************************************************************)

\* What a batch is going to tombstone: entries of published segments, for paths of the
\* batch that it does not leave suspect; a segment that is done has them loaded.
DoomedInv ==
    /\ \A id \in SegId : \A f \in doomed[id] :
         /\ id \in published
         /\ f \in DOMAIN entries[id]
         /\ entries[id][f].path \in inflight \ goal.suspect
    /\ \A id \in SegId \ targets : doomed[id] \subseteq LoadTombstones(id)

\* tombstones.bin and the cache say the same of every published segment, except between
\* the rewriting of the file and the update of the cache; new segments have no tombstones.
AgreeInv ==
    /\ \A id \in SegId \ dirs : tomb[id] = {}
    /\ \A id \in fresh : tomb[id] = {} /\ LoadTombstones(id) = {}
    /\ \A id \in published : ~ (pc = "setcache" /\ id = current) => tomb[id] = LoadTombstones(id)
    /\ pc = "setcache" => tomb[current] = LoadTombstones(current) \cup doomed[current]

\* The start of apply_changes names the entries to tombstone.
LEMMA DoomedBatch ==
    ASSUME TypeOK, ListInv, ListOnDisk, PhaseInv, Batch PROVE DoomedInv'
<1>1. PICK batch \in Changes : \E read \in [DOMAIN batch -> Option] : ApplyChanges(batch, read)
  BY DEF Batch
<1>2. PICK read \in [DOMAIN batch -> Option] : ApplyChanges(batch, read)
  BY <1>1
<1>. DEFINE gone == {p \in DOMAIN batch : NeedsTombstone(batch[p])}
            hit(id) == {f \in DOMAIN entries[id] \ LoadTombstones(id) :
                          entries[id][f].path \in gone}
            want == [p \in DOMAIN batch |-> IF batch[p] = "Deleted" THEN {} ELSE read[p]]
            blind == {p \in DOMAIN batch : batch[p] = "Created"}
<1>3. doomed' = [id \in SegId |-> IF id \in published THEN hit(id) ELSE {}]
      /\ targets' = {id \in published : hit(id) # {}}
  BY <1>2 DEF ApplyChanges
<1>4. inflight' = DOMAIN batch
      /\ goal'.suspect = (suspect \ (DOMAIN batch \ blind)) \cup
                    {p \in blind : GetFile(published, Tombstones, p) \notin {{}, want[p]}}
  BY <1>2 DEF ApplyChanges, Announce
<1>5. gone \subseteq inflight' \ goal'.suspect
  BY <1>4 DEF NeedsTombstone
<1>6. /\ \A id \in SegId \ fresh' : entries'[id] = entries[id]
      /\ published \cap fresh' = {} /\ published' = published
  BY BeginFacts
<1>7. published \subseteq SegId
  BY DEF TypeOK
<1>. QED
  BY <1>3, <1>5, <1>6, <1>7 DEF DoomedInv

\* Every step keeps what is doomed within the running batch.
LEMMA DoomedStep ==
    ASSUME TypeOK, TombstoneInv, ListInv, ListOnDisk, PhaseInv, DoomedInv, AgreeInv,
           [Next]_vars
    PROVE  DoomedInv'
<1>. USE DEF diskVars, memVars, writerVars, readerVars, ghostVars, counters
<1>1. ASSUME doomed' = NoSegments PROVE DoomedInv'
  BY <1>1 DEF DoomedInv, NoSegments
<1>2. CASE FirstIndex \/ Compact
  BY <1>1, <1>2 DEF FirstIndex, IndexFiles, Compact
<1>3. ASSUME UNCHANGED <<doomed, published, entries, inflight, goal>>, targets \subseteq targets',
             pc' # "down"
      PROVE  DoomedInv'
  BY <1>3, StepGrows DEF DoomedInv
<1>4. CASE WriterStep \/ Fault
  <2>1. ASSUME NEW i \in SegId, BuildSegment(i) \/ FailBuild(i) PROVE DoomedInv'
    BY <1>3, <2>1 DEF BuildSegment, FailBuild
  <2>2. CASE BuildsFailed \/ FailTombstones \/ PublishChanges \/ CompactionDone
    BY <1>1, <2>2 DEF BuildsFailed, FailTombstones, Abandon, PublishChanges, CompactionDone, Release
  <2>3. CASE BuildsDone
    BY <1>3, <2>3 DEF BuildsDone
  <2>4. ASSUME NEW i \in SegId, WriteTombstones(i) PROVE DoomedInv'
    BY <1>3, <2>4 DEF WriteTombstones
  <2>5. CASE SetCachedTombstones
    <3>1. /\ current \in SegId /\ cache \in [SegId -> SUBSET FileId]
          /\ cached \subseteq SegId
      BY DEF TypeOK
    <3>2. LoadTombstones(current)' = LoadTombstones(current) \cup doomed[current]
      BY <2>5, <3>1 DEF SetCachedTombstones, AgreeInv, LoadTombstones
    <3>3. \A id \in SegId : LoadTombstones(id) \subseteq LoadTombstones(id)'
      BY <2>5, StepGrows DEF SetCachedTombstones
    <3>. QED
      BY <2>5, <3>2, <3>3 DEF SetCachedTombstones, DoomedInv
  <2>6. CASE PublishCompacted
    BY <1>1, <2>6 DEF PublishCompacted, PhaseInv, Applying
  <2>7. ASSUME NEW i \in SegId, UnlinkFile(i) \/ RemoveDir(i) \/ FailRemoveDir(i) PROVE DoomedInv'
    BY <1>1, <2>7 DEF UnlinkFile, RemoveDir, FailRemoveDir, PhaseInv, Applying
  <2>. QED
    BY <1>4, <2>1, <2>2, <2>3, <2>4, <2>5, <2>6, <2>7 DEF WriterStep, Fault
<1>5. ASSUME NEW r \in Readers, TakeSnapshot(r) \/ ReaderStep(r) PROVE DoomedInv'
  <2>1. pc' # "down"
    BY <1>5 DEF ReaderStep, TakeSnapshot, SearchSegment, FinishSearch, PhaseInv
  <2>. QED
    BY <1>3, <1>5, <2>1 DEF ReaderStep, TakeSnapshot, SearchSegment, FinishSearch
<1>6. CASE Crash
  BY <1>1, <1>6 DEF Crash
<1>7. CASE Restart
  BY <1>1, <1>7 DEF Restart, PhaseInv, Applying
<1>8. CASE UNCHANGED vars
  BY <1>8, SameTombstones DEF vars, DoomedInv
<1>. QED
  BY <1>2, <1>4, <1>5, <1>6, <1>7, <1>8, DoomedBatch DEF Next

\* Every step keeps disk and cache in agreement.
LEMMA AgreeStep ==
    ASSUME TypeOK, TombstoneInv, ListInv, ListOnDisk, PhaseInv, AgreeInv, [Next]_vars
    PROVE  AgreeInv'
<1>. USE DEF diskVars, memVars, writerVars, readerVars, ghostVars, counters
<1>1. /\ published \subseteq SegId /\ fresh \subseteq SegId /\ current \in SegId
      /\ cache \in [SegId -> SUBSET FileId] /\ cached \subseteq SegId
      /\ tomb \in [SegId -> SUBSET FileId] /\ dirs \subseteq SegId /\ targets \subseteq SegId
      /\ rtodo \in [Readers -> SUBSET SegId]
  BY DEF TypeOK
<1>2. CASE Batch \/ FirstIndex \/ Compact
  <2>1. \A id \in fresh' : tomb[id] = {} /\ LoadTombstones(id) = {} /\ id \in SegId
    BY <1>2, BeginFacts DEF AgreeInv, LoadTombstones
  <2>. QED
    BY <1>1, <1>2, <2>1, BeginFacts DEF AgreeInv
<1>3. ASSUME \A id \in SegId : LoadTombstones(id)' = LoadTombstones(id),
             UNCHANGED <<pc, tomb, published, fresh, current, doomed>>, dirs \subseteq dirs'
      PROVE  AgreeInv'
  BY <1>1, <1>3 DEF AgreeInv
<1>4. CASE WriterStep \/ Fault
  <2>1. ASSUME NEW i \in SegId, BuildSegment(i) \/ FailBuild(i) PROVE AgreeInv'
    BY <1>3, <2>1, SameTombstones DEF BuildSegment, FailBuild
  <2>2. CASE BuildsFailed \/ FailTombstones \/ CompactionDone \/ BuildsDone
    <3>1. /\ \A id \in SegId : LoadTombstones(id)' = LoadTombstones(id)
          /\ fresh' \subseteq fresh /\ pc # "setcache" /\ pc' # "setcache"
          /\ UNCHANGED <<dirs, tomb, published>>
      BY <2>2, SameTombstones DEF BuildsFailed, FailTombstones, Abandon, CompactionDone,
           BuildsDone, Release
    <3>. QED
      BY <1>1, <3>1 DEF AgreeInv
  <2>3. CASE PublishChanges \/ PublishCompacted
    <3>1. /\ \A id \in SegId : LoadTombstones(id)' = LoadTombstones(id)
          /\ fresh' = {} /\ pc # "setcache" /\ pc' # "setcache"
          /\ published' \subseteq published \cup fresh
          /\ UNCHANGED <<dirs, tomb>>
      BY <2>3, SameTombstones DEF PublishChanges, PublishCompacted, Release
    <3>. QED
      BY <1>1, <3>1 DEF AgreeInv
  <2>4. ASSUME NEW i \in SegId, WriteTombstones(i) PROVE AgreeInv'
    <3>1. /\ \A id \in SegId : LoadTombstones(id)' = LoadTombstones(id)
          /\ tomb' = [tomb EXCEPT ![i] = LoadTombstones(i) \cup doomed[i]]
          /\ pc = "tombstone" /\ pc' = "setcache" /\ current' = i /\ i \in targets
          /\ UNCHANGED <<published, fresh, dirs, doomed>>
      BY <1>1, <2>4 DEF WriteTombstones, MergedTombstones, ReadyToTombstone, FillCache, LoadTombstones
    <3>2. i \in published /\ i \in dirs /\ i \notin fresh
      BY <3>1 DEF PhaseInv, ListOnDisk
    <3>. QED
      BY <1>1, <3>1, <3>2 DEF AgreeInv
  <2>5. CASE SetCachedTombstones
    <3>1. /\ \A id \in SegId \ {current} : LoadTombstones(id)' = LoadTombstones(id)
          /\ LoadTombstones(current)' = tomb[current]
          /\ current \in targets /\ pc = "setcache" /\ pc' = "tombstone"
          /\ UNCHANGED <<tomb, published, fresh, dirs, current>>
      BY <1>1, <2>5 DEF SetCachedTombstones, LoadTombstones, ListInv
    <3>2. current \notin fresh
      BY <3>1 DEF PhaseInv, ListOnDisk
    <3>. QED
      BY <1>1, <3>1, <3>2 DEF AgreeInv
  <2>6. ASSUME NEW i \in SegId, UnlinkFile(i) \/ RemoveDir(i) PROVE AgreeInv'
    <3>1. /\ \A id \in SegId \ {i} : tomb'[id] = tomb[id] /\ LoadTombstones(id)' = LoadTombstones(id)
          /\ tomb'[i] \in {{}, tomb[i]} /\ (i \notin dirs' => i \notin dirs \/ tomb'[i] = {})
          /\ pc = "remove" /\ pc' = "remove" /\ i \in targets
          /\ dirs \ {i} \subseteq dirs'
          /\ UNCHANGED <<published, fresh>>
      BY <1>1, <2>6 DEF UnlinkFile, RemoveDir, NextToRemove, LoadTombstones
    <3>2. i \notin published /\ fresh = {}
      BY <3>1 DEF ListInv
    <3>. QED
      BY <1>1, <3>1, <3>2 DEF AgreeInv
  <2>7. ASSUME NEW i \in SegId, FailRemoveDir(i) PROVE AgreeInv'
    BY <1>3, <2>7, SameTombstones DEF FailRemoveDir
  <2>. QED
    BY <1>4, <2>1, <2>2, <2>3, <2>4, <2>5, <2>6, <2>7 DEF WriterStep, Fault
<1>5. ASSUME NEW r \in Readers, TakeSnapshot(r) \/ ReaderStep(r) PROVE AgreeInv'
  <2>1. ASSUME NEW i \in SegId, SearchSegment(r, i) PROVE AgreeInv'
    BY <1>3, <2>1, FillCacheKeeps DEF SearchSegment
  <2>2. CASE TakeSnapshot(r) \/ FinishSearch(r)
    BY <1>3, <2>2, SameTombstones DEF TakeSnapshot, FinishSearch
  <2>. QED
    BY <1>5, <2>1, <2>2 DEF ReaderStep
<1>6. CASE Crash
  BY <1>6 DEF Crash, AgreeInv
<1>7. CASE Restart
  <2>1. \A id \in SegId : LoadTombstones(id)' = tomb[id]
    BY <1>7 DEF Restart, ListInv, LoadTombstones
  <2>. QED
    BY <1>1, <1>7, <2>1 DEF Restart, AgreeInv, PhaseInv
<1>8. CASE UNCHANGED vars
  BY <1>3, <1>8, SameTombstones DEF vars
<1>. QED
  BY <1>2, <1>4, <1>5, <1>6, <1>7, <1>8 DEF Next

\* While the process runs, a segment gains only the tombstones doomed for it.
LEMMA StepAddsDoomed ==
    ASSUME TypeOK, TombstoneInv, ListInv, PhaseInv, AgreeInv, [Next]_vars, pc' # "down",
           NEW id \in SegId
    PROVE  LoadTombstones(id)' \subseteq LoadTombstones(id) \cup doomed[id]
<1>. USE DEF diskVars, memVars, writerVars, readerVars, ghostVars, counters
<1>1. /\ published \subseteq SegId /\ current \in SegId
      /\ cache \in [SegId -> SUBSET FileId] /\ cached \subseteq SegId
      /\ tomb \in [SegId -> SUBSET FileId]
  BY DEF TypeOK
<1>2. CASE Batch
  BY <1>1, <1>2, FillCacheKeeps DEF Batch, ApplyChanges
<1>3. CASE Compact
  BY <1>1, <1>3, FillCacheKeeps DEF Compact
<1>4. ASSUME UNCHANGED <<tomb, cached, cache>> PROVE LoadTombstones(id)' = LoadTombstones(id)
  BY <1>4, SameTombstones
<1>5. CASE FirstIndex
  BY <1>4, <1>5 DEF FirstIndex, IndexFiles
<1>6. CASE WriterStep
  <2>1. ASSUME NEW i \in SegId, WriteTombstones(i)
        PROVE  LoadTombstones(id)' \subseteq LoadTombstones(id) \cup doomed[id]
    BY <1>1, <2>1 DEF WriteTombstones, FillCache, LoadTombstones
  <2>2. CASE SetCachedTombstones
    BY <1>1, <2>2 DEF SetCachedTombstones, LoadTombstones, AgreeInv
  <2>3. ASSUME NEW i \in SegId, UnlinkFile(i) \/ RemoveDir(i)
        PROVE  LoadTombstones(id)' \subseteq LoadTombstones(id) \cup doomed[id]
    <3>1. i \in cached
      BY <2>3 DEF UnlinkFile, RemoveDir, NextToRemove, TombstoneInv
    <3>. QED
      BY <1>1, <2>3, <3>1 DEF UnlinkFile, RemoveDir, LoadTombstones
  <2>4. ASSUME NEW i \in SegId, BuildSegment(i)
        PROVE  LoadTombstones(id)' \subseteq LoadTombstones(id) \cup doomed[id]
    BY <1>4, <2>4 DEF BuildSegment
  <2>5. CASE BuildsFailed \/ BuildsDone \/ PublishChanges \/ PublishCompacted \/ CompactionDone
    BY <1>4, <2>5
       DEF BuildsFailed, Abandon, BuildsDone, PublishChanges, PublishCompacted, CompactionDone
  <2>. QED
    BY <1>6, <2>1, <2>2, <2>3, <2>4, <2>5 DEF WriterStep
<1>7. CASE Fault
  BY <1>4, <1>7 DEF Fault, FailBuild, FailTombstones, Abandon, FailRemoveDir
<1>8. ASSUME NEW r \in Readers, TakeSnapshot(r) \/ ReaderStep(r)
      PROVE  LoadTombstones(id)' \subseteq LoadTombstones(id) \cup doomed[id]
  <2>1. ASSUME NEW i \in SegId, SearchSegment(r, i)
        PROVE  LoadTombstones(id)' \subseteq LoadTombstones(id) \cup doomed[id]
    BY <2>1, FillCacheKeeps DEF SearchSegment
  <2>2. CASE TakeSnapshot(r) \/ FinishSearch(r)
    BY <1>4, <2>2 DEF TakeSnapshot, FinishSearch
  <2>. QED
    BY <1>8, <2>1, <2>2 DEF ReaderStep
<1>9. CASE Crash
  BY <1>9 DEF Crash
<1>10. CASE Restart
  BY <1>4, <1>10 DEF Restart
<1>11. CASE UNCHANGED vars
  BY <1>4, <1>11 DEF vars
<1>. QED
  BY <1>2, <1>3, <1>5, <1>6, <1>7, <1>8, <1>9, <1>10, <1>11 DEF Next

\* A running process never changes the entries of a segment in use.
LEMMA OldEntriesStay ==
    ASSUME TypeOK, ListInv, ListOnDisk, [Next]_vars, pc # "down", pc' # "down"
    PROVE  /\ \A id \in SegId : id < nextId => entries'[id] = entries[id]
           /\ nextId <= nextId' /\ nextId \in Nat /\ nextId' \in Nat
<1>. USE DEF diskVars, memVars, writerVars, readerVars, ghostVars, counters
<1>1. nextId \in Nat
  BY BoundsAssumption DEF TypeOK
<1>2. CASE Batch \/ FirstIndex \/ Compact
  BY <1>2, BeginFacts
<1>3. ASSUME UNCHANGED <<entries, nextId>>
      PROVE  /\ \A id \in SegId : id < nextId => entries'[id] = entries[id]
             /\ nextId <= nextId' /\ nextId \in Nat /\ nextId' \in Nat
  BY <1>1, <1>3
<1>4. CASE WriterStep \/ Fault
  BY <1>3, <1>4 DEF WriterStep, Fault, BuildSegment, BuildsFailed, Abandon, BuildsDone,
     WriteTombstones, SetCachedTombstones, PublishChanges, PublishCompacted, UnlinkFile,
     RemoveDir, CompactionDone, FailBuild, FailTombstones, FailRemoveDir
<1>5. ASSUME NEW r \in Readers, TakeSnapshot(r) \/ ReaderStep(r) PROVE UNCHANGED <<entries, nextId>>
  BY <1>5 DEF TakeSnapshot, ReaderStep, SearchSegment, FinishSearch
<1>6. CASE Crash \/ Restart
  BY <1>6 DEF Crash, Restart
<1>7. CASE UNCHANGED vars
  BY <1>3, <1>7 DEF vars
<1>. QED
  BY <1>2, <1>3, <1>4, <1>5, <1>6, <1>7 DEF Next

(***************************************************************************)
(* A search and the batches that run beside it                             *)
(***************************************************************************)

\* What search r has collected for path p, and what it is still to find.
Collected(r, p) ==
    {h \in hits[r] : entries[h[1]][h[2]].path = p} \cup Copies(rtodo[r], Tombstones, p)

\* Why a search is stable: for a path no batch has touched since the snapshot, the
\* collected entries and those still to be found give the answer of the snapshot.
StableInv ==
    \A r \in Readers : rpc[r] = "scan" =>
        /\ inflight \subseteq touched[r]
        /\ \A h \in hits[r] : h[1] < nextId
        /\ \A p \in Path \ touched[r] : rview[r][p] = Newest(Collected(r, p))

\* The copies of a path the running batch leaves alone are the same after a step.
LEMMA CopiesStay ==
    ASSUME TypeOK, TombstoneInv, ListInv, ListOnDisk, PhaseInv, DoomedInv, AgreeInv,
           [Next]_vars, pc # "down", pc' # "down",
           NEW S \in SUBSET SegId, \A id \in S : id < nextId,
           NEW p \in Path, p \notin inflight
    PROVE  Copies(S, Tombstones, p)' = Copies(S, Tombstones, p)
<1>1. ASSUME NEW id \in S
      PROVE  /\ entries'[id] = entries[id]
             /\ \A f \in DOMAIN entries[id] : entries[id][f].path = p =>
                  (f \in LoadTombstones(id)' <=> f \in LoadTombstones(id))
  <2>1. id \in SegId /\ entries'[id] = entries[id]
    BY OldEntriesStay
  <2>2. /\ LoadTombstones(id) \subseteq LoadTombstones(id)'
        /\ LoadTombstones(id)' \subseteq LoadTombstones(id) \cup doomed[id]
    BY <2>1, StepGrows, StepAddsDoomed
  <2>3. \A f \in doomed[id] : entries[id][f].path # p
    BY <2>1 DEF DoomedInv
  <2>. QED
    BY <2>1, <2>2, <2>3
<1>2. \A id \in S : Tombstones[id] = LoadTombstones(id) /\ Tombstones'[id] = LoadTombstones(id)'
  BY DEF Tombstones
<1>3. \A id \in S : {g \in DOMAIN entries[id] \ Tombstones[id] : entries[id][g].path = p}
                  = {g \in DOMAIN entries'[id] \ Tombstones'[id] : entries'[id][g].path = p}
  BY <1>1, <1>2
<1>. QED
  BY <1>3 DEF Copies

\* A step that leaves a search alone leaves its answer for untouched paths alone.
LEMMA StableFrame ==
    ASSUME TypeOK, TombstoneInv, ListInv, ListOnDisk, PhaseInv, DoomedInv, AgreeInv,
           [Next]_vars, pc # "down", pc' # "down",
           NEW r \in Readers, rtodo'[r] = rtodo[r], hits'[r] = hits[r],
           \A h \in hits[r] : h[1] < nextId, NEW p \in Path, p \notin inflight
    PROVE  Newest(Collected(r, p))' = Newest(Collected(r, p))
<1>1. hits[r] \subseteq SegId \X FileId /\ rtodo[r] \subseteq SegId
  BY DEF TypeOK
<1>2. \A id \in rtodo[r] : id < nextId
  BY DEF ListInv
<1>3. Copies(rtodo[r], Tombstones, p)' = Copies(rtodo[r], Tombstones, p)
  BY <1>1, <1>2, CopiesStay
<1>4. \A h \in hits[r] : entries'[h[1]] = entries[h[1]]
  BY <1>1, OldEntriesStay
<1>5. Collected(r, p)' = Collected(r, p)
  BY <1>3, <1>4 DEF Collected
<1>6. \A c \in Copies(rtodo[r], Tombstones, p) : c[1] \in rtodo[r]
  BY DEF Copies
<1>7. \A c \in Collected(r, p) : entries'[c[1]] = entries[c[1]]
  BY <1>1, <1>2, <1>4, <1>6, OldEntriesStay DEF Collected
<1>. QED
  BY <1>5, <1>7 DEF Newest, Wins

\* Every step keeps the answers for untouched paths.
LEMMA StableStep ==
    ASSUME TypeOK, TombstoneInv, ListInv, ListOnDisk, PhaseInv, DoomedInv, AgreeInv,
           StableInv, [Next]_vars
    PROVE  StableInv'
<1>. USE DEF diskVars, memVars, writerVars, readerVars, ghostVars, counters
<1>1. /\ rpc \in [Readers -> {"idle", "scan"}] /\ rtodo \in [Readers -> SUBSET SegId]
      /\ hits \in [Readers -> SUBSET (SegId \X FileId)] /\ rview \in [Readers -> View]
      /\ touched \in [Readers -> SUBSET Path] /\ published \subseteq SegId
      /\ entries \in [SegId -> Seq(Entry)]
  BY DEF TypeOK
<1>2. ASSUME NEW r \in Readers, rpc'[r] = rpc[r], rtodo'[r] = rtodo[r], hits'[r] = hits[r],
             rview'[r] = rview[r], touched[r] \subseteq touched'[r],
             inflight' \subseteq inflight \cup touched'[r],
             pc # "down", pc' # "down", rpc[r] = "scan"
      PROVE  /\ inflight' \subseteq touched'[r]
             /\ \A h \in hits'[r] : h[1] < nextId'
             /\ \A p \in Path \ touched'[r] : rview'[r][p] = Newest(Collected(r, p))'
  <2>1. inflight \subseteq touched[r] /\ \A h \in hits[r] : h[1] < nextId
    BY <1>2 DEF StableInv
  <2>2. \A h \in hits[r] : h[1] \in Nat
    BY <1>1, BoundsAssumption DEF SegId
  <2>3. \A h \in hits'[r] : h[1] < nextId'
    BY <1>2, <2>1, <2>2, OldEntriesStay
  <2>4. ASSUME NEW p \in Path \ touched'[r] PROVE rview'[r][p] = Newest(Collected(r, p))'
    <3>1. p \notin touched[r] /\ p \notin inflight
      BY <1>2, <2>1
    <3>2. Newest(Collected(r, p))' = Newest(Collected(r, p))
      BY <1>2, <2>1, <3>1, StableFrame
    <3>. QED
      BY <1>2, <3>1, <3>2 DEF StableInv
  <2>. QED
    BY <1>2, <2>1, <2>3, <2>4
<1>3. ASSUME UNCHANGED <<rpc, rtodo, hits, rview>>, pc # "down", pc' # "down",
             \A r \in Readers : touched[r] \subseteq touched'[r]
                                /\ inflight' \subseteq inflight \cup touched'[r]
      PROVE  StableInv'
  BY <1>2, <1>3 DEF StableInv
<1>4. CASE Batch \/ FirstIndex \/ Compact
  <2>1. \A r \in Readers : touched[r] \subseteq touched'[r] /\ inflight' \subseteq touched'[r]
    BY <1>4 DEF Batch, ApplyChanges, FirstIndex, IndexFiles, Compact, Announce
  <2>. QED
    BY <1>3, <1>4, <2>1, BeginFacts
<1>5. CASE WriterStep \/ Fault
  <2>1. /\ UNCHANGED <<rpc, rtodo, hits, rview, touched>>
        /\ inflight' \subseteq inflight /\ pc # "down" /\ pc' # "down"
    BY <1>5 DEF WriterStep, Fault, BuildSegment, BuildsFailed, Abandon, BuildsDone, Release,
         WriteTombstones, SetCachedTombstones, PublishChanges, PublishCompacted, UnlinkFile,
         RemoveDir, CompactionDone, FailBuild, FailTombstones, FailRemoveDir, ReadyToTombstone
  <2>. QED
    BY <1>3, <2>1
<1>6. ASSUME NEW r \in Readers, TakeSnapshot(r) \/ ReaderStep(r) PROVE StableInv'
  <2>1. pc # "down" /\ UNCHANGED <<pc, inflight, nextId, entries>>
    BY <1>6 DEF TakeSnapshot, ReaderStep, SearchSegment, FinishSearch, PhaseInv
  <2>2. ASSUME NEW s \in Readers \ {r}, rpc'[s] = "scan"
        PROVE  /\ inflight' \subseteq touched'[s]
               /\ \A h \in hits'[s] : h[1] < nextId'
               /\ \A p \in Path \ touched'[s] : rview'[s][p] = Newest(Collected(s, p))'
    <3>1. /\ rpc'[s] = rpc[s] /\ rtodo'[s] = rtodo[s] /\ hits'[s] = hits[s]
          /\ rview'[s] = rview[s] /\ touched'[s] = touched[s]
      BY <1>1, <1>6 DEF TakeSnapshot, ReaderStep, SearchSegment, FinishSearch
    <3>. QED
      BY <1>2, <2>1, <2>2, <3>1
  <2>3. ASSUME rpc'[r] = "scan"
        PROVE  /\ inflight' \subseteq touched'[r]
               /\ \A h \in hits'[r] : h[1] < nextId'
               /\ \A p \in Path \ touched'[r] : rview'[r][p] = Newest(Collected(r, p))'
    <3>1. CASE TakeSnapshot(r)
      <4>1. /\ rtodo'[r] = published /\ hits'[r] = {} /\ touched'[r] = inflight
            /\ rview'[r] = [p \in Path |-> GetFile(published, Tombstones, p)]
            /\ UNCHANGED <<tomb, cached, cache>>
        BY <1>1, <3>1 DEF TakeSnapshot
      <4>2. Tombstones' = Tombstones
        BY <4>1, SameTombstones DEF Tombstones
      <4>3. \A p \in Path : Collected(r, p)' = Copies(published, Tombstones, p)
        BY <2>1, <4>1, <4>2 DEF Collected, Copies
      <4>4. \A p \in Path : Newest(Collected(r, p))' = GetFile(published, Tombstones, p)
        BY <2>1, <4>3 DEF GetFile, Newest
      <4>. QED
        BY <2>1, <4>1, <4>4
    <3>2. ASSUME NEW id \in SegId, SearchSegment(r, id)
          PROVE  /\ inflight' \subseteq touched'[r]
                 /\ \A h \in hits'[r] : h[1] < nextId'
                 /\ \A p \in Path \ touched'[r] : rview'[r][p] = Newest(Collected(r, p))'
      <4>1. /\ rpc[r] = "scan" /\ id \in rtodo[r] /\ rtodo'[r] = rtodo[r] \ {id}
            /\ hits'[r] = hits[r] \cup {<<id, f>> : f \in DOMAIN entries[id] \ LoadTombstones(id)}
            /\ UNCHANGED <<touched, rview>>
        BY <1>1, <3>2 DEF SearchSegment
      <4>2. Tombstones' = Tombstones
        BY <3>2, FillCacheKeeps DEF SearchSegment, Tombstones
      <4>3. Tombstones[id] = LoadTombstones(id)
        BY DEF Tombstones
      <4>4. \A p \in Path : Collected(r, p)' = Collected(r, p)
        BY <2>1, <4>1, <4>2, <4>3 DEF Collected, Copies
      <4>5. \A p \in Path : Newest(Collected(r, p))' = Newest(Collected(r, p))
        BY <2>1, <4>4 DEF Newest
      <4>6. \A h \in hits'[r] : h[1] < nextId
        BY <2>1, <4>1 DEF StableInv, ListInv
      <4>. QED
        BY <2>1, <4>1, <4>5, <4>6 DEF StableInv
    <3>3. CASE FinishSearch(r)
      BY <1>1, <2>3, <3>3 DEF FinishSearch
    <3>. QED
      BY <1>6, <3>1, <3>2, <3>3 DEF ReaderStep
  <2>. QED
    BY <2>2, <2>3 DEF StableInv
<1>7. CASE Crash
  BY <1>7 DEF Crash, StableInv
<1>8. CASE Restart
  BY <1>1, <1>8 DEF Restart, StableInv, PhaseInv
<1>9. CASE UNCHANGED vars
  <2>1. CASE pc = "down"
    BY <1>9, <2>1 DEF vars, StableInv, PhaseInv
  <2>2. CASE pc # "down"
    BY <1>3, <1>9, <2>2 DEF vars
  <2>. QED
    BY <2>1, <2>2
<1>. QED
  BY <1>4, <1>5, <1>6, <1>7, <1>8, <1>9 DEF Next

\* The invariants of the writer, of the disk and of the searches that the results below
\* share.
CoreInv ==
    TypeOK /\ TombstoneInv /\ ListInv /\ ListOnDisk /\ PhaseInv /\ DoomedInv /\ AgreeInv

\* They hold at first.
LEMMA CoreInit == Init => CoreInv
<1>1. Init => TypeOK
  BY InitType
<1>2. Init => TombstoneInv /\ ListInv /\ ListOnDisk /\ PhaseInv
  BY DEF Init, TombstoneInv, ListInv, ListOnDisk, PhaseInv, Applying
<1>3. Init => DoomedInv /\ AgreeInv
  BY DEF Init, DoomedInv, AgreeInv, NoSegments
<1>. QED
  BY <1>1, <1>2, <1>3 DEF CoreInv

\* They are kept by every step.
LEMMA CoreStep == ASSUME CoreInv, [Next]_vars PROVE CoreInv'
BY NextType, TombstoneInvStep, ListStep, PhaseStep, DoomedStep, AgreeStep DEF CoreInv

\* The answer of a finished search, for every path no batch has changed since its snapshot,
\* is what the index held at the snapshot, whatever batches, compactions, I/O errors and
\* other searches did in between.
THEOREM SearchesAreStable == Spec => []UntouchedFilesStable
<1>1. Init => CoreInv /\ StableInv
  BY CoreInit DEF Init, StableInv
<1>2. CoreInv /\ StableInv /\ [Next]_vars => (CoreInv /\ StableInv)'
  BY CoreStep, StableStep DEF CoreInv
<1>3. CoreInv /\ StableInv => UntouchedFilesStable
  <2>. SUFFICES ASSUME StableInv, NEW r \in Readers, rpc[r] = "scan", rtodo[r] = {},
                       NEW p \in Path \ touched[r]
                PROVE  Answer(r, p) = rview[r][p]
    BY DEF UntouchedFilesStable
  <2>1. Collected(r, p) = {h \in hits[r] : entries[h[1]][h[2]].path = p}
    BY DEF Collected, Copies
  <2>. QED
    BY <2>1 DEF StableInv, Answer
<1>. QED
  BY <1>1, <1>2, <1>3, PTL DEF Spec

(***************************************************************************)
(* The contents a set of segments holds                                    *)
(***************************************************************************)

\* A non-empty set of numbers has a least element.
LEMMA MinExists ==
  ASSUME NEW S \in SUBSET Nat, S # {}
  PROVE \E x \in S : \A y \in S : x <= y
<1>. DEFINE R == {ss \in Nat \X Nat : ss[1] < ss[2]}
<1>1. IsWellFoundedOn(R, Nat)
  BY NatLessThanWellFounded DEF OpToRel
<1>. HIDE DEF R
<1>2. PICK x \in S : \A y \in S : ~ (<<y, x>> \in R)
  BY <1>1, WFMin
<1>3. ASSUME NEW y \in S PROVE x <= y
  <2>1. <<y, x>> \in Nat \X Nat /\ ~ (<<y, x>> \in R)
    BY <1>2
  <2>2. ~ (y < x)
    BY <2>1 DEF R
  <2>. QED BY <2>2
<1>. QED BY <1>3

\* A non-empty set of numbers with a bound has a greatest element.
LEMMA MaxExists ==
  ASSUME NEW N \in Nat, NEW S \in SUBSET (0 .. N), S # {}
  PROVE \E x \in S : \A y \in S : y <= x
<1>. DEFINE T == {n \in 0 .. N : N - n \in S}
<1>0. PICK s \in S : TRUE
  OBVIOUS
<1>1. N - s \in T
  OBVIOUS
<1>2. T \in SUBSET Nat /\ T # {}
  BY <1>1
<1>3. \A y \in S : N - y \in T
  OBVIOUS
<1>. HIDE DEF T
<1>4. PICK m \in T : \A y \in T : m <= y
  BY <1>2, MinExists
<1>5. N - m \in S /\ m \in 0 .. N BY <1>4 DEF T
<1>. QED BY <1>4, <1>3, <1>5

\* The contents of the entries of path p in the segments S of the directory e that the
\* tombstones t leave alive.
Holds(e, S, t, p) ==
    {c \in Content : \E id \in S : \E f \in DOMAIN e[id] \ t[id] :
                         e[id][f].path = p /\ e[id][f].content = c}

\* It depends on the entries of the segments and on the tombstones of the path alone.
LEMMA HoldsSame ==
    ASSUME NEW e, NEW e2, NEW S, NEW t, NEW t2, NEW p,
           \A id \in S : e2[id] = e[id],
           \A id \in S : \A f \in DOMAIN e[id] :
               e[id][f].path = p => (f \in t[id] <=> f \in t2[id])
    PROVE  Holds(e2, S, t2, p) = Holds(e, S, t, p)
BY DEF Holds

\* The contents of two sets of segments.
LEMMA HoldsUnion ==
    ASSUME NEW e, NEW S, NEW T, NEW t, NEW p
    PROVE  Holds(e, S \cup T, t, p) = Holds(e, S, t, p) \cup Holds(e, T, t, p)
BY DEF Holds

\* Fewer segments or more tombstones hold no other contents.
LEMMA HoldsMonotone ==
    ASSUME NEW e, NEW S, NEW T, NEW t, NEW t2, NEW p, S \subseteq T,
           \A id \in S : \A f \in DOMAIN e[id] : e[id][f].path = p /\ f \in t2[id] => f \in t[id]
    PROVE  Holds(e, S, t, p) \subseteq Holds(e, T, t2, p)
BY DEF Holds

\* Among the live copies of a path one wins.
LEMMA SomeCopyWins ==
    ASSUME TypeOK, NEW S \in SUBSET SegId, NEW t, NEW p, Copies(S, t, p) # {}
    PROVE  \E x \in Copies(S, t, p) : Wins(x, Copies(S, t, p))
<1>. DEFINE C == Copies(S, t, p)
<1>1. \A c \in C : c = <<c[1], c[2]>> /\ c[1] \in SegId /\ c[2] \in Nat
  <2>. SUFFICES ASSUME NEW c \in C PROVE c = <<c[1], c[2]>> /\ c[1] \in SegId /\ c[2] \in Nat
    OBVIOUS
  <2>1. PICK id \in S : \E f \in DOMAIN entries[id] : c = <<id, f>>
    BY DEF Copies
  <2>2. PICK f \in DOMAIN entries[id] : c = <<id, f>>
    BY <2>1
  <2>3. entries[id] \in Seq(Entry)
    BY DEF TypeOK
  <2>4. f \in Nat
    BY <2>2, <2>3
  <2>. QED
    BY <2>2, <2>4
<1>. HIDE DEF C
<1>. DEFINE Ids == {id \in SegId : \E f \in Nat : <<id, f>> \in C}
<1>2. Ids \in SUBSET (0 .. MaxSegId) /\ MaxSegId \in Nat
  BY BoundsAssumption DEF SegId
<1>3. Ids # {} /\ C # {}
  <2>1. C # {}
    BY DEF C
  <2>. QED
    BY <1>1, <2>1
<1>4. PICK m \in Ids : \A y \in Ids : y <= m
  BY <1>2, <1>3, MaxExists
<1>. DEFINE Fs == {f \in Nat : <<m, f>> \in C}
<1>5. Fs # {}
  OBVIOUS
<1>6. PICK g \in Fs : \A y \in Fs : g <= y
  BY <1>5, MinExists
<1>7. <<m, g>> \in C
  OBVIOUS
<1>8. ASSUME NEW d \in C PROVE d[1] < m \/ (d[1] = m /\ g <= d[2])
  <2>1. d[1] \in Ids /\ d[1] \in Nat /\ m \in Nat
    BY <1>1, <1>2
  <2>2. d[1] <= m
    BY <1>4, <2>1
  <2>3. CASE d[1] = m
    BY <1>1, <1>6, <2>3
  <2>. QED
    BY <2>1, <2>2, <2>3
<1>. QED
  BY <1>7, <1>8 DEF Wins, C

\* When all live copies of a path say the same, GetFile and the merge say it too.
LEMMA GetFileHolds ==
    ASSUME TypeOK, NEW S \in SUBSET SegId, NEW t, NEW p, NEW X \in Option,
           Holds(entries, S, t, p) = X
    PROVE  GetFile(S, t, p) = X
<1>1. \A c \in Copies(S, t, p) : entries[c[1]][c[2]].content \in X
  <2>. SUFFICES ASSUME NEW c \in Copies(S, t, p) PROVE entries[c[1]][c[2]].content \in X
    OBVIOUS
  <2>1. PICK id \in S : \E f \in DOMAIN entries[id] \ t[id] : c = <<id, f>> /\ entries[id][f].path = p
    BY DEF Copies
  <2>2. PICK f \in DOMAIN entries[id] \ t[id] : c = <<id, f>> /\ entries[id][f].path = p
    BY <2>1
  <2>3. entries[id] \in Seq(Entry)
    BY DEF TypeOK
  <2>4. entries[id][f] \in Entry
    BY <2>2, <2>3
  <2>5. entries[id][f].content \in Content
    BY <2>4 DEF Entry
  <2>. QED
    BY <2>2, <2>5 DEF Holds
<1>2. CASE X = {}
  BY <1>1, <1>2 DEF GetFile, Newest
<1>3. ASSUME NEW v \in Content, X = {v} PROVE GetFile(S, t, p) = X
  <2>1. Copies(S, t, p) # {}
    <3>1. PICK id \in S : \E f \in DOMAIN entries[id] \ t[id] : entries[id][f].path = p
      BY <1>3 DEF Holds
    <3>2. PICK f \in DOMAIN entries[id] \ t[id] : entries[id][f].path = p
      BY <3>1
    <3>3. <<id, f>> \in Copies(S, t, p)
      BY <3>2 DEF Copies
    <3>. QED
      BY <3>3
  <2>2. PICK x \in Copies(S, t, p) : Wins(x, Copies(S, t, p))
    BY <2>1, SomeCopyWins
  <2>. QED
    BY <1>1, <1>3, <2>2 DEF GetFile, Newest
<1>. QED
  BY <1>2, <1>3 DEF Option

\* The hash that apply_changes compares with is one of the live contents.
LEMMA ExistingHashHeld ==
    ASSUME TypeOK, NEW p PROVE ExistingHash(p) \subseteq Holds(entries, published, Tombstones, p)
<1>1. ASSUME NEW c \in Copies(published, Tombstones, p)
      PROVE  entries[c[1]][c[2]].content \in Holds(entries, published, Tombstones, p)
  <2>1. PICK id \in published : \E f \in DOMAIN entries[id] \ Tombstones[id] :
          c = <<id, f>> /\ entries[id][f].path = p
    BY DEF Copies
  <2>2. PICK f \in DOMAIN entries[id] \ Tombstones[id] : c = <<id, f>> /\ entries[id][f].path = p
    BY <2>1
  <2>3. entries[id] \in Seq(Entry)
    BY DEF TypeOK
  <2>4. entries[id][f] \in Entry
    BY <2>2, <2>3
  <2>5. entries[id][f].content \in Content
    BY <2>4 DEF Entry
  <2>. QED
    BY <2>2, <2>5 DEF Holds
<1>. QED
  BY <1>1 DEF ExistingHash

(***************************************************************************)
(* What the new segments of an operation hold                              *)
(***************************************************************************)

\* The contents of path p in a list of entries.
Listed(q, p) == {c \in Content : \E j \in DOMAIN q : q[j].path = p /\ q[j].content = c}

\* Cutting a list into segments puts every entry of the list into one of them, and
\* nothing else.
LEMMA AllocateEntries ==
    ASSUME TypeOK, NEW files \in Seq(Entry), Allocate(files), ~ failed'
    PROVE  /\ \A id \in fresh' : \A f \in DOMAIN entries'[id] :
                \E j \in DOMAIN files : entries'[id][f] = files[j]
           /\ \A j \in DOMAIN files : \E id \in fresh' : \E f \in DOMAIN entries'[id] :
                entries'[id][f] = files[j]
<1>1. CASE files = <<>> /\ fresh' = {}
  BY <1>1
<1>2. ASSUME NEW k \in 1 .. MaxBatches, NEW c \in Cuts(k, Len(files)),
             IdsLeft(k), nextId' = nextId + k, fresh' = nextId .. (nextId + k - 1),
             entries' = [id \in SegId |->
                    IF id \in fresh'
                    THEN SubSeq(files, c[id - nextId] + 1, c[id - nextId + 1])
                    ELSE entries[id]]
      PROVE  /\ \A id \in fresh' : \A f \in DOMAIN entries'[id] :
                  \E j \in DOMAIN files : entries'[id][f] = files[j]
             /\ \A j \in DOMAIN files : \E id \in fresh' : \E f \in DOMAIN entries'[id] :
                  entries'[id][f] = files[j]
  <2>. DEFINE n == Len(files)
  <2>1. n \in Nat /\ DOMAIN files = 1 .. n /\ k \in Nat /\ nextId \in Nat /\ MaxBatches \in Nat
    BY BoundsAssumption DEF TypeOK
  <2>2. c \in [0 .. k -> 0 .. n] /\ c[0] = 0 /\ c[k] = n /\ \A i \in 0 .. (k - 1) : c[i] < c[i + 1]
    BY DEF Cuts
  <2>3. fresh' \subseteq SegId
    BY <1>2, AllocateType
  <2>4. ASSUME NEW i \in 0 .. (k - 1)
        PROVE  /\ nextId + i \in fresh'
               /\ DOMAIN entries'[nextId + i] = 1 .. (c[i + 1] - c[i])
               /\ \A f \in 1 .. (c[i + 1] - c[i]) :
                    /\ c[i] + f \in DOMAIN files
                    /\ entries'[nextId + i][f] = files[c[i] + f]
    <3>1. nextId + i \in fresh' /\ (nextId + i) - nextId = i
      BY <1>2, <2>1
    <3>2. entries'[nextId + i] = SubSeq(files, c[i] + 1, c[i + 1])
      BY <1>2, <2>3, <3>1
    <3>3. c[i] \in 0 .. n /\ c[i + 1] \in 0 .. n /\ c[i] < c[i + 1]
      BY <2>1, <2>2
    <3>. HIDE DEF n
    <3>4. \A m \in (c[i] + 1) .. c[i + 1] : m \in 1 .. n
      BY <2>1, <3>3
    <3>5. \A m \in (c[i] + 1) .. c[i + 1] : files[m] \in Entry
      BY <2>1, <3>4 DEF n
    <3>6. /\ Len(SubSeq(files, c[i] + 1, c[i + 1])) = c[i + 1] - c[i]
          /\ \A f \in 1 .. (c[i + 1] - c[i]) :
               SubSeq(files, c[i] + 1, c[i + 1])[f] = files[c[i] + f]
          /\ DOMAIN SubSeq(files, c[i] + 1, c[i + 1]) = 1 .. (c[i + 1] - c[i])
      <4>. DEFINE lo == c[i] + 1
                  hi == c[i + 1]
                  q == SubSeq(files, lo, hi)
      <4>1. lo \in Int /\ hi \in Int /\ lo <= hi /\ hi - lo + 1 = c[i + 1] - c[i]
        BY <2>1, <3>3
      <4>2. \A m \in lo .. hi : files[m] \in Entry
        BY <3>5
      <4>3. \A f \in 1 .. (c[i + 1] - c[i]) : lo + f - 1 = c[i] + f
        BY <2>1, <3>3
      <4>. HIDE DEF lo, hi
      <4>4. /\ SubSeq(files, lo, hi) \in Seq(Entry)
            /\ Len(SubSeq(files, lo, hi)) = (IF lo <= hi THEN hi - lo + 1 ELSE 0)
            /\ \A f \in 1 .. hi - lo + 1 : SubSeq(files, lo, hi)[f] = files[lo + f - 1]
        BY <4>1, <4>2, SubSeqProperties
      <4>. HIDE DEF q
      <4>5. q \in Seq(Entry) /\ Len(q) = c[i + 1] - c[i]
            /\ \A f \in 1 .. (c[i + 1] - c[i]) : q[f] = files[c[i] + f]
        BY <4>1, <4>3, <4>4 DEF q
      <4>6. DOMAIN q = 1 .. (c[i + 1] - c[i])
        BY <4>5
      <4>. QED
        BY <4>5, <4>6 DEF q, lo, hi
    <3>7. \A f \in 1 .. (c[i + 1] - c[i]) : c[i] + f \in 1 .. n
      BY <2>1, <3>3
    <3>. QED
      BY <2>1, <3>1, <3>2, <3>6, <3>7 DEF n
  <2>. HIDE DEF n
  <2>5. ASSUME NEW id \in fresh', NEW f \in DOMAIN entries'[id]
        PROVE  \E j \in DOMAIN files : entries'[id][f] = files[j]
    <3>1. PICK i \in 0 .. (k - 1) : id = nextId + i
      <4>1. id - nextId \in 0 .. (k - 1) /\ id = nextId + (id - nextId)
        BY <1>2, <2>1, <2>5
      <4>. QED
        BY <4>1
    <3>. QED
      BY <2>4, <2>5, <3>1
  <2>6. ASSUME NEW j \in DOMAIN files
        PROVE  \E id \in fresh' : \E f \in DOMAIN entries'[id] : entries'[id][f] = files[j]
    <3>. DEFINE Below == {i \in 0 .. k : c[i] < j}
    <3>1. 0 \in Below /\ Below \in SUBSET (0 .. k)
      BY <2>1, <2>2
    <3>2. PICK i \in Below : \A y \in Below : y <= i
      BY <2>1, <3>1, MaxExists
    <3>3. i \in 0 .. k /\ c[i] < j /\ j \in 1 .. n
      BY <2>1
    <3>4. i # k
      BY <2>1, <2>2, <3>3
    <3>5. i \in 0 .. (k - 1) /\ i + 1 \in 0 .. k
      BY <2>1, <3>3, <3>4
    <3>6. ~ (c[i + 1] < j)
      <4>1. ~ (i + 1 <= i)
        BY <3>5
      <4>. QED
        BY <3>2, <3>5, <4>1
    <3>7. c[i] \in 0 .. n /\ c[i + 1] \in 0 .. n
      BY <2>2, <3>5
    <3>8. j - c[i] \in 1 .. (c[i + 1] - c[i]) /\ c[i] + (j - c[i]) = j
      BY <2>1, <3>3, <3>6, <3>7
    <3>9. nextId + i \in fresh' /\ j - c[i] \in DOMAIN entries'[nextId + i]
          /\ entries'[nextId + i][j - c[i]] = files[c[i] + (j - c[i])]
      BY <2>4, <3>5, <3>8
    <3>. QED
      BY <3>8, <3>9
  <2>. QED
    BY <2>5, <2>6
<1>. QED
  BY <1>1, <1>2 DEF Allocate

\* The new segments, which nothing has tombstoned, hold the contents of the list.
LEMMA AllocateHolds ==
    ASSUME TypeOK, NEW files \in Seq(Entry), Allocate(files), ~ failed', NEW p,
           NEW t, \A id \in fresh' : t[id] = {}
    PROVE  Holds(entries', fresh', t, p) = Listed(files, p)
<1>1. \A id \in fresh' : DOMAIN entries'[id] \ t[id] = DOMAIN entries'[id]
  OBVIOUS
<1>. QED
  BY <1>1, AllocateEntries DEF Holds, Listed

\* A list of the elements of a set of entries has the contents of the set.
LEMMA ListedOrdering ==
    ASSUME NEW K \in SUBSET Entry, NEW q \in Orderings(K), NEW p
    PROVE  Listed(q, p) = {c \in Content : \E x \in K : x.path = p /\ x.content = c}
<1>1. q \in Seq(K) /\ \A x \in K : \E i \in DOMAIN q : q[i] = x
  BY DEF Orderings, Lists
<1>2. \A i \in DOMAIN q : q[i] \in K
  BY <1>1
<1>. QED
  BY <1>1, <1>2 DEF Listed

\* The list compaction builds from has the contents of the published segments.
LEMMA ListedLive ==
    ASSUME TypeOK, NEW q \in LiveLists, NEW p
    PROVE  Listed(q, p) = Holds(entries, published, Tombstones, p)
<1>1. PICK s : Lists(s, Live) /\ q = [i \in DOMAIN s |-> entries[s[i][1]][s[i][2]]]
  BY DEF LiveLists
<1>2. s \in Seq(Live) /\ \A x \in Live : \E i \in DOMAIN s : s[i] = x
  BY <1>1 DEF Lists
<1>3. \A i \in DOMAIN s : s[i] \in Live
  BY <1>2
<1>4. published \subseteq SegId /\ \A id \in published : Tombstones[id] = LoadTombstones(id)
  BY DEF TypeOK, Tombstones
<1>5. ASSUME NEW c \in Listed(q, p) PROVE c \in Holds(entries, published, Tombstones, p)
  <2>1. PICK i \in DOMAIN s : q[i].path = p /\ q[i].content = c
    BY <1>1 DEF Listed
  <2>2. PICK id \in published : \E f \in DOMAIN entries[id] \ LoadTombstones(id) : s[i] = <<id, f>>
    BY <1>3 DEF Live
  <2>3. PICK f \in DOMAIN entries[id] \ LoadTombstones(id) : s[i] = <<id, f>>
    BY <2>2
  <2>4. q[i] = entries[id][f]
    BY <1>1, <2>3
  <2>5. c \in Content /\ f \in DOMAIN entries[id] \ Tombstones[id]
    BY <1>4, <2>3 DEF Listed
  <2>. QED
    BY <2>1, <2>4, <2>5 DEF Holds
<1>6. ASSUME NEW c \in Holds(entries, published, Tombstones, p) PROVE c \in Listed(q, p)
  <2>1. PICK id \in published : \E f \in DOMAIN entries[id] \ LoadTombstones(id) :
           entries[id][f].path = p /\ entries[id][f].content = c
    BY <1>4 DEF Holds
  <2>2. PICK f \in DOMAIN entries[id] \ LoadTombstones(id) :
           entries[id][f].path = p /\ entries[id][f].content = c
    BY <2>1
  <2>3. <<id, f>> \in Live
    BY <2>2 DEF Live
  <2>4. PICK i \in DOMAIN s : s[i] = <<id, f>>
    BY <1>2, <2>3
  <2>5. i \in DOMAIN q /\ q[i] = entries[id][f]
    BY <1>1, <2>4
  <2>6. c \in Content
    BY DEF Holds
  <2>. QED
    BY <2>2, <2>5, <2>6 DEF Listed
<1>. QED
  BY <1>5, <1>6

\* A batch puts only its own paths into new segments; a compaction puts into them what the
\* published segments hold.
FreshInv ==
    /\ job = "apply" =>
         \A id \in fresh : \A f \in DOMAIN entries[id] : entries[id][f].path \in inflight
    /\ job = "compact" /\ pc \in {"build", "publish"} /\ ~ failed =>
         \A p \in Path : Holds(entries, fresh, Tombstones, p) =
                         Holds(entries, published, Tombstones, p)

\* A failed allocation leaves no new segment.
LEMMA AllocateFailed ==
    ASSUME NEW files, Allocate(files), failed' PROVE fresh' = {}
BY DEF Allocate

\* The start of an operation.
LEMMA FreshBegin ==
    ASSUME CoreInv, Batch \/ FirstIndex \/ Compact PROVE FreshInv'
<1>. USE DEF CoreInv
<1>1. /\ \A id \in SegId : LoadTombstones(id)' = LoadTombstones(id)
      /\ \A id \in fresh' : id \notin dirs /\ id \notin cached /\ id \notin published
      /\ \A id \in SegId \ fresh' : entries'[id] = entries[id]
      /\ published' = published /\ fresh' \subseteq SegId /\ published \subseteq SegId
  BY BeginFacts DEF TypeOK
<1>2. ASSUME NEW K \in SUBSET Entry, NEW q \in Orderings(K), Allocate(q), job' = "apply",
             \A x \in K : x.path \in inflight'
      PROVE  FreshInv'
  <2>1. q \in Seq(Entry) /\ q \in Seq(K)
    BY OrderingsType DEF Orderings, Lists
  <2>2. \A i \in DOMAIN q : q[i] \in K
    BY <2>1
  <2>3. CASE failed'
    BY <1>2, <2>3, AllocateFailed DEF FreshInv
  <2>4. CASE ~ failed'
    <3>1. \A id \in fresh' : \A f \in DOMAIN entries'[id] :
             \E j \in DOMAIN q : entries'[id][f] = q[j]
      BY <1>2, <2>1, <2>4, AllocateEntries
    <3>. QED
      BY <1>2, <2>2, <3>1 DEF FreshInv
  <2>. QED
    BY <2>3, <2>4
<1>3. CASE Batch
  <2>1. PICK batch \in Changes : \E read \in [DOMAIN batch -> Option] : ApplyChanges(batch, read)
    BY <1>3 DEF Batch
  <2>2. PICK read \in [DOMAIN batch -> Option] : ApplyChanges(batch, read)
    BY <2>1
  <2>. DEFINE gone == {p \in DOMAIN batch : NeedsTombstone(batch[p])}
              new == {p \in DOMAIN batch :
                        /\ NeedsNewEntry(batch[p])
                        /\ read[p] # {}
                        /\ ~ SkipUnchanged(p, gone, read[p])}
              files == UNION {{[path |-> p, content |-> c] : c \in read[p]} : p \in new}
  <2>3. job' = "apply" /\ inflight' = DOMAIN batch /\ \E list \in Orderings(files) : Allocate(list)
    BY <2>2 DEF ApplyChanges, Announce
  <2>4. DOMAIN batch \subseteq Path /\ \A p \in DOMAIN batch : read[p] \subseteq Content
    BY DEF Changes, Option
  <2>5. \A x \in files : x \in Entry /\ x.path \in DOMAIN batch
    <3>. SUFFICES ASSUME NEW x \in files PROVE x \in Entry /\ x.path \in DOMAIN batch
      OBVIOUS
    <3>1. PICK p \in new : \E c \in read[p] : x = [path |-> p, content |-> c]
      OBVIOUS
    <3>. QED
      BY <2>4, <3>1 DEF Entry
  <2>. QED
    BY <1>2, <2>3, <2>5
<1>4. CASE FirstIndex
  <2>1. PICK P \in SUBSET Path : \E contents \in [P -> Content] : IndexFiles(contents)
    BY <1>4 DEF FirstIndex
  <2>2. PICK contents \in [P -> Content] : IndexFiles(contents)
    BY <2>1
  <2>. DEFINE files == {[path |-> p, content |-> contents[p]] : p \in DOMAIN contents}
  <2>3. job' = "apply" /\ inflight' = P /\ \E list \in Orderings(files) : Allocate(list)
    BY <2>2 DEF IndexFiles, Announce
  <2>4. \A x \in files : x \in Entry /\ x.path \in P
    BY DEF Entry
  <2>. QED
    BY <1>2, <2>3, <2>4
<1>5. CASE Compact
  <2>1. job' = "compact" /\ \E list \in LiveLists : Allocate(list)
    BY <1>5 DEF Compact
  <2>2. PICK list \in LiveLists : Allocate(list)
    BY <2>1
  <2>3. list \in Seq(Entry)
    BY LiveListsType
  <2>4. ASSUME ~ failed', NEW p \in Path
        PROVE  Holds(entries', fresh', Tombstones', p) = Holds(entries', published', Tombstones', p)
    <3>1. \A id \in fresh' : Tombstones'[id] = {}
      BY <1>1 DEF Tombstones, AgreeInv, LoadTombstones
    <3>2. Holds(entries', fresh', Tombstones', p) = Listed(list, p)
      BY <2>2, <2>3, <2>4, <3>1, AllocateHolds
    <3>3. Listed(list, p) = Holds(entries, published, Tombstones, p)
      BY ListedLive
    <3>4. \A id \in published : entries'[id] = entries[id] /\ Tombstones'[id] = Tombstones[id]
      BY <1>1 DEF Tombstones
    <3>5. Holds(entries', published, Tombstones', p) = Holds(entries, published, Tombstones, p)
      BY <3>4 DEF Holds
    <3>. QED
      BY <1>1, <3>2, <3>3, <3>5
  <2>. QED
    BY <2>1, <2>4 DEF FreshInv
<1>. QED
  BY <1>3, <1>4, <1>5

\* Every other step.
LEMMA FreshStep == ASSUME CoreInv, FreshInv, [Next]_vars PROVE FreshInv'
<1>. USE DEF diskVars, memVars, writerVars, readerVars, ghostVars, counters, CoreInv
<1>1. ASSUME fresh' = {}, job' = "apply" \/ pc' \notin {"build", "publish"} PROVE FreshInv'
  BY <1>1 DEF FreshInv
<1>2. ASSUME Tombstones' = Tombstones, UNCHANGED <<entries, fresh, published, inflight, job>>,
             pc' \in {pc, "publish"} \/ job' = "apply", ~ failed' => ~ failed /\ (pc = pc' \/ pc = "build")
      PROVE  FreshInv'
  BY <1>2 DEF FreshInv
<1>3. ASSUME UNCHANGED <<tomb, cached, cache>> PROVE Tombstones' = Tombstones
  BY <1>3, SameTombstones DEF Tombstones
<1>4. CASE WriterStep \/ Fault
  <2>1. ASSUME NEW i \in SegId, BuildSegment(i) \/ FailBuild(i) PROVE FreshInv'
    BY <1>2, <1>3, <2>1 DEF BuildSegment, FailBuild
  <2>2. CASE BuildsFailed \/ FailTombstones \/ PublishChanges \/ CompactionDone
    BY <1>1, <2>2 DEF BuildsFailed, FailTombstones, Abandon, PublishChanges, CompactionDone, Release
  <2>3. CASE BuildsDone
    BY <1>2, <1>3, <2>3 DEF BuildsDone, TypeOK
  <2>4. ASSUME NEW i \in SegId, WriteTombstones(i) PROVE FreshInv'
    BY <2>4 DEF WriteTombstones, FreshInv, ReadyToTombstone, ListInv
  <2>5. CASE SetCachedTombstones
    BY <2>5 DEF SetCachedTombstones, FreshInv, ListInv
  <2>6. CASE PublishCompacted
    BY <1>1, <2>6 DEF PublishCompacted
  <2>7. ASSUME NEW i \in SegId, UnlinkFile(i) \/ RemoveDir(i) \/ FailRemoveDir(i) PROVE FreshInv'
    BY <1>1, <2>7 DEF UnlinkFile, RemoveDir, FailRemoveDir, ListInv
  <2>. QED
    BY <1>4, <2>1, <2>2, <2>3, <2>4, <2>5, <2>6, <2>7 DEF WriterStep, Fault
<1>5. ASSUME NEW r \in Readers, TakeSnapshot(r) \/ ReaderStep(r) PROVE FreshInv'
  <2>1. Tombstones' = Tombstones
    BY <1>3, <1>5, FillCacheKeeps DEF ReaderStep, TakeSnapshot, SearchSegment, FinishSearch, Tombstones
  <2>. QED
    BY <1>2, <1>5, <2>1 DEF ReaderStep, TakeSnapshot, SearchSegment, FinishSearch
<1>6. CASE Crash
  BY <1>1, <1>6 DEF Crash
<1>7. CASE Restart
  BY <1>7 DEF Restart, FreshInv, PhaseInv, ListInv
<1>8. CASE UNCHANGED vars
  BY <1>2, <1>3, <1>8 DEF vars
<1>. QED
  BY <1>4, <1>5, <1>6, <1>7, <1>8, FreshBegin DEF Next

(***************************************************************************)
(* The index holds what the completed batches say                          *)
(***************************************************************************)

\* No I/O error so far, and kills spare remove_dir_all: nothing a failed or half-done
\* operation left on disk can come back at the next start.
Clean == faults = 0 /\ ~ CrashDuringRemoval

\* The process has not been restarted, or there was nothing to come back.
Undamaged == crashes = 0 \/ Clean

\* The running batch is going to tombstone an entry of path p.
Doomed(p) == \E id \in SegId : \E f \in doomed[id] : entries[id][f].path = p

\* The tombstones of every segment once the running batch has written its own.
AfterBatch == [id \in SegId |-> LoadTombstones(id) \cup doomed[id]]

\* A path is present at most once in the truth; a killed process has been counted.
OptionInv ==
    /\ \A p \in Path : truth[p] \in Option /\ goal.truth[p] \in Option
    /\ pc = "down" => crashes # 0

\* What a search that starts now finds, batch or not: for a path that is not being
\* tombstoned, the truth.
BaseTrue ==
    Undamaged /\ pc # "down" =>
        \A p \in Path \ suspect : pc = "build" \/ ~ Doomed(p) =>
            Holds(entries, published, Tombstones, p) = truth[p]

\* What a search finds once the running batch is published: what the batch announced.
PlanTrue ==
    Undamaged /\ Applying /\ ~ failed =>
        \A p \in Path \ goal.suspect :
            Holds(entries, published \cup fresh, AfterBatch, p) = goal.truth[p]

\* What is on disk besides the published segments says nothing new.
DiskInv ==
    Clean =>
        /\ partial \subseteq targets
        /\ partial # {} => pc = "remove"
        /\ failed => fresh = {}
        /\ pc # "down" => dirs \subseteq published \cup fresh \cup targets
        /\ \A p \in Path \ (suspect \cup inflight) :
             Holds(entries, dirs \ partial, tomb, p) \subseteq truth[p]
        /\ pc = "down" => \A p \in Path \ suspect : Holds(entries, dirs, tomb, p) = truth[p]

TruthInv == OptionInv /\ BaseTrue /\ PlanTrue /\ DiskInv

\* Damage does not heal.
LEMMA DamageStays ==
    ASSUME TypeOK, [Next]_vars
    PROVE  /\ Clean' => Clean
           /\ Undamaged' => Undamaged
           /\ Fault => ~ Clean'
<1>. USE DEF diskVars, memVars, writerVars, readerVars, ghostVars, counters
<1>1. faults \in Nat /\ crashes \in Nat
  BY BoundsAssumption DEF TypeOK
<1>2. ASSUME Fault PROVE faults' = faults + 1 /\ crashes' = crashes
  BY <1>2 DEF Fault, FailBuild, FailTombstones, FailRemoveDir, CountFault
<1>3. ASSUME Crash PROVE faults' = faults /\ crashes' = crashes + 1
  BY <1>3 DEF Crash
<1>4. CASE Batch \/ FirstIndex \/ Compact
  <2>1. faults' = faults /\ crashes' = crashes
    BY <1>4 DEF Batch, ApplyChanges, FirstIndex, IndexFiles, Compact
  <2>. QED
    BY <1>1, <1>2, <2>1 DEF Clean, Undamaged
<1>5. CASE WriterStep
  <2>1. faults' = faults /\ crashes' = crashes
    BY <1>5 DEF WriterStep, BuildSegment, BuildsFailed, BuildsDone,
     WriteTombstones, SetCachedTombstones, PublishChanges, PublishCompacted, UnlinkFile,
     RemoveDir, CompactionDone
  <2>. QED
    BY <1>1, <1>2, <2>1 DEF Clean, Undamaged
<1>6. ASSUME NEW r \in Readers, TakeSnapshot(r) \/ ReaderStep(r)
      PROVE  faults' = faults /\ crashes' = crashes
  BY <1>6 DEF TakeSnapshot, ReaderStep, SearchSegment, FinishSearch
<1>7. CASE Restart \/ UNCHANGED vars
  <2>1. faults' = faults /\ crashes' = crashes
    BY <1>7 DEF Restart, vars
  <2>. QED
    BY <1>1, <1>2, <2>1 DEF Clean, Undamaged
<1>8. CASE Fault
  <2>1. faults + 1 # 0
    BY <1>1
  <2>. QED
    BY <1>2, <1>8, <2>1 DEF Clean, Undamaged
<1>9. CASE Crash
  <2>1. crashes + 1 # 0 /\ faults + 1 # faults
    BY <1>1
  <2>. QED
    BY <1>2, <1>3, <1>9, <2>1 DEF Clean, Undamaged
<1>10. CASE \E r \in Readers : TakeSnapshot(r) \/ ReaderStep(r)
  <2>1. faults' = faults /\ crashes' = crashes
    BY <1>6, <1>10
  <2>2. faults + 1 # faults
    BY <1>1
  <2>. QED
    BY <1>2, <2>1, <2>2 DEF Clean, Undamaged
<1>. QED
  BY <1>4, <1>5, <1>7, <1>8, <1>9, <1>10 DEF Next

\* While the process runs the published segments are the same, with the same tombstones
\* for every path that is not doomed.
LEMMA HeldStays ==
    ASSUME CoreInv, [Next]_vars, pc # "down", pc' # "down", NEW p, ~ Doomed(p)
    PROVE  Holds(entries', published, Tombstones', p) = Holds(entries, published, Tombstones, p)
<1>. USE DEF CoreInv
<1>1. published \subseteq SegId /\ \A id \in published : id < nextId
  BY DEF TypeOK, ListOnDisk
<1>2. \A id \in published : entries'[id] = entries[id]
  BY <1>1, OldEntriesStay
<1>3. ASSUME NEW id \in published, NEW f \in DOMAIN entries[id], entries[id][f].path = p
      PROVE  f \in Tombstones[id] <=> f \in Tombstones'[id]
  <2>1. /\ LoadTombstones(id) \subseteq LoadTombstones(id)'
        /\ LoadTombstones(id)' \subseteq LoadTombstones(id) \cup doomed[id]
    BY <1>1, StepGrows, StepAddsDoomed
  <2>2. f \notin doomed[id]
    BY <1>1, <1>3 DEF Doomed
  <2>. QED
    BY <1>1, <2>1, <2>2 DEF Tombstones
<1>. QED
  BY <1>2, <1>3, HoldsSame

\* The paths of a batch are the only ones doomed.
LEMMA DoomedInflight == ASSUME DoomedInv, NEW p, Doomed(p) PROVE p \in inflight \ goal.suspect
BY DEF DoomedInv, Doomed

\* With nothing doomed, no path is.
LEMMA NothingDoomed == ASSUME doomed = NoSegments, NEW p PROVE ~ Doomed(p)
BY DEF NoSegments, Doomed

\* At the start of an operation the index holds the truth, before and after the step.
LEMMA BeginHolds ==
    ASSUME CoreInv, BaseTrue, Undamaged, Batch \/ FirstIndex \/ Compact, NEW p \in Path \ suspect
    PROVE  /\ Holds(entries, published, Tombstones, p) = truth[p]
           /\ Holds(entries', published', Tombstones', p) = truth'[p]
<1>1. pc = "idle" /\ pc' = "build" /\ UNCHANGED <<published, truth>>
  BY BeginFacts DEF CoreInv
<1>2. doomed = NoSegments
  BY <1>1 DEF CoreInv, PhaseInv, Applying
<1>3. ~ Doomed(p)
  BY <1>2, NothingDoomed
<1>4. Holds(entries', published, Tombstones', p) = Holds(entries, published, Tombstones, p)
  BY <1>1, <1>3, HeldStays DEF Next
<1>5. Holds(entries, published, Tombstones, p) = truth[p]
  BY <1>1, <1>3 DEF BaseTrue
<1>. QED
  BY <1>1, <1>4, <1>5

\* The start of an operation leaves what searches find as it was.
LEMMA BaseBegin ==
    ASSUME CoreInv, BaseTrue, Batch \/ FirstIndex \/ Compact PROVE BaseTrue'
<1>1. Undamaged' => Undamaged
  BY DamageStays DEF CoreInv, Next
<1>2. suspect' = suspect
  BY BeginFacts DEF CoreInv
<1>. QED
  BY <1>1, <1>2, BeginHolds DEF BaseTrue

\* After the batch, the new segments hold what the batch indexes.
LEMMA PlanFresh ==
    ASSUME CoreInv, Batch \/ FirstIndex, NEW K \in SUBSET Entry, NEW q \in Orderings(K),
           Allocate(q), ~ failed', NEW p, \A id \in fresh' : doomed'[id] = {}
    PROVE  Holds(entries', fresh', AfterBatch', p) =
             {c \in Content : \E x \in K : x.path = p /\ x.content = c}
<1>1. /\ \A id \in SegId : LoadTombstones(id)' = LoadTombstones(id)
      /\ \A id \in fresh' : id \notin dirs /\ id \notin cached
      /\ fresh' \subseteq SegId
  BY BeginFacts DEF CoreInv
<1>2. \A id \in fresh' : AfterBatch'[id] = {}
  BY <1>1 DEF AfterBatch, CoreInv, AgreeInv, LoadTombstones
<1>3. q \in Seq(Entry)
  BY OrderingsType
<1>4. Holds(entries', fresh', AfterBatch', p) = Listed(q, p)
  BY <1>2, <1>3, AllocateHolds DEF CoreInv
<1>. QED
  BY <1>4, ListedOrdering

\* The paths of a batch whose entries it tombstones, and those it writes new entries for.
Gone(batch) == {p \in DOMAIN batch : NeedsTombstone(batch[p])}

Anew(batch, read) ==
    {p \in DOMAIN batch :
        /\ NeedsNewEntry(batch[p])
        /\ read[p] # {}
        /\ ~ SkipUnchanged(p, Gone(batch), read[p])}

\* At the start of apply_changes it is settled what the index will hold after the batch.
LEMMA BatchHolds ==
    ASSUME CoreInv, NEW batch \in Changes, NEW read \in [DOMAIN batch -> Option],
           ApplyChanges(batch, read), ~ failed', NEW p \in Path
    PROVE  Holds(entries', published' \cup fresh', AfterBatch', p) =
             (IF p \in Gone(batch) THEN {} ELSE Holds(entries, published, Tombstones, p)) \cup
             (IF p \in Anew(batch, read) THEN read[p] ELSE {})
<1>. DEFINE gone == Gone(batch)
            new == Anew(batch, read)
            files == UNION {{[path |-> q, content |-> c] : c \in read[q]} : q \in new}
            hit(id) == {f \in DOMAIN entries[id] \ LoadTombstones(id) :
                          entries[id][f].path \in gone}
            old == Holds(entries', published, AfterBatch', p)
            added == Holds(entries', fresh', AfterBatch', p)
<1>1. Batch
  BY DEF Batch
<1>2. doomed' = [id \in SegId |-> IF id \in published THEN hit(id) ELSE {}]
  BY DEF ApplyChanges, Gone
<1>3. PICK list \in Orderings(files) : Allocate(list)
  BY DEF ApplyChanges, Gone, Anew
<1>4. /\ DOMAIN batch \subseteq Path
      /\ \A q \in DOMAIN batch : read[q] \subseteq Content
  BY DEF Changes, Option
<1>5. new \subseteq DOMAIN batch
  BY DEF Anew
<1>6. files \subseteq Entry
  <2>. SUFFICES ASSUME NEW e \in files PROVE e \in Entry
    OBVIOUS
  <2>1. PICK q \in new : \E c \in read[q] : e = [path |-> q, content |-> c]
    OBVIOUS
  <2>. QED
    BY <1>4, <1>5, <2>1 DEF Entry
<1>7. /\ \A id \in SegId : LoadTombstones(id)' = LoadTombstones(id)
      /\ \A id \in fresh' : id \in SegId /\ id \notin published
      /\ \A id \in SegId \ fresh' : entries'[id] = entries[id]
      /\ published' = published /\ published \subseteq SegId
  BY <1>1, BeginFacts DEF CoreInv, TypeOK
<1>8. \A x \in files : \E q \in new : \E c \in read[q] : x = [path |-> q, content |-> c]
  OBVIOUS
<1>9. \A q \in new : \A c \in read[q] : [path |-> q, content |-> c] \in files
  <2>. SUFFICES ASSUME NEW q \in new, NEW c \in read[q]
                PROVE  \E K \in {{[path |-> r, content |-> d] : d \in read[r]} : r \in new} :
                         [path |-> q, content |-> c] \in K
    OBVIOUS
  <2>1. [path |-> q, content |-> c] \in {[path |-> q, content |-> d] : d \in read[q]}
    OBVIOUS
  <2>. QED
    BY <2>1
<1>10. \A id \in fresh' : doomed'[id] = {}
  BY <1>2, <1>7
<1>11. Holds(entries', published' \cup fresh', AfterBatch', p) = old \cup added
  BY <1>7, HoldsUnion
<1>12. added = IF p \in new THEN read[p] ELSE {}
  <2>. HIDE DEF files
  <2>1. added = {c \in Content : \E x \in files : x.path = p /\ x.content = c}
    BY <1>1, <1>3, <1>6, <1>10, PlanFresh
  <2>. HIDE DEF new, added
  <2>2. ASSUME NEW x \in files, x.path = p PROVE p \in new /\ x.content \in read[p]
    BY <1>8, <2>2
  <2>3. ASSUME p \in new, NEW c \in read[p]
        PROVE  \E x \in files : x.path = p /\ x.content = c
    BY <1>9, <2>3
  <2>4. p \in new => read[p] \subseteq Content
    BY <1>4, <1>5
  <2>5. CASE p \in new
    BY <2>1, <2>2, <2>3, <2>4, <2>5
  <2>6. CASE p \notin new
    BY <2>1, <2>2, <2>6
  <2>. QED
    BY <2>5, <2>6
<1>13. \A id \in published : AfterBatch'[id] = LoadTombstones(id) \cup hit(id)
                             /\ Tombstones[id] = LoadTombstones(id) /\ entries'[id] = entries[id]
  BY <1>2, <1>7 DEF AfterBatch, Tombstones
<1>14. p \in gone => old = {}
  <2>. SUFFICES ASSUME p \in gone, NEW id \in published, NEW f \in DOMAIN entries'[id] \ AfterBatch'[id],
                       entries'[id][f].path = p
                PROVE  FALSE
    BY DEF Holds
  <2>. QED
    BY <1>13
<1>15. p \notin gone => old = Holds(entries, published, Tombstones, p)
  <2>1. ASSUME p \notin gone, NEW id \in published, NEW f \in DOMAIN entries[id], entries[id][f].path = p
        PROVE  f \in Tombstones[id] <=> f \in AfterBatch'[id]
    BY <1>13, <2>1
  <2>. QED
    BY <1>13, <2>1, HoldsSame
<1>. QED
  BY <1>11, <1>12, <1>14, <1>15

\* The start of apply_changes announces what its publication will make true.
LEMMA PlanBatch == ASSUME CoreInv, OptionInv, BaseTrue, Batch PROVE PlanTrue'
<1>1. PICK batch \in Changes : \E read \in [DOMAIN batch -> Option] : ApplyChanges(batch, read)
  BY DEF Batch
<1>2. PICK read \in [DOMAIN batch -> Option] : ApplyChanges(batch, read)
  BY <1>1
<1>. DEFINE gone == Gone(batch)
            new == Anew(batch, read)
            want == [p \in DOMAIN batch |-> IF batch[p] = "Deleted" THEN {} ELSE read[p]]
            blind == {p \in DOMAIN batch : batch[p] = "Created"}
<1>3. /\ goal'.suspect = (suspect \ (DOMAIN batch \ blind)) \cup
                    {p \in blind : GetFile(published, Tombstones, p) \notin {{}, want[p]}}
      /\ goal'.truth = [p \in Path |-> IF p \in DOMAIN batch THEN want[p] ELSE truth[p]]
  BY <1>2 DEF ApplyChanges, Announce
<1>4. \A p \in DOMAIN batch : batch[p] \in ChangeKind
  BY DEF Changes
<1>5. published \subseteq SegId
  BY DEF CoreInv, TypeOK
<1>6. ASSUME Undamaged', ~ failed', NEW p \in Path \ goal'.suspect
      PROVE  Holds(entries', published' \cup fresh', AfterBatch', p) = goal'.truth[p]
  <2>. DEFINE held == Holds(entries, published, Tombstones, p)
  <2>1. Holds(entries', published' \cup fresh', AfterBatch', p) =
          (IF p \in gone THEN {} ELSE held) \cup (IF p \in new THEN read[p] ELSE {})
    BY <1>2, <1>6, BatchHolds
  <2>2. Undamaged
    BY <1>6, DamageStays DEF CoreInv, Next
  <2>3. p \notin suspect => held = truth[p] /\ GetFile(published, Tombstones, p) = truth[p]
                            /\ ExistingHash(p) \subseteq truth[p]
    <3>1. ASSUME p \notin suspect PROVE held = truth[p]
      BY <2>2, <3>1, BeginHolds
    <3>2. truth[p] \in Option
      BY DEF OptionInv
    <3>. QED
      BY <1>5, <3>1, <3>2, GetFileHolds, ExistingHashHeld DEF CoreInv
  <2>. HIDE DEF held
  <2>4. CASE p \notin DOMAIN batch
    BY <1>3, <2>1, <2>3, <2>4 DEF Gone, Anew
  <2>5. CASE p \in gone
    <3>1. p \in DOMAIN batch /\ (p \in new <=> NeedsNewEntry(batch[p]) /\ read[p] # {})
      BY <2>5 DEF SkipUnchanged, Gone, Anew
    <3>2. goal'.truth[p] = IF batch[p] = "Deleted" THEN {} ELSE read[p]
      BY <1>3, <3>1
    <3>3. NeedsNewEntry(batch[p]) <=> batch[p] # "Deleted"
      BY <1>4, <3>1 DEF NeedsNewEntry, ChangeKind
    <3>. QED
      BY <2>1, <2>5, <3>1, <3>2, <3>3
  <2>6. CASE p \in DOMAIN batch /\ p \notin gone
    <3>1. batch[p] = "Created"
      BY <1>4, <2>6 DEF NeedsTombstone, ChangeKind, Gone
    <3>2. p \notin suspect /\ goal'.truth[p] = read[p] /\ truth[p] \in {{}, read[p]}
      BY <1>3, <1>6, <2>3, <2>6, <3>1
    <3>3. p \in new <=> read[p] # {} /\ ExistingHash(p) # read[p]
      BY <2>6, <3>1 DEF NeedsNewEntry, SkipUnchanged, Anew
    <3>. HIDE DEF new, gone
    <3>4. CASE p \in new \/ read[p] = {}
      BY <2>1, <2>3, <2>6, <3>2, <3>3, <3>4
    <3>5. CASE p \notin new /\ read[p] # {}
      <4>1. read[p] \subseteq truth[p] /\ truth[p] = read[p]
        BY <2>3, <3>2, <3>3, <3>5
      <4>. QED
        BY <2>1, <2>3, <2>6, <3>2, <3>5, <4>1
    <3>. QED
      BY <3>4, <3>5
  <2>. QED
    BY <2>4, <2>5, <2>6
<1>. QED
  BY <1>6 DEF PlanTrue

\* So it is at the start of index_files.
LEMMA IndexHolds ==
    ASSUME CoreInv, NEW P \in SUBSET Path, NEW contents \in [P -> Content], P # {},
           IndexFiles(contents), ~ failed', NEW p \in Path
    PROVE  Holds(entries', published' \cup fresh', AfterBatch', p) =
             Holds(entries, published, Tombstones, p) \cup (IF p \in P THEN {contents[p]} ELSE {})
<1>. DEFINE files == {[path |-> q, content |-> contents[q]] : q \in DOMAIN contents}
            old == Holds(entries', published, AfterBatch', p)
            added == Holds(entries', fresh', AfterBatch', p)
<1>1. FirstIndex
  BY DEF FirstIndex
<1>2. doomed' = NoSegments
  BY DEF IndexFiles
<1>3. PICK list \in Orderings(files) : Allocate(list)
  BY DEF IndexFiles
<1>4. files \subseteq Entry
  BY DEF Entry
<1>5. /\ \A id \in SegId : LoadTombstones(id)' = LoadTombstones(id)
      /\ \A id \in fresh' : id \in SegId /\ id \notin published
      /\ \A id \in SegId \ fresh' : entries'[id] = entries[id]
      /\ published' = published /\ published \subseteq SegId
  BY <1>1, BeginFacts DEF CoreInv, TypeOK
<1>6. Holds(entries', published' \cup fresh', AfterBatch', p) = old \cup added
  BY <1>5, HoldsUnion
<1>7. added = IF p \in P THEN {contents[p]} ELSE {}
  <2>1. added = {c \in Content : \E x \in files : x.path = p /\ x.content = c}
    BY <1>1, <1>2, <1>3, <1>4, <1>5, PlanFresh DEF NoSegments
  <2>2. ASSUME NEW x \in files, x.path = p PROVE p \in P /\ x.content = contents[p]
    BY <2>2
  <2>3. ASSUME p \in P PROVE \E x \in files : x.path = p /\ x.content = contents[p]
    <3>1. [path |-> p, content |-> contents[p]] \in files
      BY <2>3
    <3>. QED
      BY <3>1
  <2>. QED
    BY <2>1, <2>2, <2>3
<1>8. \A id \in published : AfterBatch'[id] = Tombstones[id] /\ entries'[id] = entries[id]
  BY <1>2, <1>5 DEF AfterBatch, Tombstones, NoSegments
<1>9. old = Holds(entries, published, Tombstones, p)
  BY <1>8, HoldsSame
<1>. HIDE DEF old, added
<1>. QED
  BY <1>6, <1>7, <1>9

\* The start of index_files announces what its publication will make true.
LEMMA PlanIndex == ASSUME CoreInv, OptionInv, BaseTrue, FirstIndex PROVE PlanTrue'
<1>1. PICK P \in (SUBSET Path) \ {{}} : \E contents \in [P -> Content] : IndexFiles(contents)
  BY DEF FirstIndex
<1>2. PICK contents \in [P -> Content] : IndexFiles(contents)
  BY <1>1
<1>3. /\ goal'.suspect = suspect \cup
              {p \in P : GetFile(published, Tombstones, p) \notin {{}, {contents[p]}}}
      /\ goal'.truth = [p \in Path |-> IF p \in P THEN {contents[p]} ELSE truth[p]]
  BY <1>2 DEF IndexFiles, Announce
<1>4. ASSUME Undamaged', ~ failed', NEW p \in Path \ goal'.suspect
      PROVE  Holds(entries', published' \cup fresh', AfterBatch', p) = goal'.truth[p]
  <2>1. Holds(entries', published' \cup fresh', AfterBatch', p) =
          Holds(entries, published, Tombstones, p) \cup (IF p \in P THEN {contents[p]} ELSE {})
    BY <1>1, <1>2, <1>4, IndexHolds
  <2>2. Undamaged
    BY <1>4, DamageStays DEF CoreInv, Next
  <2>3. p \notin suspect
    BY <1>3
  <2>4. Holds(entries, published, Tombstones, p) = truth[p]
    BY <2>2, <2>3, BeginHolds
  <2>5. truth[p] \in Option /\ published \subseteq SegId
    BY DEF OptionInv, CoreInv, TypeOK
  <2>6. GetFile(published, Tombstones, p) = truth[p]
    BY <2>4, <2>5, GetFileHolds DEF CoreInv
  <2>7. CASE p \in P
    <3>1. goal'.truth[p] = {contents[p]} /\ truth[p] \in {{}, {contents[p]}}
      BY <1>3, <2>6, <2>7
    <3>. QED
      BY <2>1, <2>4, <2>7, <3>1
  <2>8. CASE p \notin P
    BY <1>3, <2>1, <2>4, <2>8
  <2>. QED
    BY <2>7, <2>8
<1>. QED
  BY <1>4 DEF PlanTrue

\* The optional contents stay optional.
LEMMA OptionStep == ASSUME CoreInv, OptionInv, [Next]_vars PROVE OptionInv'
<1>. USE DEF diskVars, memVars, writerVars, readerVars, ghostVars, counters
<1>1. ASSUME NEW want, NEW blind, Announce(want, blind), UNCHANGED truth,
             \A p \in DOMAIN want : want[p] \in Option, pc' # "down"
      PROVE  OptionInv'
  BY <1>1 DEF Announce, OptionInv
<1>2. CASE Batch
  <2>1. PICK batch \in Changes : \E read \in [DOMAIN batch -> Option] : ApplyChanges(batch, read)
    BY <1>2 DEF Batch
  <2>2. PICK read \in [DOMAIN batch -> Option] : ApplyChanges(batch, read)
    BY <2>1
  <2>. DEFINE want == [p \in DOMAIN batch |-> IF batch[p] = "Deleted" THEN {} ELSE read[p]]
  <2>3. \A p \in DOMAIN want : want[p] \in Option
    BY DEF Option
  <2>4. Announce(want, {p \in DOMAIN batch : batch[p] = "Created"}) /\ UNCHANGED truth
    BY <2>2 DEF ApplyChanges
  <2>5. pc' # "down"
    BY <1>2, BeginFacts DEF CoreInv
  <2>. QED
    BY <1>1, <2>3, <2>4, <2>5
<1>3. CASE FirstIndex
  <2>1. PICK P \in SUBSET Path : \E contents \in [P -> Content] : IndexFiles(contents)
    BY <1>3 DEF FirstIndex
  <2>2. PICK contents \in [P -> Content] : IndexFiles(contents)
    BY <2>1
  <2>. DEFINE want == [p \in DOMAIN contents |-> {contents[p]}]
  <2>3. \A p \in DOMAIN want : want[p] \in Option
    BY DEF Option
  <2>4. Announce(want, DOMAIN contents) /\ UNCHANGED truth
    BY <2>2 DEF IndexFiles
  <2>5. pc' # "down"
    BY <1>3, BeginFacts DEF CoreInv
  <2>. QED
    BY <1>1, <2>3, <2>4, <2>5
<1>4. CASE Compact
  <2>1. Announce(<<>>, {}) /\ UNCHANGED truth
    BY <1>4 DEF Compact
  <2>2. pc' # "down"
    BY <1>4, BeginFacts DEF CoreInv
  <2>. QED
    BY <1>1, <2>1, <2>2
<1>5. CASE WriterStep \/ Fault
  <2>1. pc' # "down"
    BY <1>5 DEF WriterStep, Fault, BuildSegment, BuildsFailed, Abandon, BuildsDone, Release,
         WriteTombstones, SetCachedTombstones, PublishChanges, PublishCompacted, UnlinkFile,
         RemoveDir, CompactionDone, FailBuild, FailTombstones, FailRemoveDir
  <2>2. truth' = truth \/ truth' = goal.truth
    BY <1>5 DEF WriterStep, Fault, BuildSegment, BuildsFailed, Abandon, BuildsDone,
         WriteTombstones, SetCachedTombstones, PublishChanges, PublishCompacted, UnlinkFile,
         RemoveDir, CompactionDone, FailBuild, FailTombstones, FailRemoveDir
  <2>3. goal' = goal \/ Release
    BY <1>5 DEF WriterStep, Fault, BuildSegment, BuildsFailed, Abandon, BuildsDone,
         WriteTombstones, SetCachedTombstones, PublishChanges, PublishCompacted, UnlinkFile,
         RemoveDir, CompactionDone, FailBuild, FailTombstones, FailRemoveDir
  <2>4. goal'.truth = goal.truth \/ goal'.truth = truth'
    BY <2>3 DEF Release
  <2>. QED
    BY <2>1, <2>2, <2>4 DEF OptionInv
<1>6. ASSUME NEW r \in Readers, TakeSnapshot(r) \/ ReaderStep(r) PROVE OptionInv'
  BY <1>6 DEF TakeSnapshot, ReaderStep, SearchSegment, FinishSearch, OptionInv
<1>7. CASE Crash
  <2>1. crashes' # 0
    BY <1>7, BoundsAssumption DEF Crash, CoreInv, TypeOK
  <2>. QED
    BY <1>7, <2>1 DEF Crash, OptionInv
<1>8. CASE Restart
  BY <1>8 DEF Restart, OptionInv
<1>9. CASE UNCHANGED vars
  BY <1>9 DEF vars, OptionInv
<1>. QED
  BY <1>2, <1>3, <1>4, <1>5, <1>6, <1>7, <1>8, <1>9 DEF Next

\* The running operation keeps what searches find, and reaches what it announced.
LEMMA TruthWriter ==
    ASSUME CoreInv, FreshInv, TruthInv, WriterStep \/ Fault PROVE BaseTrue' /\ PlanTrue'
<1>. USE DEF diskVars, memVars, writerVars, readerVars, ghostVars, counters
<1>1. [Next]_vars
  BY DEF Next
<1>2. Undamaged' => Undamaged
  BY <1>1, DamageStays DEF CoreInv
<1>3. pc # "down" /\ pc' # "down"
  BY DEF WriterStep, Fault, BuildSegment, BuildsFailed, Abandon, BuildsDone, Release,
         WriteTombstones, SetCachedTombstones, PublishChanges, PublishCompacted, UnlinkFile,
         RemoveDir, CompactionDone, FailBuild, FailTombstones, FailRemoveDir, ReadyToTombstone
<1>4. /\ \A id \in SegId : LoadTombstones(id) \subseteq LoadTombstones(id)'
      /\ \A id \in SegId : LoadTombstones(id)' \subseteq LoadTombstones(id) \cup doomed[id]
  BY <1>1, <1>3, StepGrows, StepAddsDoomed DEF CoreInv
<1>5. /\ published \subseteq SegId /\ fresh \subseteq SegId /\ TypeOK
      /\ \A id \in published : Tombstones[id] = LoadTombstones(id)
      /\ \A id \in published : Tombstones'[id] = LoadTombstones(id)'
  BY DEF CoreInv, TypeOK, Tombstones
<1>6. ASSUME UNCHANGED <<entries, published, truth, suspect, doomed>>, pc' = "build" => pc = "build"
      PROVE  BaseTrue'
  <2>. SUFFICES ASSUME Undamaged', NEW p \in Path \ suspect, pc' = "build" \/ ~ Doomed(p)'
                PROVE  Holds(entries', published', Tombstones', p) = truth'[p]
    BY <1>6 DEF BaseTrue
  <2>1. Doomed(p)' <=> Doomed(p)
    BY <1>6 DEF Doomed
  <2>2. CASE ~ Doomed(p)
    BY <1>1, <1>2, <1>3, <1>6, <2>2, HeldStays DEF BaseTrue, TruthInv
  <2>3. CASE pc' = "build" /\ pc = "build"
    <3>1. Tombstones' = Tombstones
      <4>1. UNCHANGED <<tomb, cached, cache>>
        BY <2>3 DEF WriterStep, Fault, BuildSegment, BuildsFailed, Abandon, BuildsDone, Release,
         WriteTombstones, SetCachedTombstones, PublishChanges, PublishCompacted, UnlinkFile,
         RemoveDir, CompactionDone, FailBuild, FailTombstones, FailRemoveDir, ReadyToTombstone
      <4>. QED
        BY <4>1, SameTombstones DEF Tombstones
    <3>. QED
      BY <1>2, <1>3, <1>6, <2>3, <3>1 DEF BaseTrue, TruthInv
  <2>. QED
    BY <1>6, <2>1, <2>2, <2>3
<1>7. ASSUME UNCHANGED <<entries, published, fresh, goal, doomed, job>>, Applying' => Applying,
             failed => failed', AfterBatch' = AfterBatch
      PROVE  PlanTrue'
  BY <1>2, <1>7 DEF PlanTrue, TruthInv
<1>8. AfterBatch' = AfterBatch \/ doomed' # doomed
  <2>1. ASSUME doomed' = doomed, NEW id \in SegId
        PROVE  LoadTombstones(id)' \cup doomed'[id] = LoadTombstones(id) \cup doomed[id]
    BY <1>4, <2>1
  <2>. QED
    BY <2>1 DEF AfterBatch
<1>9. ASSUME NEW i \in SegId, BuildSegment(i) \/ FailBuild(i) PROVE BaseTrue' /\ PlanTrue'
  <2>1. UNCHANGED <<entries, published, truth, suspect, doomed, pc, fresh, goal, job>>
        /\ (failed => failed')
    BY <1>9 DEF BuildSegment, FailBuild
  <2>. QED
    BY <1>6, <1>7, <1>8, <2>1 DEF Applying
<1>10. CASE BuildsDone
  <2>1. UNCHANGED <<entries, published, truth, suspect, doomed, fresh, goal, job, failed, tomb,
                    cached, cache>>
        /\ pc = "build" /\ pc' # "build"
    BY <1>10 DEF BuildsDone
  <2>. QED
    BY <1>6, <1>7, <1>8, <2>1 DEF Applying
<1>11. ASSUME NEW i \in SegId, WriteTombstones(i) PROVE BaseTrue' /\ PlanTrue'
  <2>1. UNCHANGED <<entries, published, truth, suspect, doomed, fresh, goal, job, failed>>
        /\ pc = "tombstone" /\ pc' = "setcache"
    BY <1>11 DEF WriteTombstones, ReadyToTombstone
  <2>. QED
    BY <1>6, <1>7, <1>8, <2>1 DEF Applying
<1>12. CASE SetCachedTombstones
  <2>1. UNCHANGED <<entries, published, truth, suspect, doomed, fresh, goal, job, failed>>
        /\ pc = "setcache" /\ pc' = "tombstone"
    BY <1>12 DEF SetCachedTombstones
  <2>. QED
    BY <1>6, <1>7, <1>8, <2>1 DEF Applying
<1>13. CASE BuildsFailed \/ FailTombstones
  <2>1. /\ suspect' = suspect \cup inflight /\ pc' = "idle"
        /\ UNCHANGED <<truth, entries, published>>
    BY <1>13 DEF BuildsFailed, FailTombstones, Abandon, Release
  <2>2. ASSUME Undamaged', NEW p \in Path \ suspect'
        PROVE  Holds(entries', published', Tombstones', p) = truth'[p]
    <3>1. ~ Doomed(p)
      BY <2>1, <2>2, DoomedInflight DEF CoreInv
    <3>. QED
      BY <1>1, <1>2, <1>3, <2>1, <2>2, <3>1, HeldStays DEF BaseTrue, TruthInv
  <2>. QED
    BY <2>1, <2>2 DEF BaseTrue, PlanTrue, Applying
<1>14. CASE PublishChanges
  <2>1. /\ pc = "tombstone" /\ targets = {} /\ published' = published \cup fresh
        /\ truth' = goal.truth /\ suspect' = goal.suspect /\ pc' = "idle"
        /\ UNCHANGED <<entries, tomb, cached, cache>>
    BY <1>14 DEF PublishChanges, Release
  <2>2. job = "apply" /\ ~ failed
    BY <2>1 DEF CoreInv, ListInv
  <2>3. \A id \in SegId : Tombstones'[id] = AfterBatch[id]
    BY <2>1, SameTombstones DEF Tombstones, AfterBatch, CoreInv, DoomedInv
  <2>4. ASSUME Undamaged', NEW p \in Path \ suspect'
        PROVE  Holds(entries', published', Tombstones', p) = truth'[p]
    <3>1. Holds(entries', published', Tombstones', p) = Holds(entries, published \cup fresh, AfterBatch, p)
      BY <1>5, <2>1, <2>3, HoldsSame
    <3>. QED
      BY <1>2, <2>1, <2>2, <2>4, <3>1 DEF PlanTrue, TruthInv, Applying
  <2>. QED
    BY <2>1, <2>4 DEF BaseTrue, PlanTrue, Applying
<1>15. CASE PublishCompacted
  <2>1. /\ pc = "publish" /\ published' = fresh /\ pc' = "remove"
        /\ UNCHANGED <<truth, suspect, entries, tomb, cached, cache>>
    BY <1>15 DEF PublishCompacted
  <2>2. job = "compact" /\ ~ failed /\ doomed = NoSegments
    BY <2>1 DEF CoreInv, ListInv, TombstoneInv, PhaseInv, Applying
  <2>3. Tombstones' = Tombstones
    BY <2>1, SameTombstones DEF Tombstones
  <2>4. ASSUME Undamaged', NEW p \in Path \ suspect'
        PROVE  Holds(entries', published', Tombstones', p) = truth'[p]
    <3>1. Holds(entries', published', Tombstones', p) = Holds(entries, published, Tombstones, p)
      BY <2>1, <2>2, <2>3 DEF FreshInv
    <3>2. ~ Doomed(p)
      BY <2>2, NothingDoomed
    <3>. QED
      BY <1>2, <1>3, <2>1, <2>4, <3>1, <3>2 DEF BaseTrue, TruthInv
  <2>. QED
    BY <2>1, <2>4 DEF BaseTrue, PlanTrue, Applying
<1>16. ASSUME NEW i \in SegId, UnlinkFile(i) \/ RemoveDir(i) \/ FailRemoveDir(i)
       PROVE  BaseTrue' /\ PlanTrue'
  <2>1. /\ pc = "remove" /\ pc' = "remove"
        /\ UNCHANGED <<entries, published, truth, suspect, doomed>>
    BY <1>16 DEF UnlinkFile, RemoveDir, FailRemoveDir
  <2>. QED
    BY <1>6, <2>1 DEF PlanTrue, Applying
<1>17. CASE CompactionDone
  <2>1. /\ pc = "remove" /\ pc' = "idle" /\ doomed' = NoSegments
        /\ UNCHANGED <<entries, published, truth, suspect>>
    BY <1>17 DEF CompactionDone, Release
  <2>2. doomed = NoSegments
    BY <2>1 DEF CoreInv, PhaseInv, Applying
  <2>. QED
    BY <1>6, <2>1, <2>2 DEF PlanTrue, Applying
<1>. QED
  BY <1>9, <1>10, <1>11, <1>12, <1>13, <1>14, <1>15, <1>16, <1>17 DEF WriterStep, Fault

\* Searches, kills, restarts and idling keep what searches find.
LEMMA TruthOther ==
    ASSUME CoreInv, TruthInv,
           (\E r \in Readers : TakeSnapshot(r) \/ ReaderStep(r)) \/ Crash \/ Restart \/ UNCHANGED vars
    PROVE  BaseTrue' /\ PlanTrue'
<1>. USE DEF diskVars, memVars, writerVars, readerVars, ghostVars, counters
<1>1. [Next]_vars
  BY DEF Next
<1>2. Undamaged' => Undamaged
  BY <1>1, DamageStays DEF CoreInv
<1>3. ASSUME Tombstones' = Tombstones,
             UNCHANGED <<entries, published, truth, suspect, doomed, pc, fresh, goal, job, failed>>
      PROVE  BaseTrue' /\ PlanTrue'
  <2>1. AfterBatch' = AfterBatch
    BY <1>3 DEF AfterBatch, Tombstones
  <2>2. \A p : Doomed(p)' <=> Doomed(p)
    BY <1>3 DEF Doomed
  <2>. QED
    BY <1>2, <1>3, <2>1, <2>2 DEF BaseTrue, PlanTrue, TruthInv, Applying
<1>4. ASSUME NEW r \in Readers, TakeSnapshot(r) \/ ReaderStep(r) PROVE BaseTrue' /\ PlanTrue'
  <2>1. UNCHANGED <<entries, published, truth, suspect, doomed, pc, fresh, goal, job, failed>>
    BY <1>4 DEF ReaderStep, TakeSnapshot, SearchSegment, FinishSearch
  <2>2. Tombstones' = Tombstones
    BY <1>4, FillCacheKeeps, SameTombstones
       DEF ReaderStep, TakeSnapshot, SearchSegment, FinishSearch, Tombstones, CoreInv
  <2>. QED
    BY <1>3, <2>1, <2>2
<1>5. CASE Crash
  BY <1>5 DEF Crash, BaseTrue, PlanTrue, Applying
<1>6. CASE Restart
  <2>1. /\ pc = "down" /\ pc' = "idle" /\ published' = dirs
        /\ UNCHANGED <<entries, tomb, cached, cache, truth, suspect>>
    BY <1>6 DEF Restart
  <2>2. \A id \in SegId : Tombstones'[id] = tomb[id]
    BY <2>1 DEF CoreInv, ListInv, LoadTombstones, Tombstones
  <2>3. dirs \subseteq SegId
    BY DEF CoreInv, TypeOK
  <2>4. ASSUME Undamaged', NEW p \in Path \ suspect
        PROVE  Holds(entries', published', Tombstones', p) = truth'[p]
    <3>1. Clean
      BY <1>2, <2>1, <2>4 DEF TruthInv, OptionInv, Undamaged
    <3>2. Holds(entries', published', Tombstones', p) = Holds(entries, dirs, tomb, p)
      BY <2>1, <2>2, <2>3, HoldsSame
    <3>. QED
      BY <2>1, <3>1, <3>2 DEF TruthInv, DiskInv
  <2>. QED
    BY <2>1, <2>4 DEF BaseTrue, PlanTrue, Applying
<1>7. CASE UNCHANGED vars
  BY <1>3, <1>7, SameTombstones DEF vars, Tombstones
<1>. QED
  BY <1>4, <1>5, <1>6, <1>7

\* The running operation leaves nothing on disk that could come back.
LEMMA DiskWriter == ASSUME CoreInv, FreshInv, TruthInv, WriterStep \/ Fault PROVE DiskInv'
<1>. USE DEF diskVars, memVars, writerVars, readerVars, ghostVars, counters
<1>1. [Next]_vars
  BY DEF Next
<1>2. (Clean' => Clean) /\ (Fault => ~ Clean')
  BY <1>1, DamageStays DEF CoreInv
<1>3. CASE Fault
  BY <1>2, <1>3 DEF DiskInv
<1>. SUFFICES ASSUME Clean, WriterStep PROVE DiskInv'
  BY <1>2, <1>3 DEF DiskInv
<1>4. /\ partial \subseteq targets
      /\ partial # {} => pc = "remove"
      /\ failed => fresh = {}
      /\ pc # "down" => dirs \subseteq published \cup fresh \cup targets
      /\ \A p \in Path \ (suspect \cup inflight) :
           Holds(entries, dirs \ partial, tomb, p) \subseteq truth[p]
  BY DEF TruthInv, DiskInv
<1>5. pc' # "down"
  BY DEF WriterStep, BuildSegment, BuildsFailed, Abandon, BuildsDone, Release,
         WriteTombstones, SetCachedTombstones, PublishChanges, PublishCompacted, UnlinkFile,
         RemoveDir, CompactionDone
<1>6. /\ published \subseteq SegId /\ fresh \subseteq SegId /\ dirs \subseteq SegId
      /\ tomb \in [SegId -> SUBSET FileId] /\ Undamaged
  BY DEF CoreInv, TypeOK, Undamaged
<1>7. ASSUME NEW i \in SegId, BuildSegment(i) PROVE DiskInv'
  <2>1. /\ pc = "build" /\ i \in todo /\ dirs' = dirs \cup {i}
        /\ UNCHANGED <<entries, tomb, partial, published, pc, fresh, targets, failed, truth,
                       suspect, inflight, job>>
    BY <1>7 DEF BuildSegment
  <2>2. i \in fresh /\ partial = {} /\ ~ failed
    BY <1>4, <2>1 DEF CoreInv, PhaseInv
  <2>3. ASSUME NEW p \in Path \ (suspect \cup inflight)
        PROVE  Holds(entries, {i}, tomb, p) \subseteq truth[p]
    <3>1. CASE job = "apply"
      BY <2>2, <2>3, <3>1 DEF FreshInv, Holds
    <3>2. CASE job = "compact"
      <4>1. doomed = NoSegments
        BY <3>2 DEF CoreInv, PhaseInv, Applying
      <4>2. Holds(entries, published, Tombstones, p) = truth[p]
        BY <1>6, <2>1, <2>3, <4>1, NothingDoomed DEF TruthInv, BaseTrue
      <4>3. Holds(entries, fresh, Tombstones, p) = Holds(entries, published, Tombstones, p)
        BY <2>1, <2>2, <3>2 DEF FreshInv
      <4>4. Tombstones[i] = {}
        BY <2>2 DEF CoreInv, AgreeInv, Tombstones
      <4>5. Holds(entries, {i}, tomb, p) \subseteq Holds(entries, fresh, Tombstones, p)
        BY <2>2, <4>4 DEF Holds
      <4>. QED
        BY <4>2, <4>3, <4>5
    <3>. QED
      BY <3>1, <3>2 DEF CoreInv, TypeOK
  <2>4. ASSUME NEW p \in Path \ (suspect \cup inflight)
        PROVE  Holds(entries, dirs' \ partial, tomb, p) \subseteq truth[p]
    <3>1. dirs' \ partial = (dirs \ partial) \cup {i}
      BY <2>1, <2>2
    <3>. QED
      BY <1>4, <2>3, <3>1, HoldsUnion
  <2>. QED
    BY <1>4, <2>1, <2>2, <2>4 DEF DiskInv
<1>8. CASE BuildsFailed
  <2>1. /\ pc = "build" /\ failed /\ suspect' = suspect \cup inflight /\ inflight' = {}
        /\ fresh' = {} /\ targets' = {} /\ failed' = FALSE
        /\ UNCHANGED <<dirs, entries, tomb, partial, published, truth>>
    BY <1>8 DEF BuildsFailed, Abandon, Release
  <2>2. targets \subseteq published
    BY <2>1 DEF CoreInv, PhaseInv
  <2>. QED
    BY <1>4, <1>5, <2>1, <2>2 DEF DiskInv
<1>9. CASE BuildsDone
  <2>1. /\ pc = "build"
        /\ UNCHANGED <<dirs, entries, tomb, partial, published, truth, suspect, inflight, fresh,
                       targets, failed>>
    BY <1>9 DEF BuildsDone
  <2>. QED
    BY <1>4, <1>5, <2>1 DEF DiskInv
<1>10. ASSUME NEW i \in SegId, WriteTombstones(i) PROVE DiskInv'
  <2>1. /\ pc = "tombstone" /\ i \in targets
        /\ tomb' = [tomb EXCEPT ![i] = LoadTombstones(i) \cup doomed[i]]
        /\ UNCHANGED <<dirs, entries, partial, published, truth, suspect, inflight, fresh,
                       targets, failed>>
    BY <1>10 DEF WriteTombstones, ReadyToTombstone, MergedTombstones
  <2>2. tomb[i] = LoadTombstones(i)
    BY <2>1 DEF CoreInv, PhaseInv, AgreeInv
  <2>3. \A id \in SegId : tomb[id] \subseteq tomb'[id]
    BY <1>6, <2>1, <2>2
  <2>4. \A p \in Path : Holds(entries, dirs \ partial, tomb', p)
                          \subseteq Holds(entries, dirs \ partial, tomb, p)
    BY <1>6, <2>3 DEF Holds
  <2>. QED
    BY <1>4, <1>5, <2>1, <2>4 DEF DiskInv
<1>11. CASE SetCachedTombstones
  <2>1. /\ pc = "setcache" /\ targets' = targets \ {current}
        /\ UNCHANGED <<dirs, entries, tomb, partial, published, truth, suspect, inflight, fresh,
                       failed>>
    BY <1>11 DEF SetCachedTombstones
  <2>2. current \in published /\ partial = {}
    BY <1>4, <2>1 DEF CoreInv, ListInv, PhaseInv
  <2>. QED
    BY <1>4, <1>5, <2>1, <2>2 DEF DiskInv
<1>12. CASE PublishChanges
  <2>1. /\ pc = "tombstone" /\ targets = {} /\ targets' = {} /\ fresh' = {} /\ inflight' = {}
        /\ failed' = FALSE /\ published' = published \cup fresh
        /\ truth' = goal.truth /\ suspect' = goal.suspect
        /\ UNCHANGED <<dirs, entries, tomb, partial>>
    BY <1>12 DEF PublishChanges, Release
  <2>2. job = "apply" /\ ~ failed /\ partial = {}
    BY <1>4, <2>1 DEF CoreInv, ListInv
  <2>3. \A id \in published \cup fresh : tomb[id] = AfterBatch[id]
    <3>1. \A id \in published \cup fresh : tomb[id] = LoadTombstones(id)
      BY <2>1 DEF CoreInv, AgreeInv
    <3>. QED
      BY <1>6, <2>1, <3>1 DEF AfterBatch, CoreInv, DoomedInv
  <2>4. ASSUME NEW p \in Path \ goal.suspect
        PROVE  Holds(entries, dirs \ partial, tomb, p) \subseteq goal.truth[p]
    <3>1. dirs \ partial \subseteq published \cup fresh
      BY <1>4, <2>1
    <3>2. Holds(entries, dirs \ partial, tomb, p)
            \subseteq Holds(entries, published \cup fresh, AfterBatch, p)
      BY <2>3, <3>1 DEF Holds
    <3>. QED
      BY <1>6, <2>1, <2>2, <2>4, <3>2 DEF TruthInv, PlanTrue, Applying
  <2>. QED
    BY <1>4, <1>5, <2>1, <2>2, <2>4 DEF DiskInv
<1>13. CASE PublishCompacted
  <2>1. /\ pc = "publish" /\ published' = fresh /\ fresh' = {}
        /\ UNCHANGED <<dirs, entries, tomb, partial, truth, suspect, inflight, targets, failed>>
    BY <1>13 DEF PublishCompacted
  <2>2. targets = published
    BY <2>1 DEF CoreInv, TombstoneInv, ListInv
  <2>. QED
    BY <1>4, <1>5, <2>1, <2>2 DEF DiskInv
<1>14. ASSUME NEW i \in SegId, UnlinkFile(i) \/ RemoveDir(i) PROVE DiskInv'
  <2>1. /\ pc = "remove" /\ pc' = "remove" /\ i \in targets
        /\ dirs' \ partial' = (dirs \ partial) \ {i}
        /\ \A id \in SegId \ {i} : tomb'[id] = tomb[id]
        /\ partial' \subseteq targets' /\ (dirs' \ targets') \subseteq (dirs \ targets)
        /\ UNCHANGED <<entries, published, truth, suspect, inflight, fresh, failed>>
    BY <1>4, <1>6, <1>14 DEF UnlinkFile, RemoveDir, NextToRemove
  <2>2. \A p \in Path : Holds(entries, dirs' \ partial', tomb', p)
                          \subseteq Holds(entries, dirs \ partial, tomb, p)
    BY <1>6, <2>1 DEF Holds
  <2>. QED
    BY <1>4, <1>5, <2>1, <2>2 DEF DiskInv
<1>15. CASE CompactionDone
  <2>1. /\ pc = "remove" /\ targets = {} /\ targets' = {} /\ fresh' = {} /\ inflight' = {}
        /\ failed' = FALSE
        /\ UNCHANGED <<dirs, entries, tomb, partial, published, truth, suspect>>
    BY <1>15 DEF CompactionDone, Release
  <2>2. inflight = {} /\ fresh = {}
    BY <2>1 DEF CoreInv, PhaseInv, Applying, ListInv
  <2>. QED
    BY <1>4, <1>5, <2>1, <2>2 DEF DiskInv
<1>. QED
  BY <1>7, <1>8, <1>9, <1>10, <1>11, <1>12, <1>13, <1>14, <1>15 DEF WriterStep

\* The start of an operation, searches, kills and restarts leave nothing either.
LEMMA DiskOther ==
    ASSUME CoreInv, TruthInv, [Next]_vars, ~ WriterStep, ~ Fault PROVE DiskInv'
<1>. USE DEF diskVars, memVars, writerVars, readerVars, ghostVars, counters
<1>1. Clean' => Clean
  BY DamageStays DEF CoreInv
<1>. SUFFICES ASSUME Clean PROVE DiskInv'
  BY <1>1 DEF DiskInv
<1>2. /\ partial \subseteq targets
      /\ partial # {} => pc = "remove"
      /\ failed => fresh = {}
      /\ pc # "down" => dirs \subseteq published \cup fresh \cup targets
      /\ \A p \in Path \ (suspect \cup inflight) :
           Holds(entries, dirs \ partial, tomb, p) \subseteq truth[p]
      /\ pc = "down" => \A p \in Path \ suspect : Holds(entries, dirs, tomb, p) = truth[p]
  BY DEF TruthInv, DiskInv
<1>3. /\ published \subseteq SegId /\ dirs \subseteq SegId /\ entries \in [SegId -> Seq(Entry)]
      /\ Undamaged
  BY DEF CoreInv, TypeOK, Undamaged
<1>4. CASE Batch \/ FirstIndex \/ Compact
  <2>1. /\ pc = "idle" /\ pc' = "build"
        /\ \A id \in SegId \ fresh' : entries'[id] = entries[id]
        /\ \A id \in fresh' : id \notin dirs
        /\ UNCHANGED <<dirs, tomb, partial, published, truth, suspect>>
    BY <1>4, BeginFacts DEF CoreInv
  <2>2. inflight = {} /\ fresh = {} /\ targets = {}
    BY <2>1 DEF CoreInv, PhaseInv, Applying
  <2>3. failed' => fresh' = {}
    BY <1>4, AllocateFailed DEF Batch, ApplyChanges, FirstIndex, IndexFiles, Compact
  <2>4. \A p \in Path : Holds(entries', dirs \ partial, tomb, p) = Holds(entries, dirs \ partial, tomb, p)
    BY <1>3, <2>1, HoldsSame
  <2>. QED
    BY <1>2, <2>1, <2>2, <2>3, <2>4 DEF DiskInv
<1>5. ASSUME UNCHANGED <<pc, dirs, entries, tomb, partial, published, truth, suspect, inflight,
                         fresh, targets, failed>>
      PROVE  DiskInv'
  BY <1>2, <1>5 DEF DiskInv
<1>6. ASSUME NEW r \in Readers, TakeSnapshot(r) \/ ReaderStep(r) PROVE DiskInv'
  BY <1>5, <1>6 DEF ReaderStep, TakeSnapshot, SearchSegment, FinishSearch
<1>7. CASE Crash
  <2>1. /\ pc # "down" /\ pc' = "down" /\ partial \cap targets = {}
        /\ fresh' = {} /\ targets' = {} /\ failed' = FALSE
        /\ suspect' = suspect \cup inflight /\ inflight' = {}
        /\ \A id \in dirs : entries'[id] = entries[id]
        /\ UNCHANGED <<dirs, tomb, partial, truth>>
    BY <1>3, <1>7 DEF Crash, Clean
  <2>2. partial = {}
    BY <1>2, <2>1
  <2>3. ASSUME NEW p \in Path \ suspect'
        PROVE  Holds(entries', dirs, tomb, p) = truth[p]
    <3>1. Holds(entries', dirs, tomb, p) = Holds(entries, dirs, tomb, p)
      BY <2>1, HoldsSame
    <3>2. Holds(entries, dirs, tomb, p) \subseteq truth[p]
      <4>1. dirs \ partial = dirs
        BY <2>2
      <4>. QED
        BY <1>2, <2>1, <4>1
    <3>3. ~ Doomed(p)
      BY <2>1, DoomedInflight DEF CoreInv
    <3>4. Holds(entries, published, Tombstones, p) = truth[p]
      BY <1>3, <2>1, <3>3 DEF TruthInv, BaseTrue
    <3>5. \A id \in published : \A f \in DOMAIN entries[id] :
             entries[id][f].path = p /\ f \in tomb[id] => f \in Tombstones[id]
      <4>. SUFFICES ASSUME NEW id \in published, NEW f \in DOMAIN entries[id],
                           entries[id][f].path = p, f \in tomb[id]
                    PROVE  f \in LoadTombstones(id)
        BY <1>3 DEF Tombstones
      <4>1. f \notin doomed[id]
        BY <1>3, <3>3 DEF Doomed
      <4>. QED
        BY <4>1 DEF CoreInv, AgreeInv
    <3>6. Holds(entries, published, Tombstones, p) \subseteq Holds(entries, dirs, tomb, p)
      BY <3>5, HoldsMonotone DEF CoreInv, ListOnDisk
    <3>. QED
      BY <3>1, <3>2, <3>4, <3>6
  <2>4. dirs \ partial = dirs
    BY <2>2
  <2>. QED
    BY <2>1, <2>2, <2>3, <2>4 DEF DiskInv
<1>8. CASE Restart
  <2>1. /\ pc = "down" /\ pc' = "idle" /\ published' = dirs
        /\ UNCHANGED <<dirs, entries, tomb, partial, truth, suspect, inflight, fresh, targets, failed>>
    BY <1>8 DEF Restart
  <2>2. targets = {}
    BY <2>1 DEF CoreInv, PhaseInv
  <2>. QED
    BY <1>2, <2>1, <2>2 DEF DiskInv
<1>9. CASE UNCHANGED vars
  BY <1>5, <1>9 DEF vars
<1>. QED
  BY <1>4, <1>6, <1>7, <1>8, <1>9 DEF Next

\* The whole invariant.
TruthIndInv == CoreInv /\ FreshInv /\ TruthInv

\* It holds at first.
LEMMA TruthInit == Init => TruthIndInv
<1>. SUFFICES ASSUME Init PROVE TruthIndInv
  OBVIOUS
<1>1. CoreInv /\ FreshInv
  BY CoreInit DEF Init, FreshInv
<1>2. OptionInv
  BY DEF Init, OptionInv, Option
<1>3. published = {} /\ dirs = {} /\ pc = "idle" /\ partial = {} /\ targets = {} /\ failed = FALSE
      /\ fresh = {} /\ truth = [p \in Path |-> {}]
  BY DEF Init
<1>4. \A e, t, p : Holds(e, {}, t, p) = {}
  BY DEF Holds
<1>5. \A p \in Path : Holds(entries, published, Tombstones, p) = truth[p]
  BY <1>3, <1>4
<1>6. \A p \in Path : Holds(entries, dirs \ partial, tomb, p) \subseteq truth[p]
  <2>1. dirs \ partial = {}
    BY <1>3
  <2>. QED
    BY <1>4, <2>1
<1>7. BaseTrue /\ PlanTrue /\ DiskInv
  BY <1>3, <1>5, <1>6 DEF BaseTrue, PlanTrue, DiskInv, Applying
<1>. QED
  BY <1>1, <1>2, <1>7 DEF TruthIndInv, TruthInv

\* It is kept by every step.
LEMMA TruthStep == ASSUME TruthIndInv, [Next]_vars PROVE TruthIndInv'
<1>. USE DEF TruthIndInv
<1>1. CoreInv' /\ FreshInv'
  BY CoreStep, FreshStep
<1>2. OptionInv'
  BY OptionStep DEF TruthInv
<1>3. DiskInv'
  BY DiskWriter, DiskOther
<1>4. BaseTrue' /\ PlanTrue'
  <2>1. CASE Batch
    BY <2>1, BaseBegin, PlanBatch DEF TruthInv
  <2>2. CASE FirstIndex
    BY <2>2, BaseBegin, PlanIndex DEF TruthInv
  <2>3. CASE Compact
    <3>1. job' = "compact"
      BY <2>3 DEF Compact
    <3>. QED
      BY <2>3, <3>1, BaseBegin DEF TruthInv, PlanTrue, Applying
  <2>. QED
    BY <2>1, <2>2, <2>3, TruthWriter, TruthOther DEF Next
<1>. QED
  BY <1>1, <1>2, <1>3, <1>4 DEF TruthInv

\* A search that starts now finds, for every path held in one version and not in the batch
\* being written, what the last completed batch gave it.  The condition is what the code
\* needs: an I/O error, or a kill inside remove_dir_all, may leave a directory that the
\* next start opens as if it were part of the index.
THEOREM SearchesFindTruth == Spec => [](Undamaged => QueriesSeeTruth)
<1>1. TruthIndInv => (Undamaged => QueriesSeeTruth)
  <2>. SUFFICES ASSUME TruthIndInv, Undamaged, pc # "down", NEW p \in Path \ (suspect \cup inflight)
                PROVE  GetFile(published, Tombstones, p) = truth[p]
    BY DEF QueriesSeeTruth
  <2>1. ~ Doomed(p)
    BY DoomedInflight DEF TruthIndInv, CoreInv
  <2>2. Holds(entries, published, Tombstones, p) = truth[p] /\ truth[p] \in Option
    BY <2>1 DEF TruthIndInv, TruthInv, BaseTrue, OptionInv
  <2>. QED
    BY <2>2, GetFileHolds DEF TruthIndInv, CoreInv, TypeOK
<1>2. TruthIndInv /\ [Next]_vars => TruthIndInv'
  BY TruthStep
<1>. QED
  BY <1>1, <1>2, TruthInit, PTL DEF Spec

\* After a kill at any step of any operation, the next start finds for every path held in
\* one version what the last completed batch gave it.
THEOREM RestartFindsTruth == Spec => [](Clean => RestartSeesTruth)
<1>1. TruthIndInv => (Clean => RestartSeesTruth)
  <2>. SUFFICES ASSUME TruthIndInv, Clean, pc = "down", NEW p \in Path \ suspect
                PROVE  GetFile(dirs, tomb, p) = truth[p]
    BY DEF RestartSeesTruth
  <2>1. Holds(entries, dirs, tomb, p) = truth[p] /\ truth[p] \in Option
    BY DEF TruthIndInv, TruthInv, DiskInv, OptionInv
  <2>. QED
    BY <2>1, GetFileHolds DEF TruthIndInv, CoreInv, TypeOK
<1>2. TruthIndInv /\ [Next]_vars => TruthIndInv'
  BY TruthStep
<1>. QED
  BY <1>1, <1>2, TruthInit, PTL DEF Spec

(***************************************************************************)
(* No file is lost, whichever step fails                                   *)
(***************************************************************************)

\* A directory that has lost a needed file is one that the list no longer names.
BrokenInv ==
    /\ broken \subseteq dirs /\ targets \subseteq dirs
    /\ pc # "down" => (published \cup fresh) \cap broken = {}

\* What BaseTrue, PlanTrue and DiskInv say of the entries that must be there, without any
\* condition on errors and kills: those only add entries that should not be there.
KeepBase ==
    pc # "down" =>
        \A p \in Path \ suspect : pc = "build" \/ ~ Doomed(p) =>
            truth[p] \subseteq Holds(entries, published, Tombstones, p)

KeepPlan ==
    Applying /\ ~ failed =>
        \A p \in Path \ goal.suspect :
            goal.truth[p] \subseteq Holds(entries, published \cup fresh, AfterBatch, p)

KeepDisk ==
    pc = "down" =>
        \A p \in Path \ suspect : truth[p] \subseteq Holds(entries, dirs \ broken, tomb, p)

KeepInv == BrokenInv /\ KeepBase /\ KeepPlan /\ KeepDisk

\* Only what a compaction has merged gets broken.
LEMMA BrokenStep == ASSUME CoreInv, BrokenInv, [Next]_vars PROVE BrokenInv'
<1>. USE DEF diskVars, memVars, writerVars, readerVars, ghostVars, counters, CoreInv
<1>1. CASE Batch \/ FirstIndex \/ Compact
  <2>1. targets' \subseteq published
    BY <1>1 DEF Batch, ApplyChanges, FirstIndex, IndexFiles, Compact
  <2>. QED
    BY <1>1, <2>1, BeginFacts DEF BrokenInv, ListOnDisk
<1>2. CASE WriterStep \/ Fault
  <2>. USE DEF BrokenInv
  <2>1. ASSUME NEW i \in SegId, BuildSegment(i) \/ FailBuild(i) PROVE BrokenInv'
    BY <2>1 DEF BuildSegment, FailBuild
  <2>2. CASE BuildsFailed \/ FailTombstones \/ PublishChanges \/ CompactionDone
    BY <2>2 DEF BuildsFailed, FailTombstones, Abandon, PublishChanges, CompactionDone, Release
  <2>3. CASE BuildsDone
    BY <2>3 DEF BuildsDone
  <2>4. ASSUME NEW i \in SegId, WriteTombstones(i) PROVE BrokenInv'
    BY <2>4 DEF WriteTombstones, ReadyToTombstone
  <2>5. CASE SetCachedTombstones
    BY <2>5 DEF SetCachedTombstones
  <2>6. CASE PublishCompacted
    BY <2>6 DEF PublishCompacted
  <2>7. ASSUME NEW i \in SegId, UnlinkFile(i) \/ RemoveDir(i) \/ FailRemoveDir(i) PROVE BrokenInv'
    BY <2>7 DEF UnlinkFile, RemoveDir, FailRemoveDir, NextToRemove, ListInv
  <2>. QED
    BY <1>2, <2>1, <2>2, <2>3, <2>4, <2>5, <2>6, <2>7 DEF WriterStep, Fault
<1>3. ASSUME NEW r \in Readers, TakeSnapshot(r) \/ ReaderStep(r) PROVE BrokenInv'
  BY <1>3 DEF ReaderStep, TakeSnapshot, SearchSegment, FinishSearch, BrokenInv
<1>4. CASE Crash
  BY <1>4 DEF Crash, BrokenInv
<1>5. CASE Restart
  BY <1>5 DEF Restart, BrokenInv
<1>6. CASE UNCHANGED vars
  BY <1>6 DEF vars, BrokenInv
<1>. QED
  BY <1>1, <1>2, <1>3, <1>4, <1>5, <1>6 DEF Next

\* At the start of an operation the index has what the truth says, before and after the step.
LEMMA BeginKeeps ==
    ASSUME CoreInv, KeepBase, Batch \/ FirstIndex \/ Compact, NEW p \in Path \ suspect
    PROVE  /\ truth[p] \subseteq Holds(entries, published, Tombstones, p)
           /\ truth'[p] \subseteq Holds(entries', published', Tombstones', p)
<1>1. pc = "idle" /\ pc' = "build" /\ UNCHANGED <<published, truth>>
  BY BeginFacts DEF CoreInv
<1>2. doomed = NoSegments
  BY <1>1 DEF CoreInv, PhaseInv, Applying
<1>3. ~ Doomed(p)
  BY <1>2, NothingDoomed
<1>4. Holds(entries', published, Tombstones', p) = Holds(entries, published, Tombstones, p)
  BY <1>1, <1>3, HeldStays DEF Next
<1>. QED
  BY <1>1, <1>3, <1>4 DEF KeepBase

\* What apply_changes announces will be there.
LEMMA BatchKeeps == ASSUME CoreInv, KeepBase, Batch PROVE KeepPlan'
<1>1. PICK batch \in Changes : \E read \in [DOMAIN batch -> Option] : ApplyChanges(batch, read)
  BY DEF Batch
<1>2. PICK read \in [DOMAIN batch -> Option] : ApplyChanges(batch, read)
  BY <1>1
<1>. DEFINE gone == Gone(batch)
            new == Anew(batch, read)
            want == [p \in DOMAIN batch |-> IF batch[p] = "Deleted" THEN {} ELSE read[p]]
            blind == {p \in DOMAIN batch : batch[p] = "Created"}
<1>3. /\ goal'.suspect = (suspect \ (DOMAIN batch \ blind)) \cup
                    {p \in blind : GetFile(published, Tombstones, p) \notin {{}, want[p]}}
      /\ goal'.truth = [p \in Path |-> IF p \in DOMAIN batch THEN want[p] ELSE truth[p]]
  BY <1>2 DEF ApplyChanges, Announce
<1>4. \A p \in DOMAIN batch : batch[p] \in ChangeKind
  BY DEF Changes
<1>5. ASSUME ~ failed', NEW p \in Path \ goal'.suspect
      PROVE  goal'.truth[p] \subseteq Holds(entries', published' \cup fresh', AfterBatch', p)
  <2>. DEFINE held == Holds(entries, published, Tombstones, p)
  <2>1. Holds(entries', published' \cup fresh', AfterBatch', p) =
          (IF p \in gone THEN {} ELSE held) \cup (IF p \in new THEN read[p] ELSE {})
    BY <1>2, <1>5, BatchHolds
  <2>2. p \notin suspect => truth[p] \subseteq held
    BY BeginKeeps
  <2>3. ExistingHash(p) \subseteq held
    BY ExistingHashHeld DEF CoreInv
  <2>. HIDE DEF held
  <2>4. CASE p \notin DOMAIN batch
    BY <1>3, <2>1, <2>2, <2>4 DEF Gone
  <2>5. ASSUME p \in DOMAIN batch, batch[p] # "Deleted", read[p] # {}, p \notin new
        PROVE  p \notin gone /\ ExistingHash(p) = read[p]
    BY <1>4, <2>5 DEF NeedsNewEntry, ChangeKind, SkipUnchanged, Anew
  <2>6. CASE p \in DOMAIN batch
    <3>1. goal'.truth[p] = IF batch[p] = "Deleted" THEN {} ELSE read[p]
      BY <1>3, <2>6
    <3>. HIDE DEF new, gone
    <3>. QED
      BY <2>1, <2>3, <2>5, <2>6, <3>1
  <2>. QED
    BY <2>4, <2>6
<1>. QED
  BY <1>5 DEF KeepPlan

\* So will what index_files announces.
LEMMA IndexKeeps == ASSUME CoreInv, KeepBase, FirstIndex PROVE KeepPlan'
<1>1. PICK P \in (SUBSET Path) \ {{}} : \E contents \in [P -> Content] : IndexFiles(contents)
  BY DEF FirstIndex
<1>2. PICK contents \in [P -> Content] : IndexFiles(contents)
  BY <1>1
<1>3. /\ goal'.suspect = suspect \cup
              {p \in P : GetFile(published, Tombstones, p) \notin {{}, {contents[p]}}}
      /\ goal'.truth = [p \in Path |-> IF p \in P THEN {contents[p]} ELSE truth[p]]
  BY <1>2 DEF IndexFiles, Announce
<1>4. ASSUME ~ failed', NEW p \in Path \ goal'.suspect
      PROVE  goal'.truth[p] \subseteq Holds(entries', published' \cup fresh', AfterBatch', p)
  <2>1. Holds(entries', published' \cup fresh', AfterBatch', p) =
          Holds(entries, published, Tombstones, p) \cup (IF p \in P THEN {contents[p]} ELSE {})
    BY <1>1, <1>2, <1>4, IndexHolds
  <2>2. truth[p] \subseteq Holds(entries, published, Tombstones, p)
    BY <1>3, BeginKeeps
  <2>. QED
    BY <1>3, <2>1, <2>2
<1>. QED
  BY <1>4 DEF KeepPlan

\* The start of an operation loses nothing.
LEMMA KeepBegin == ASSUME CoreInv, KeepInv, Batch \/ FirstIndex \/ Compact PROVE KeepInv'
<1>. USE DEF KeepInv
<1>1. BrokenInv'
  BY BrokenStep DEF Next
<1>2. suspect' = suspect /\ pc' = "build"
  BY BeginFacts DEF CoreInv
<1>3. KeepBase'
  BY <1>2, BeginKeeps DEF KeepBase
<1>4. KeepDisk'
  BY <1>2 DEF KeepDisk
<1>5. Compact => job' = "compact"
  BY DEF Compact
<1>6. KeepPlan'
  BY <1>5, BatchKeeps, IndexKeeps DEF KeepPlan, Applying
<1>. QED
  BY <1>1, <1>3, <1>4, <1>6

\* Nor do the steps of an operation, failing ones included.
LEMMA KeepWriter == ASSUME CoreInv, FreshInv, KeepInv, WriterStep \/ Fault PROVE KeepInv'
<1>. USE DEF diskVars, memVars, writerVars, readerVars, ghostVars, counters, KeepInv
<1>1. [Next]_vars
  BY DEF Next
<1>2. BrokenInv'
  BY <1>1, BrokenStep
<1>3. pc # "down" /\ pc' # "down"
  BY DEF WriterStep, Fault, BuildSegment, BuildsFailed, Abandon, BuildsDone, Release,
         WriteTombstones, SetCachedTombstones, PublishChanges, PublishCompacted, UnlinkFile,
         RemoveDir, CompactionDone, FailBuild, FailTombstones, FailRemoveDir, ReadyToTombstone
<1>4. KeepDisk'
  BY <1>3 DEF KeepDisk
<1>. SUFFICES KeepBase' /\ KeepPlan'
  BY <1>2, <1>4
<1>5. /\ \A id \in SegId : LoadTombstones(id) \subseteq LoadTombstones(id)'
      /\ \A id \in SegId : LoadTombstones(id)' \subseteq LoadTombstones(id) \cup doomed[id]
  BY <1>1, <1>3, StepGrows, StepAddsDoomed DEF CoreInv
<1>6. /\ published \subseteq SegId /\ fresh \subseteq SegId /\ TypeOK
      /\ \A id \in published : Tombstones[id] = LoadTombstones(id)
      /\ \A id \in published : Tombstones'[id] = LoadTombstones(id)'
  BY DEF CoreInv, TypeOK, Tombstones
<1>7. ASSUME UNCHANGED <<entries, published, truth, suspect, doomed>>, pc' = "build" => pc = "build"
      PROVE  KeepBase'
  <2>. SUFFICES ASSUME NEW p \in Path \ suspect, pc' = "build" \/ ~ Doomed(p)'
                PROVE  truth'[p] \subseteq Holds(entries', published', Tombstones', p)
    BY <1>7 DEF KeepBase
  <2>1. Doomed(p)' <=> Doomed(p)
    BY <1>7 DEF Doomed
  <2>2. CASE ~ Doomed(p)
    BY <1>1, <1>3, <1>7, <2>2, HeldStays DEF KeepBase
  <2>3. CASE pc' = "build" /\ pc = "build"
    <3>1. Tombstones' = Tombstones
      <4>1. UNCHANGED <<tomb, cached, cache>>
        BY <2>3 DEF WriterStep, Fault, BuildSegment, BuildsFailed, Abandon, BuildsDone, Release,
         WriteTombstones, SetCachedTombstones, PublishChanges, PublishCompacted, UnlinkFile,
         RemoveDir, CompactionDone, FailBuild, FailTombstones, FailRemoveDir, ReadyToTombstone
      <4>. QED
        BY <4>1, SameTombstones DEF Tombstones
    <3>. QED
      BY <1>3, <1>7, <2>3, <3>1 DEF KeepBase
  <2>. QED
    BY <1>7, <2>1, <2>2, <2>3
<1>8. ASSUME UNCHANGED <<entries, published, fresh, goal, doomed, job>>, Applying' => Applying,
             failed => failed', AfterBatch' = AfterBatch
      PROVE  KeepPlan'
  BY <1>8 DEF KeepPlan
<1>9. AfterBatch' = AfterBatch \/ doomed' # doomed
  <2>1. ASSUME doomed' = doomed, NEW id \in SegId
        PROVE  LoadTombstones(id)' \cup doomed'[id] = LoadTombstones(id) \cup doomed[id]
    BY <1>5, <2>1
  <2>. QED
    BY <2>1 DEF AfterBatch
<1>10. ASSUME NEW i \in SegId, BuildSegment(i) \/ FailBuild(i) PROVE KeepBase' /\ KeepPlan'
  <2>1. UNCHANGED <<entries, published, truth, suspect, doomed, pc, fresh, goal, job>>
        /\ (failed => failed')
    BY <1>10 DEF BuildSegment, FailBuild
  <2>. QED
    BY <1>7, <1>8, <1>9, <2>1 DEF Applying
<1>11. CASE BuildsDone
  <2>1. UNCHANGED <<entries, published, truth, suspect, doomed, fresh, goal, job, failed, tomb,
                    cached, cache>>
        /\ pc = "build" /\ pc' # "build"
    BY <1>11 DEF BuildsDone
  <2>. QED
    BY <1>7, <1>8, <1>9, <2>1 DEF Applying
<1>12. ASSUME NEW i \in SegId, WriteTombstones(i) PROVE KeepBase' /\ KeepPlan'
  <2>1. UNCHANGED <<entries, published, truth, suspect, doomed, fresh, goal, job, failed>>
        /\ pc = "tombstone" /\ pc' = "setcache"
    BY <1>12 DEF WriteTombstones, ReadyToTombstone
  <2>. QED
    BY <1>7, <1>8, <1>9, <2>1 DEF Applying
<1>13. CASE SetCachedTombstones
  <2>1. UNCHANGED <<entries, published, truth, suspect, doomed, fresh, goal, job, failed>>
        /\ pc = "setcache" /\ pc' = "tombstone"
    BY <1>13 DEF SetCachedTombstones
  <2>. QED
    BY <1>7, <1>8, <1>9, <2>1 DEF Applying
<1>14. CASE BuildsFailed \/ FailTombstones
  <2>1. /\ suspect' = suspect \cup inflight /\ pc' = "idle"
        /\ UNCHANGED <<truth, entries, published>>
    BY <1>14 DEF BuildsFailed, FailTombstones, Abandon, Release
  <2>2. ASSUME NEW p \in Path \ suspect'
        PROVE  truth'[p] \subseteq Holds(entries', published', Tombstones', p)
    <3>1. ~ Doomed(p)
      BY <2>1, <2>2, DoomedInflight DEF CoreInv
    <3>. QED
      BY <1>1, <1>3, <2>1, <2>2, <3>1, HeldStays DEF KeepBase
  <2>. QED
    BY <2>1, <2>2 DEF KeepBase, KeepPlan, Applying
<1>15. CASE PublishChanges
  <2>1. /\ pc = "tombstone" /\ targets = {} /\ published' = published \cup fresh
        /\ truth' = goal.truth /\ suspect' = goal.suspect /\ pc' = "idle"
        /\ UNCHANGED <<entries, tomb, cached, cache>>
    BY <1>15 DEF PublishChanges, Release
  <2>2. job = "apply" /\ ~ failed
    BY <2>1 DEF CoreInv, ListInv
  <2>3. \A id \in SegId : Tombstones'[id] = AfterBatch[id]
    BY <2>1, SameTombstones DEF Tombstones, AfterBatch, CoreInv, DoomedInv
  <2>4. ASSUME NEW p \in Path \ suspect'
        PROVE  truth'[p] \subseteq Holds(entries', published', Tombstones', p)
    <3>1. Holds(entries', published', Tombstones', p) = Holds(entries, published \cup fresh, AfterBatch, p)
      BY <1>6, <2>1, <2>3, HoldsSame
    <3>. QED
      BY <2>1, <2>2, <2>4, <3>1 DEF KeepPlan, Applying
  <2>. QED
    BY <2>1, <2>4 DEF KeepBase, KeepPlan, Applying
<1>16. CASE PublishCompacted
  <2>1. /\ pc = "publish" /\ published' = fresh /\ pc' = "remove"
        /\ UNCHANGED <<truth, suspect, entries, tomb, cached, cache>>
    BY <1>16 DEF PublishCompacted
  <2>2. job = "compact" /\ ~ failed /\ doomed = NoSegments
    BY <2>1 DEF CoreInv, ListInv, TombstoneInv, PhaseInv, Applying
  <2>3. Tombstones' = Tombstones
    BY <2>1, SameTombstones DEF Tombstones
  <2>4. ASSUME NEW p \in Path \ suspect'
        PROVE  truth'[p] \subseteq Holds(entries', published', Tombstones', p)
    <3>1. Holds(entries', published', Tombstones', p) = Holds(entries, published, Tombstones, p)
      BY <2>1, <2>2, <2>3 DEF FreshInv
    <3>2. ~ Doomed(p)
      BY <2>2, NothingDoomed
    <3>. QED
      BY <1>3, <2>1, <2>4, <3>1, <3>2 DEF KeepBase
  <2>. QED
    BY <2>1, <2>4 DEF KeepBase, KeepPlan, Applying
<1>17. ASSUME NEW i \in SegId, UnlinkFile(i) \/ RemoveDir(i) \/ FailRemoveDir(i)
       PROVE  KeepBase' /\ KeepPlan'
  <2>1. /\ pc = "remove" /\ pc' = "remove"
        /\ UNCHANGED <<entries, published, truth, suspect, doomed>>
    BY <1>17 DEF UnlinkFile, RemoveDir, FailRemoveDir
  <2>. QED
    BY <1>7, <2>1 DEF KeepPlan, Applying
<1>18. CASE CompactionDone
  <2>1. /\ pc = "remove" /\ pc' = "idle" /\ doomed' = NoSegments
        /\ UNCHANGED <<entries, published, truth, suspect>>
    BY <1>18 DEF CompactionDone, Release
  <2>2. doomed = NoSegments
    BY <2>1 DEF CoreInv, PhaseInv, Applying
  <2>. QED
    BY <1>7, <2>1, <2>2 DEF KeepPlan, Applying
<1>. QED
  BY <1>10, <1>11, <1>12, <1>13, <1>14, <1>15, <1>16, <1>17, <1>18 DEF WriterStep, Fault

\* What the published segments hold is on disk, in directories that open.
LEMMA ListedIsStored ==
    ASSUME CoreInv, BrokenInv, pc # "down", NEW p, pc = "build" \/ ~ Doomed(p)
    PROVE  Holds(entries, published, Tombstones, p) \subseteq Holds(entries, dirs \ broken, tomb, p)
<1>1. published \subseteq SegId /\ published \subseteq dirs \ broken
  BY DEF CoreInv, TypeOK, ListOnDisk, BrokenInv
<1>2. \A id \in published : \A f \in DOMAIN entries[id] :
         entries[id][f].path = p /\ f \in tomb[id] => f \in Tombstones[id]
  <2>. SUFFICES ASSUME NEW id \in published, NEW f \in DOMAIN entries[id],
                       entries[id][f].path = p, f \in tomb[id]
                PROVE  f \in LoadTombstones(id)
    BY <1>1 DEF Tombstones
  <2>1. pc = "setcache" => f \notin doomed[id]
    BY <1>1 DEF Doomed
  <2>. QED
    BY <2>1 DEF CoreInv, AgreeInv
<1>. QED
  BY <1>1, <1>2, HoldsMonotone

\* Searches, kills, restarts and idling lose nothing either.
LEMMA KeepOther ==
    ASSUME CoreInv, KeepInv,
           (\E r \in Readers : TakeSnapshot(r) \/ ReaderStep(r)) \/ Crash \/ Restart \/ UNCHANGED vars
    PROVE  KeepInv'
<1>. USE DEF diskVars, memVars, writerVars, readerVars, ghostVars, counters, KeepInv
<1>1. BrokenInv'
  BY BrokenStep DEF Next
<1>. SUFFICES KeepBase' /\ KeepPlan' /\ KeepDisk'
  BY <1>1
<1>2. ASSUME Tombstones' = Tombstones,
             UNCHANGED <<entries, published, truth, suspect, doomed, pc, fresh, goal, job, failed,
                         dirs, broken, tomb>>
      PROVE  KeepBase' /\ KeepPlan' /\ KeepDisk'
  <2>1. AfterBatch' = AfterBatch
    BY <1>2 DEF AfterBatch, Tombstones
  <2>2. \A p : Doomed(p)' <=> Doomed(p)
    BY <1>2 DEF Doomed
  <2>. QED
    BY <1>2, <2>1, <2>2 DEF KeepBase, KeepPlan, KeepDisk, Applying
<1>3. ASSUME NEW r \in Readers, TakeSnapshot(r) \/ ReaderStep(r) PROVE KeepBase' /\ KeepPlan' /\ KeepDisk'
  <2>1. UNCHANGED <<entries, published, truth, suspect, doomed, pc, fresh, goal, job, failed,
                    dirs, broken, tomb>>
    BY <1>3 DEF ReaderStep, TakeSnapshot, SearchSegment, FinishSearch
  <2>2. Tombstones' = Tombstones
    BY <1>3, FillCacheKeeps, SameTombstones
       DEF ReaderStep, TakeSnapshot, SearchSegment, FinishSearch, Tombstones, CoreInv
  <2>. QED
    BY <1>2, <2>1, <2>2
<1>4. CASE Crash
  <2>1. /\ pc # "down" /\ pc' = "down"
        /\ suspect' = suspect \cup inflight
        /\ entries' = [id \in SegId |-> IF id \in dirs THEN entries[id] ELSE <<>>]
        /\ UNCHANGED <<dirs, tomb, broken, truth>>
    BY <1>4 DEF Crash
  <2>2. ASSUME NEW p \in Path \ suspect'
        PROVE  truth'[p] \subseteq Holds(entries', dirs' \ broken', tomb', p)
    <3>1. dirs \subseteq SegId
      BY DEF CoreInv, TypeOK
    <3>2. Holds(entries', dirs \ broken, tomb, p) = Holds(entries, dirs \ broken, tomb, p)
      BY <2>1, <3>1, HoldsSame
    <3>3. p \in Path \ suspect /\ ~ Doomed(p)
      BY <2>1, DoomedInflight DEF CoreInv
    <3>4. truth[p] \subseteq Holds(entries, published, Tombstones, p)
      BY <2>1, <3>3 DEF KeepBase
    <3>. QED
      BY <2>1, <3>2, <3>3, <3>4, ListedIsStored
  <2>. QED
    BY <2>1, <2>2 DEF KeepBase, KeepPlan, KeepDisk, Applying
<1>5. CASE Restart
  <2>1. /\ pc = "down" /\ pc' = "idle" /\ published' = dirs /\ broken = {}
        /\ UNCHANGED <<entries, tomb, cached, cache, truth, suspect>>
    BY <1>5 DEF Restart
  <2>2. \A id \in SegId : Tombstones'[id] = tomb[id]
    BY <2>1 DEF CoreInv, ListInv, LoadTombstones, Tombstones
  <2>3. dirs \subseteq SegId /\ dirs \ broken = dirs
    BY <2>1 DEF CoreInv, TypeOK
  <2>4. ASSUME NEW p \in Path \ suspect
        PROVE  truth'[p] \subseteq Holds(entries', published', Tombstones', p)
    <3>1. Holds(entries', published', Tombstones', p) = Holds(entries, dirs, tomb, p)
      BY <2>1, <2>2, <2>3, HoldsSame
    <3>. QED
      BY <2>1, <2>3, <3>1 DEF KeepDisk
  <2>. QED
    BY <2>1, <2>4 DEF KeepBase, KeepPlan, KeepDisk, Applying
<1>6. CASE UNCHANGED vars
  BY <1>2, <1>6, SameTombstones DEF vars, Tombstones
<1>. QED
  BY <1>3, <1>4, <1>5, <1>6

\* A content that a path holds is the content of a live entry.
LEMMA HeldHasCopy ==
    ASSUME NEW S, NEW t, NEW p, NEW X, X # {}, X \subseteq Holds(entries, S, t, p)
    PROVE  \E c \in Copies(S, t, p) : entries[c[1]][c[2]].content \in X
<1>1. PICK x \in X : x \in Holds(entries, S, t, p)
  OBVIOUS
<1>2. PICK id \in S : \E f \in DOMAIN entries[id] \ t[id] :
        entries[id][f].path = p /\ entries[id][f].content = x
  BY <1>1 DEF Holds
<1>3. PICK f \in DOMAIN entries[id] \ t[id] :
        entries[id][f].path = p /\ entries[id][f].content = x
  BY <1>2
<1>4. <<id, f>> \in Copies(S, t, p)
  BY <1>3 DEF Copies
<1>. QED
  BY <1>3, <1>4

\* A file whose content only changes has a live entry in a directory that opens, in its old
\* version or in its new one, at every moment: through all builds, tombstones, publications,
\* removals and searches, whatever fails and is killed.
THEOREM FilesStayOnDisk == Spec => []FilesSurvive
<1>. DEFINE Inv == CoreInv /\ FreshInv /\ KeepInv
<1>1. Init => Inv
  <2>. SUFFICES ASSUME Init PROVE KeepInv
    BY CoreInit DEF Init, FreshInv
  <2>1. /\ truth = [p \in Path |-> {}] /\ goal.truth = truth /\ published = {} /\ fresh = {}
        /\ broken = {} /\ targets = {} /\ pc = "idle"
    BY DEF Init
  <2>. QED
    BY <2>1 DEF KeepInv, BrokenInv, KeepBase, KeepPlan, KeepDisk, Applying
<1>2. Inv /\ [Next]_vars => Inv'
  <2>. SUFFICES ASSUME Inv, [Next]_vars PROVE Inv'
    OBVIOUS
  <2>1. CoreInv' /\ FreshInv'
    BY CoreStep, FreshStep
  <2>2. KeepInv'
    BY KeepBegin, KeepWriter, KeepOther DEF Next
  <2>. QED
    BY <2>1, <2>2
<1>3. Inv => FilesSurvive
  <2>. SUFFICES ASSUME Inv, NEW p \in Path \ suspect, truth[p] # {}, goal.truth[p] # {}
                PROVE  \E c \in Copies(dirs \ broken, tomb, p) :
                         entries[c[1]][c[2]].content \in truth[p] \cup goal.truth[p]
    BY DEF FilesSurvive
  <2>. USE DEF CoreInv, KeepInv
  <2>1. CASE pc = "down"
    BY <2>1, HeldHasCopy DEF KeepDisk
  <2>2. CASE pc # "down" /\ (pc = "build" \/ ~ Doomed(p))
    <3>1. truth[p] \subseteq Holds(entries, dirs \ broken, tomb, p)
      BY <2>2, ListedIsStored DEF KeepBase
    <3>. QED
      BY <3>1, HeldHasCopy
  <2>3. CASE pc # "down" /\ pc # "build" /\ Doomed(p)
    <3>1. Applying /\ p \notin goal.suspect
      BY <2>3, DoomedInflight, NothingDoomed DEF PhaseInv
    <3>2. /\ pc \in {"tombstone", "setcache"} /\ ~ failed
          /\ published \cup fresh \subseteq dirs \ broken
          /\ published \subseteq SegId /\ fresh \subseteq SegId
      BY <2>3, <3>1 DEF Applying, ListInv, ListOnDisk, BrokenInv, TypeOK
    <3>3. goal.truth[p] \subseteq Holds(entries, published \cup fresh, AfterBatch, p)
      BY <3>1, <3>2 DEF KeepPlan
    <3>4. \A id \in published \cup fresh : tomb[id] \subseteq AfterBatch[id]
      <4>1. \A id \in published \cup fresh : tomb[id] \subseteq LoadTombstones(id) \cup doomed[id]
        BY DEF AgreeInv
      <4>. QED
        BY <3>2, <4>1 DEF AfterBatch
    <3>5. Holds(entries, published \cup fresh, AfterBatch, p) \subseteq Holds(entries, dirs \ broken, tomb, p)
      BY <3>2, <3>4, HoldsMonotone
    <3>. QED
      BY <3>3, <3>5, HeldHasCopy
  <2>. QED
    BY <2>1, <2>2, <2>3
<1>. QED
  BY <1>1, <1>2, <1>3, PTL DEF Spec

=============================================================================
