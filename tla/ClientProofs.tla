---------------------------- MODULE ClientProofs ----------------------------
(***************************************************************************)
(* What the clients of an index show: the MCP server's view of an index    *)
(* that changes under it, for every set of paths and any number of changes *)
(* and calls; the display of `ferret reindex`, for every number of files;  *)
(* and the search page, for every server, every set of repositories and    *)
(* every number of things its user does.                                   *)
(***************************************************************************)
EXTENDS McpServer, ReindexDisplay, WebPage, FiniteSetTheorems, SequenceTheorems, WellFoundedInduction,
        TLAPS

-----------------------------------------------------------------------------
(* The index on disk, and a server's list of its segments.                 *)

Entries   == UNION {[S -> Nat] : S \in SUBSET Paths}
Directories == [entries : Entries, dead : SUBSET Paths, gone : SUBSET Part]

TypeInv ==
  /\ changes \in Nat /\ DOMAIN disk \subseteq 1 .. changes
  /\ \A i \in DOMAIN disk : disk[i] \in Directories
  /\ daemon \in [is : {"idle", "tombstone", "remove"}, ids : SUBSET Nat, paths : SUBSET Paths]
  /\ daemon.ids \subseteq DOMAIN disk
  /\ truth \in [Paths -> 0 .. changes] /\ atStart.truth \in [Paths -> 0 .. changes]
  /\ pending \subseteq 1 .. changes /\ DOMAIN list \subseteq 1 .. changes
  /\ \A i \in DOMAIN list : list[i] \in Entries
  /\ DOMAIN cache = DOMAIN list

Has(i, p) == p \in DOMAIN disk[i].entries

\* The batch at work is going to bury p in segment i; the compaction at work, to remove it.
Due(i, p) ==
  \/ daemon.is = "tombstone" /\ i \in daemon.ids /\ p \in daemon.paths
  \/ daemon.is = "remove" /\ i \in daemon.ids

\* Segment i is the newest with a copy of p, live and current, and stays so.
Home(i, p) ==
  /\ i \in DOMAIN disk /\ p \in Live(disk[i]) /\ disk[i].entries[p] = truth[p] /\ ~ Due(i, p)
  /\ \A j \in DOMAIN disk : Has(j, p) => j <= i

\* Every file of the index has a home, and every other live copy is one the daemon is about to
\* bury, or to remove when it says the same; only directories about to be removed lose files.
DiskInv ==
  /\ \A p \in Paths : truth[p] # 0 => \E h \in DOMAIN disk : Home(h, p)
  /\ \A i \in DOMAIN disk : \A p \in Live(disk[i]) :
       \/ truth[p] # 0 /\ disk[i].entries[p] = truth[p]
       \/ daemon.is = "tombstone" /\ i \in daemon.ids /\ p \in daemon.paths
  /\ \A i \in DOMAIN disk : disk[i].gone # {} => daemon.is = "remove" /\ i \in daemon.ids

\* What is known of the files no batch has touched since the server started, and of the others.
StartInv ==
  up =>
    /\ \A p \in Paths \ touched : truth[p] = atStart.truth[p]
    /\ \A p \in Paths : truth[p] = 0 \/ truth[p] >= atStart.truth[p]
    /\ daemon.is = "tombstone" => daemon.paths \subseteq touched \cup atStart.changing

\* A segment on disk or in the list from which the server shows p as it was when it started:
\* it opened it, or will, no tombstone of p is in it, and no newer segment says otherwise.
ShowsStart(i, p) ==
  LET v == atStart.truth[p]
  IN  /\ i \in (pending \cup DOMAIN list) \ atStart.removing
      /\ i \in DOMAIN disk => p \in Live(disk[i]) /\ disk[i].entries[p] = v
      /\ i \in DOMAIN list => p \in DOMAIN list[i] /\ list[i][p] = v /\ p \notin cache[i]
      /\ \A j \in DOMAIN disk : i < j /\ Has(j, p) => disk[j].entries[p] = v
      /\ \A j \in DOMAIN list : i < j /\ p \in DOMAIN list[j] => list[j][p] = v

\* A version of p the server may show, with the paths T touched since the truth was t.
Right(p, v, T, t) == v >= t[p] /\ (p \notin T => v = t[p])

ViewInv ==
  up =>
    /\ missed \subseteq atStart.removing =>
         \A p \in Paths \ (touched \cup atStart.changing) :
           atStart.truth[p] # 0 => \E i \in pending \cup DOMAIN list : ShowsStart(i, p)
    /\ \A i \in DOMAIN list : i \in DOMAIN disk => list[i] = disk[i].entries
    /\ \A i \in DOMAIN disk : \A p \in Live(disk[i]) \ atStart.changing :
         Right(p, disk[i].entries[p], touched, atStart.truth)
    /\ \A i \in DOMAIN list \ lost : cache[i] # NotLoaded =>
         \A p \in (DOMAIN list[i] \ cache[i]) \ atStart.changing : Right(p, list[i][p], touched, atStart.truth)

ServerInv == TypeInv /\ DiskInv /\ StartInv /\ ViewInv

-----------------------------------------------------------------------------
(* Newest segments. *)

\* A non-empty set of numbers has a least element.
LEMMA LeastOf ==
  ASSUME NEW S \in SUBSET Nat, S # {} PROVE \E x \in S : \A y \in S : x <= y
<1>. DEFINE R == {ss \in Nat \X Nat : ss[1] < ss[2]}
<1>1. IsWellFoundedOn(R, Nat)
  BY NatLessThanWellFounded DEF OpToRel
<1>. HIDE DEF R
<1>2. PICK x \in S : \A y \in S : ~ (<<y, x>> \in R)
  BY <1>1, WFMin
<1>3. ASSUME NEW y \in S PROVE x <= y
  <2>1. <<y, x>> \in Nat \X Nat /\ ~ (<<y, x>> \in R)
    BY <1>2
  <2>2. ~ (y < x)
    BY <2>1 DEF R
  <2>. QED BY <2>2
<1>. QED BY <1>3

\* A set of numbers that has a bound and is not empty has a greatest.
LEMMA MaxFacts ==
  ASSUME NEW b \in Nat, NEW S, S \subseteq 1 .. b, S # {}
  PROVE  Max(S) \in S /\ \A y \in S : y <= Max(S)
<1>. DEFINE T == {n \in 0 .. b : b - n \in S}
<1>2. ASSUME NEW y \in S PROVE b - y \in T
  <2>1. y \in Nat /\ y <= b /\ b - (b - y) = y
    OBVIOUS
  <2>. QED BY <2>1
<1>3. T \in SUBSET Nat /\ T # {}
  <2>1. PICK y \in S : TRUE
    OBVIOUS
  <2>2. b - y \in T
    BY <1>2, <2>1
  <2>3. T \in SUBSET Nat
    OBVIOUS
  <2>. QED BY <2>2, <2>3
<1>. HIDE DEF T
<1>4. PICK m \in T : \A y \in T : m <= y
  BY <1>3, LeastOf
<1>5. b - m \in S /\ m \in 0 .. b
  BY <1>4 DEF T
<1>6. \A y \in S : b - m >= y
  BY <1>2, <1>4, <1>5
<1>7. Max(S) \in S /\ \A y \in S : Max(S) >= y
  BY <1>5, <1>6 DEF Max
<1>. QED BY <1>7

\* What a listing shows: the newest live copy of each path that has one.
LEMMA NewestFacts ==
  ASSUME NEW b \in Nat, NEW segments, DOMAIN segments \subseteq 1 .. b
  PROVE  /\ \A p : p \in DOMAIN NewestLive(segments) <=> \E i \in DOMAIN segments : p \in Live(segments[i])
         /\ \A p \in DOMAIN NewestLive(segments) : \E m \in DOMAIN segments :
              /\ p \in Live(segments[m]) /\ NewestLive(segments)[p] = segments[m].entries[p]
              /\ \A j \in DOMAIN segments : p \in Live(segments[j]) => j <= m
<1>0. DOMAIN NewestLive(segments) = LivePaths(segments)
  BY DEF NewestLive
<1>1. \A p : p \in LivePaths(segments) <=> \E i \in DOMAIN segments : p \in Live(segments[i])
  <2>. HIDE DEF Live
  <2>. QED BY Zenon DEF LivePaths
<1>2. ASSUME NEW p \in LivePaths(segments)
      PROVE \E m \in DOMAIN segments :
              /\ p \in Live(segments[m]) /\ NewestLive(segments)[p] = segments[m].entries[p]
              /\ \A j \in DOMAIN segments : p \in Live(segments[j]) => j <= m
  <2>. DEFINE S == LiveIn(segments, p)
  <2>1. S # {} /\ S \subseteq 1 .. b
    BY <1>1 DEF LiveIn
  <2>3. Max(S) \in S /\ \A y \in S : y <= Max(S)
    BY <2>1, MaxFacts
  <2>4. NewestLive(segments)[p] = segments[Max(S)].entries[p]
    BY DEF NewestLive
  <2>. QED BY <2>3, <2>4 DEF LiveIn
<1>. QED BY <1>0, <1>1, <1>2

\* Entries are functions on paths.
LEMMA EntriesFacts ==
  ASSUME NEW e \in Entries PROVE DOMAIN e \subseteq Paths /\ \A p \in DOMAIN e : e[p] \in Nat
<1>1. PICK S \in SUBSET Paths : e \in [S -> Nat]
  BY DEF Entries
<1>. QED BY <1>1

\* The fields of a directory on disk.
LEMMA DirectoryFacts ==
  ASSUME TypeInv, NEW i \in DOMAIN disk
  PROVE  /\ disk[i].entries \in Entries /\ DOMAIN disk[i].entries \subseteq Paths
         /\ \A p \in DOMAIN disk[i].entries : disk[i].entries[p] \in Nat
         /\ disk[i].dead \subseteq Paths /\ disk[i].gone \subseteq Part
         /\ disk[i] = [entries |-> disk[i].entries, dead |-> disk[i].dead, gone |-> disk[i].gone]
         /\ i \in Nat /\ i <= changes
<1>1. disk[i] \in Directories
  BY DEF TypeInv
<1>2. disk[i].entries \in Entries
  BY <1>1 DEF Directories
<1>3. i \in 1 .. changes
  BY DEF TypeInv
<1>. QED BY <1>1, <1>2, <1>3, EntriesFacts DEF Directories, TypeInv

\* Only directories about to be removed can fail to open.
LEMMA OpensUnlessDue ==
  ASSUME DiskInv, NEW i \in DOMAIN disk, ~ (daemon.is = "remove" /\ i \in daemon.ids)
  PROVE  i \in DOMAIN OnDisk /\ OnDisk[i].entries = disk[i].entries /\ OnDisk[i].dead = disk[i].dead
<1>1. disk[i].gone = {}
  BY DEF DiskInv
<1>. QED BY <1>1 DEF OnDisk, TombstonesOf

\* The segments that can be opened have their entries, and their tombstones or none.
LEMMA OnDiskFacts ==
  ASSUME TypeInv, NEW i \in DOMAIN OnDisk
  PROVE  /\ i \in DOMAIN disk /\ OnDisk[i].entries = disk[i].entries
         /\ "tombstones" \notin disk[i].gone => OnDisk[i].dead = disk[i].dead
BY DEF OnDisk, TombstonesOf

\* The listing of the disk is the truth.
LEMMA ListingTrue == ASSUME TypeInv, DiskInv PROVE ListingIsTrue
<1>. DEFINE tree == NewestLive(OnDisk)
<1>1. DOMAIN OnDisk \subseteq 1 .. changes
  BY OnDiskFacts DEF TypeInv
<1>2. /\ \A p : p \in DOMAIN tree <=> \E i \in DOMAIN OnDisk : p \in Live(OnDisk[i])
      /\ \A p \in DOMAIN tree : \E m \in DOMAIN OnDisk :
           /\ p \in Live(OnDisk[m]) /\ tree[p] = OnDisk[m].entries[p]
           /\ \A j \in DOMAIN OnDisk : p \in Live(OnDisk[j]) => j <= m
  BY <1>1, NewestFacts DEF TypeInv
<1>. HIDE DEF tree
<1>3. ASSUME NEW p \in Paths, truth[p] # 0 PROVE p \in DOMAIN tree /\ tree[p] = truth[p]
  <2>1. PICK h \in DOMAIN disk : Home(h, p)
    BY <1>3 DEF DiskInv
  <2>2. /\ h \in DOMAIN OnDisk /\ OnDisk[h].entries = disk[h].entries /\ OnDisk[h].dead = disk[h].dead
    BY <2>1, OpensUnlessDue DEF Home, Due
  <2>3. p \in Live(OnDisk[h])
    BY <2>1, <2>2 DEF Home, Live
  <2>4. p \in DOMAIN tree
    BY <1>2, <2>2, <2>3
  <2>5. PICK m \in DOMAIN OnDisk : /\ p \in Live(OnDisk[m]) /\ tree[p] = OnDisk[m].entries[p]
                                   /\ \A j \in DOMAIN OnDisk : p \in Live(OnDisk[j]) => j <= m
    BY <1>2, <2>4
  <2>6. m \in DOMAIN disk /\ OnDisk[m].entries = disk[m].entries /\ h <= m
    BY <2>2, <2>3, <2>5, OnDiskFacts
  <2>7. Has(m, p)
    BY <2>5, <2>6 DEF Has, Live
  <2>8. m <= h
    BY <2>1, <2>6, <2>7 DEF Home
  <2>9. m = h
    BY <2>6, <2>8, DirectoryFacts
  <2>. QED BY <2>1, <2>4, <2>5, <2>6, <2>9 DEF Home
<1>4. ASSUME NEW p \in DOMAIN tree, truth[p] = 0, ~ (daemon.is = "tombstone" /\ p \in daemon.paths),
             NEW i \in LiveIn(OnDisk, p)
      PROVE  "tombstones" \in disk[i].gone
  <2>. SUFFICES ASSUME "tombstones" \notin disk[i].gone PROVE FALSE
    OBVIOUS
  <2>1. i \in DOMAIN OnDisk /\ p \in Live(OnDisk[i])
    BY DEF LiveIn
  <2>2. i \in DOMAIN disk /\ p \in Live(disk[i])
    BY <2>1, OnDiskFacts DEF Live
  <2>. QED BY <1>4, <2>2 DEF DiskInv
<1>. QED BY <1>3, <1>4, Zenon DEF ListingIsTrue, tree

-----------------------------------------------------------------------------
(* The daemon's steps. *)

\* A step of the daemon as the server sees it: old directories stay as they are but for tombstones
\* of the batch at work, and new ones say what the index says.
IndexStep ==
  /\ UNCHANGED server
  /\ touched \subseteq touched'
  /\ changes <= changes'
  /\ \A i \in DOMAIN disk' : i <= changes =>
       /\ i \in DOMAIN disk /\ disk'[i].entries = disk[i].entries /\ disk[i].dead \subseteq disk'[i].dead
       /\ \A p \in disk'[i].dead \ disk[i].dead : daemon.is = "tombstone" /\ p \in daemon.paths
  /\ \A i \in DOMAIN disk' : ~ (i <= changes) =>
       \A p \in DOMAIN disk'[i].entries : truth'[p] # 0 /\ disk'[i].entries[p] = truth'[p]

\* What is live after such a step was live before it or is what the index says.
LEMMA LiveAfter ==
  ASSUME TypeInv', IndexStep, NEW i \in DOMAIN disk', NEW p \in Live(disk'[i])
  PROVE  /\ p \in Paths
         /\ \/ i \in DOMAIN disk /\ i <= changes /\ p \in Live(disk[i]) /\ disk'[i].entries = disk[i].entries
            \/ truth'[p] # 0 /\ disk'[i].entries[p] = truth'[p]
<1>1. p \in Paths
  <2>1. disk'[i] \in Directories
    BY DEF TypeInv
  <2>2. disk'[i].entries \in Entries
    BY <2>1 DEF Directories
  <2>. QED BY <2>2, EntriesFacts DEF Live
<1>. QED BY <1>1 DEF IndexStep, Live

\* Such a step leaves the view as it is.
LEMMA ViewKept ==
  ASSUME TypeInv, TypeInv', StartInv, StartInv', ViewInv, IndexStep PROVE ViewInv'
<1>1. UNCHANGED <<pending, list, cache, up, atStart, missed, lost>>
  BY DEF IndexStep, server
<1>2. SUFFICES ASSUME up PROVE ViewInv'
  BY <1>1 DEF ViewInv
<1>3. ASSUME NEW p, NEW v, Right(p, v, touched, atStart.truth)
      PROVE  Right(p, v, touched', atStart.truth)
  BY <1>3 DEF Right, IndexStep
<1>4. ASSUME NEW p \in Paths, truth'[p] # 0
      PROVE  Right(p, truth'[p], touched', atStart.truth)
  BY <1>1, <1>2, <1>4 DEF StartInv, Right
<1>5. ASSUME missed \subseteq atStart.removing, NEW p \in Paths \ (touched' \cup atStart.changing),
             atStart.truth[p] # 0
      PROVE  \E i \in pending \cup DOMAIN list : ShowsStart(i, p)'
  <2>1. p \notin touched \cup atStart.changing
    BY <1>5 DEF IndexStep
  <2>2. PICK i \in pending \cup DOMAIN list : ShowsStart(i, p)
    BY <1>2, <1>5, <2>1 DEF ViewInv
  <2>3. i \in 1 .. changes /\ changes \in Nat
    BY DEF TypeInv
  <2>4. ~ (daemon.is = "tombstone" /\ p \in daemon.paths)
    BY <1>2, <2>1 DEF StartInv
  <2>5. i \in DOMAIN disk' => p \in Live(disk'[i]) /\ disk'[i].entries[p] = atStart.truth[p]
    BY <2>2, <2>3, <2>4 DEF IndexStep, ShowsStart, Live
  <2>6. ASSUME NEW j \in DOMAIN disk', i < j, p \in DOMAIN disk'[j].entries
        PROVE  disk'[j].entries[p] = atStart.truth[p]
    <3>1. CASE j <= changes
      BY <2>2, <2>6, <3>1 DEF IndexStep, ShowsStart, Has
    <3>2. CASE ~ (j <= changes)
      <4>1. truth'[p] = atStart.truth[p]
        BY <1>1, <1>2, <1>5 DEF StartInv
      <4>. QED BY <2>6, <3>2, <4>1 DEF IndexStep
    <3>. QED BY <3>1, <3>2
  <2>. QED BY <1>1, <2>2, <2>5, <2>6 DEF ShowsStart, Has
<1>6. ASSUME NEW i \in DOMAIN list, i \in DOMAIN disk' PROVE list[i] = disk'[i].entries
  <2>1. i <= changes
    BY DEF TypeInv
  <2>. QED BY <1>2, <1>6, <2>1 DEF IndexStep, ViewInv
<1>7. ASSUME NEW i \in DOMAIN disk', NEW p \in Live(disk'[i]) \ atStart.changing
      PROVE  Right(p, disk'[i].entries[p], touched', atStart.truth)
  <2>1. CASE i \in DOMAIN disk /\ p \in Live(disk[i]) /\ disk'[i].entries = disk[i].entries
    <3>1. Right(p, disk[i].entries[p], touched, atStart.truth)
      BY <1>2, <1>7, <2>1 DEF ViewInv
    <3>. QED BY <1>3, <2>1, <3>1
  <2>2. CASE p \in Paths /\ truth'[p] # 0 /\ disk'[i].entries[p] = truth'[p]
    BY <1>4, <2>2
  <2>. QED BY <1>7, <2>1, <2>2, LiveAfter
<1>8. ASSUME NEW i \in DOMAIN list \ lost, cache[i] # NotLoaded,
             NEW p \in (DOMAIN list[i] \ cache[i]) \ atStart.changing
      PROVE  Right(p, list[i][p], touched', atStart.truth)
  BY <1>2, <1>3, <1>8 DEF ViewInv
<1>. QED BY <1>1, <1>2, <1>5, <1>6, <1>7, <1>8 DEF ViewInv

\* A batch begins: the old live copies of its paths are due, the new segment is their home.
LEMMA ApplyChangesStep ==
  ASSUME TypeInv, DiskInv, StartInv, NEW W \in SUBSET Paths, NEW D \in SUBSET Paths, ApplyChanges(W, D)
  PROVE  TypeInv' /\ DiskInv' /\ StartInv' /\ IndexStep
<1>. DEFINE due == {i \in DOMAIN disk : Live(disk[i]) \cap (W \cup D) # {}}
<1>1. /\ daemon.is = "idle" /\ changes' = changes + 1 /\ changes \in Nat /\ W \cap D = {}
      /\ truth' = [p \in Paths |-> IF p \in W THEN changes' ELSE IF p \in D THEN 0 ELSE truth[p]]
      /\ touched' = touched \cup W \cup D
      /\ UNCHANGED <<pending, list, cache, call, calls, up, atStart, missed, lost, answer>>
  BY DEF ApplyChanges, Idle, TypeInv, server
<1>2. /\ daemon'.is = IF due = {} THEN "idle" ELSE "tombstone"
      /\ due # {} => daemon'.ids = due /\ daemon'.paths = W \cup D
      /\ daemon' \in [is : {"idle", "tombstone", "remove"}, ids : SUBSET Nat, paths : SUBSET Paths]
      /\ daemon'.ids \subseteq DOMAIN disk
  <2>1. daemon' = IF due = {} THEN Idle ELSE [is |-> "tombstone", ids |-> due, paths |-> W \cup D]
    BY DEF ApplyChanges
  <2>2. due \subseteq DOMAIN disk /\ due \subseteq Nat
    BY DEF TypeInv
  <2>. HIDE DEF due
  <2>. QED BY <2>1, <2>2 DEF Idle
<1>3. changes' \in Nat /\ changes' \notin DOMAIN disk /\ changes <= changes' /\ ~ (changes' <= changes)
  BY <1>1 DEF TypeInv
<1>4. /\ DOMAIN disk \subseteq DOMAIN disk' /\ \A i \in DOMAIN disk : disk'[i] = disk[i]
      /\ \A i \in DOMAIN disk' \ DOMAIN disk :
           i = changes' /\ disk'[i] = [entries |-> [p \in W |-> changes'], dead |-> {}, gone |-> {}]
      /\ W # {} => changes' \in DOMAIN disk'
  <2>1. CASE W = {}
    BY <2>1 DEF ApplyChanges
  <2>2. CASE W # {}
    <3>1. disk' = [i \in DOMAIN disk \cup {changes'} |->
                     IF i = changes' THEN Directory([p \in W |-> changes']) ELSE disk[i]]
      BY <2>2 DEF ApplyChanges
    <3>. QED BY <1>3, <3>1 DEF Directory
  <2>. QED BY <2>1, <2>2
<1>5. TypeInv'
  <2>1. [p \in W |-> changes'] \in Entries
    BY <1>3 DEF Entries
  <2>2. \A i \in DOMAIN disk' : i \in 1 .. changes' /\ disk'[i] \in Directories
    BY <1>1, <1>3, <1>4, <2>1 DEF Directories, TypeInv
  <2>3. 1 .. changes \subseteq 1 .. changes' /\ 0 .. changes \subseteq 0 .. changes'
    BY <1>1
  <2>4. truth' \in [Paths -> 0 .. changes'] /\ atStart'.truth \in [Paths -> 0 .. changes']
    BY <1>1, <1>3, <2>3 DEF TypeInv
  <2>5. pending' \subseteq 1 .. changes' /\ DOMAIN list' \subseteq 1 .. changes'
    BY <1>1, <2>3 DEF TypeInv
  <2>. QED BY <1>1, <1>2, <1>3, <1>4, <2>2, <2>4, <2>5 DEF TypeInv
<1>6. DiskInv'
  <2>1. ASSUME NEW p \in Paths, truth'[p] # 0 PROVE \E h \in DOMAIN disk' : Home(h, p)'
    <3>1. CASE p \in W
      <4>1. changes' \in DOMAIN disk' /\ changes' \notin due
        BY <1>3, <1>4, <3>1
      <4>2. p \in Live(disk'[changes']) /\ disk'[changes'].entries[p] = truth'[p]
        BY <1>1, <1>3, <1>4, <3>1, <4>1 DEF Live
      <4>3. PICK h \in DOMAIN disk' : h = changes'
        BY <4>1
      <4>4. ~ Due(h, p)'
        BY <1>2, <4>1, <4>3 DEF Due
      <4>5. \A j \in DOMAIN disk' : j <= h
        BY <1>5, <4>3 DEF TypeInv
      <4>. QED BY <4>2, <4>3, <4>4, <4>5 DEF Home
    <3>2. CASE p \notin W
      <4>1. p \notin W \cup D /\ truth'[p] = truth[p]
        BY <1>1, <2>1, <3>2
      <4>2. PICK h \in DOMAIN disk : Home(h, p)
        BY <2>1, <4>1 DEF DiskInv
      <4>3. ~ Due(h, p)'
        BY <1>2, <4>1 DEF Due
      <4>4. \A j \in DOMAIN disk' : Has(j, p)' => j <= h
        BY <1>4, <3>2, <4>2 DEF Has, Home
      <4>. QED BY <1>4, <4>1, <4>2, <4>3, <4>4 DEF Home
    <3>. QED BY <3>1, <3>2
  <2>2. ASSUME NEW i \in DOMAIN disk', NEW p \in Live(disk'[i])
        PROVE  \/ truth'[p] # 0 /\ disk'[i].entries[p] = truth'[p]
               \/ daemon'.is = "tombstone" /\ i \in daemon'.ids /\ p \in daemon'.paths
    <3>1. CASE i \in DOMAIN disk /\ p \in W \cup D
      <4>1. i \in due
        BY <1>4, <2>2, <3>1
      <4>. QED BY <1>2, <3>1, <4>1
    <3>2. CASE i \in DOMAIN disk /\ p \notin W \cup D
      <4>1. p \in Live(disk[i]) /\ disk'[i] = disk[i]
        BY <1>4, <2>2, <3>2
      <4>2. p \in Paths
        BY <3>2, <4>1, DirectoryFacts DEF Live
      <4>. QED BY <1>1, <3>2, <4>1, <4>2 DEF DiskInv
    <3>3. CASE i \notin DOMAIN disk
      <4>1. p \in W /\ disk'[i].entries[p] = changes'
        BY <1>4, <2>2, <3>3 DEF Live
      <4>. QED BY <1>1, <1>3, <4>1
    <3>. QED BY <3>1, <3>2, <3>3
  <2>3. \A i \in DOMAIN disk' : disk'[i].gone = {}
    BY <1>1, <1>4 DEF DiskInv
  <2>. QED BY <2>1, <2>2, <2>3 DEF DiskInv
<1>7. StartInv'
  <2>1. \A p \in Paths : atStart.truth[p] <= changes' /\ atStart.truth[p] \in Nat
    BY <1>1 DEF TypeInv
  <2>2. ASSUME up, NEW p \in Paths PROVE truth'[p] = 0 \/ truth'[p] >= atStart.truth[p]
    BY <1>1, <1>3, <2>1, <2>2 DEF StartInv
  <2>3. ASSUME up, NEW p \in Paths \ touched' PROVE truth'[p] = atStart.truth[p]
    BY <1>1, <2>3 DEF StartInv
  <2>4. daemon'.is = "tombstone" => daemon'.paths \subseteq touched'
    BY <1>1, <1>2
  <2>. QED BY <1>1, <2>2, <2>3, <2>4 DEF StartInv
<1>8. IndexStep
  <2>1. ASSUME NEW i \in DOMAIN disk', ~ (i <= changes), NEW p \in DOMAIN disk'[i].entries
        PROVE  truth'[p] # 0 /\ disk'[i].entries[p] = truth'[p]
    <3>1. i \notin DOMAIN disk
      BY <2>1, DirectoryFacts
    <3>2. p \in W /\ disk'[i].entries[p] = changes'
      BY <1>4, <2>1, <3>1
    <3>. QED BY <1>1, <1>3, <3>2
  <2>2. \A i \in DOMAIN disk' : i <= changes => i \in DOMAIN disk
    BY <1>3, <1>4
  <2>3. UNCHANGED server /\ touched \subseteq touched'
    BY <1>1 DEF server
  <2>. QED BY <1>3, <1>4, <2>1, <2>2, <2>3 DEF IndexStep
<1>. QED BY <1>5, <1>6, <1>7, <1>8

\* One segment less to do.
LEMMA FinishedFacts ==
  ASSUME TypeInv, NEW id \in daemon.ids, Finished(id)
  PROVE  /\ daemon' \in [is : {"idle", "tombstone", "remove"}, ids : SUBSET Nat, paths : SUBSET Paths]
         /\ daemon'.ids = daemon.ids \ {id}
         /\ daemon'.is = (IF daemon.ids = {id} THEN "idle" ELSE daemon.is)
         /\ daemon'.is = "tombstone" => daemon'.paths = daemon.paths
<1>1. daemon = [is |-> daemon.is, ids |-> daemon.ids, paths |-> daemon.paths]
      /\ daemon.ids \subseteq Nat /\ daemon.paths \subseteq Paths
      /\ daemon.is \in {"idle", "tombstone", "remove"}
  BY DEF TypeInv
<1>2. CASE daemon.ids = {id}
  BY <1>1, <1>2 DEF Finished, Idle
<1>3. CASE daemon.ids # {id}
  BY <1>1, <1>3 DEF Finished
<1>. QED BY <1>2, <1>3

\* A segment gets the tombstones of the batch at work.
LEMMA WriteTombstonesStep ==
  ASSUME TypeInv, DiskInv, StartInv, NEW id \in DOMAIN disk, WriteTombstones(id)
  PROVE  TypeInv' /\ DiskInv' /\ StartInv' /\ IndexStep
<1>1. /\ daemon.is = "tombstone" /\ id \in daemon.ids
      /\ UNCHANGED <<truth, changes, touched, pending, list, cache, call, calls, up, atStart, missed, lost, answer>>
  BY DEF WriteTombstones, server
<1>2. /\ daemon' \in [is : {"idle", "tombstone", "remove"}, ids : SUBSET Nat, paths : SUBSET Paths]
      /\ daemon'.ids = daemon.ids \ {id}
      /\ daemon'.is = (IF daemon.ids = {id} THEN "idle" ELSE "tombstone")
      /\ daemon'.is = "tombstone" => daemon'.paths = daemon.paths
  BY <1>1, FinishedFacts DEF WriteTombstones
<1>3. /\ DOMAIN disk' = DOMAIN disk
      /\ \A i \in DOMAIN disk : i # id => disk'[i] = disk[i]
      /\ disk'[id].entries = disk[id].entries /\ disk'[id].gone = disk[id].gone
      /\ disk'[id].dead = disk[id].dead \cup (daemon.paths \cap DOMAIN disk[id].entries)
      /\ disk'[id] \in Directories
  <2>1. disk' = [disk EXCEPT ![id] = [disk[id] EXCEPT !.dead = @ \cup (daemon.paths \cap DOMAIN disk[id].entries)]]
    BY DEF WriteTombstones, Bury
  <2>2. disk[id] = [entries |-> disk[id].entries, dead |-> disk[id].dead, gone |-> disk[id].gone]
    BY DirectoryFacts
  <2>3. disk'[id] = [entries |-> disk[id].entries, gone |-> disk[id].gone,
                     dead |-> disk[id].dead \cup (daemon.paths \cap DOMAIN disk[id].entries)]
    BY <2>1, <2>2
  <2>4. daemon.paths \subseteq Paths /\ disk[id].dead \subseteq Paths
        /\ disk[id].entries \in Entries /\ disk[id].gone \subseteq Part
    BY DirectoryFacts DEF TypeInv
  <2>5. disk'[id] \in Directories
    BY <2>3, <2>4 DEF Directories
  <2>. QED BY <2>1, <2>3, <2>5
<1>4. TypeInv'
  BY <1>1, <1>2, <1>3 DEF TypeInv
<1>5. \A i \in DOMAIN disk : \A p : Due(i, p)' => Due(i, p)
  BY <1>1, <1>2 DEF Due
<1>6. DiskInv'
  <2>1. ASSUME NEW p \in Paths, truth'[p] # 0 PROVE \E h \in DOMAIN disk' : Home(h, p)'
    <3>1. PICK h \in DOMAIN disk : Home(h, p)
      BY <1>1, <2>1 DEF DiskInv
    <3>2. h = id => p \notin daemon.paths
      BY <1>1, <3>1 DEF Home, Due
    <3>3. p \in Live(disk'[h]) /\ disk'[h].entries = disk[h].entries
      BY <1>3, <3>1, <3>2 DEF Home, Live
    <3>4. \A j \in DOMAIN disk' : Has(j, p)' => Has(j, p)
      BY <1>3 DEF Has
    <3>. QED BY <1>1, <1>3, <1>5, <3>1, <3>3, <3>4 DEF Home
  <2>2. ASSUME NEW i \in DOMAIN disk', NEW p \in Live(disk'[i])
        PROVE  \/ truth'[p] # 0 /\ disk'[i].entries[p] = truth'[p]
               \/ daemon'.is = "tombstone" /\ i \in daemon'.ids /\ p \in daemon'.paths
    <3>1. i \in DOMAIN disk /\ p \in Live(disk[i]) /\ disk'[i].entries = disk[i].entries
          /\ (i = id => p \notin daemon.paths)
      BY <1>3, <2>2 DEF Live
    <3>. QED BY <1>1, <1>2, <3>1 DEF DiskInv
  <2>3. \A i \in DOMAIN disk' : disk'[i].gone = {}
    BY <1>1, <1>3 DEF DiskInv
  <2>. QED BY <2>1, <2>2, <2>3 DEF DiskInv
<1>7. StartInv'
  BY <1>1, <1>2 DEF StartInv
<1>8. IndexStep
  <2>1. \A i \in DOMAIN disk : i <= changes /\ disk'[i].entries = disk[i].entries
    BY <1>3, DirectoryFacts
  <2>2. \A i \in DOMAIN disk : disk[i].dead \subseteq disk'[i].dead
                               /\ disk'[i].dead \ disk[i].dead \subseteq daemon.paths
    BY <1>3
  <2>3. changes <= changes'
    BY <1>1 DEF TypeInv
  <2>. QED BY <1>1, <1>3, <2>1, <2>2, <2>3 DEF IndexStep, server
<1>. QED BY <1>4, <1>6, <1>7, <1>8

\* What a compaction merges is the truth.
LEMMA MergedFacts ==
  ASSUME TypeInv, DiskInv, daemon.is = "idle"
  PROVE  /\ NewestLive(disk) \in Entries
         /\ \A p \in DOMAIN NewestLive(disk) :
              p \in Paths /\ truth[p] # 0 /\ NewestLive(disk)[p] = truth[p]
         /\ \A p \in Paths : truth[p] # 0 => p \in DOMAIN NewestLive(disk)
<1>. DEFINE merged == NewestLive(disk)
<1>1. /\ \A p : p \in DOMAIN merged <=> \E i \in DOMAIN disk : p \in Live(disk[i])
      /\ \A p \in DOMAIN merged : \E m \in DOMAIN disk :
           p \in Live(disk[m]) /\ merged[p] = disk[m].entries[p]
  BY NewestFacts DEF TypeInv
<1>2. merged = [p \in DOMAIN merged |-> merged[p]]
  BY DEF NewestLive
<1>. HIDE DEF merged
<1>3. ASSUME NEW p \in DOMAIN merged PROVE p \in Paths /\ truth[p] # 0 /\ merged[p] = truth[p]
  <2>1. PICK m \in DOMAIN disk : p \in Live(disk[m]) /\ merged[p] = disk[m].entries[p]
    BY <1>1
  <2>2. p \in Paths
    BY <2>1, DirectoryFacts DEF Live
  <2>. QED BY <2>1, <2>2 DEF DiskInv
<1>4. merged \in Entries
  <2>1. \A p \in DOMAIN merged : p \in Paths /\ merged[p] \in Nat
    BY <1>3 DEF TypeInv
  <2>2. DOMAIN merged \in SUBSET Paths /\ merged \in [DOMAIN merged -> Nat]
    BY <1>2, <2>1
  <2>. QED BY <2>2 DEF Entries
<1>5. \A p \in Paths : truth[p] # 0 => p \in DOMAIN merged
  BY <1>1 DEF DiskInv, Home
<1>. QED BY <1>3, <1>4, <1>5 DEF merged

\* A compaction writes the merged segment, the new home of every file.
LEMMA CompactStep ==
  ASSUME TypeInv, DiskInv, StartInv, Compact
  PROVE  TypeInv' /\ DiskInv' /\ StartInv' /\ IndexStep
<1>. DEFINE merged == NewestLive(disk)
<1>1. /\ daemon.is = "idle" /\ changes' = changes + 1 /\ changes \in Nat
      /\ UNCHANGED <<truth, touched, pending, list, cache, call, calls, up, atStart, missed, lost, answer>>
  BY DEF Compact, Idle, TypeInv, server
<1>2. /\ daemon'.is = "remove" /\ daemon'.ids = DOMAIN disk
      /\ daemon' \in [is : {"idle", "tombstone", "remove"}, ids : SUBSET Nat, paths : SUBSET Paths]
  <2>1. daemon' = [is |-> "remove", ids |-> DOMAIN disk, paths |-> {}]
    BY DEF Compact
  <2>2. DOMAIN disk \subseteq Nat
    BY DEF TypeInv
  <2>. QED BY <2>1, <2>2
<1>3. changes' \in Nat /\ changes' \notin DOMAIN disk /\ changes <= changes' /\ ~ (changes' <= changes)
  BY <1>1 DEF TypeInv
<1>4. /\ merged \in Entries
      /\ \A p \in DOMAIN merged : p \in Paths /\ truth[p] # 0 /\ merged[p] = truth[p]
      /\ \A p \in Paths : truth[p] # 0 => p \in DOMAIN merged
  BY <1>1, MergedFacts
<1>5. /\ DOMAIN disk \subseteq DOMAIN disk' /\ \A i \in DOMAIN disk : disk'[i] = disk[i]
      /\ \A i \in DOMAIN disk' \ DOMAIN disk :
           i = changes' /\ disk'[i] = [entries |-> merged, dead |-> {}, gone |-> {}]
      /\ DOMAIN merged # {} => changes' \in DOMAIN disk'
  <2>1. disk' = IF DOMAIN merged = {} THEN disk
                ELSE [i \in DOMAIN disk \cup {changes'} |->
                        IF i = changes' THEN Directory(merged) ELSE disk[i]]
    BY DEF Compact
  <2>. HIDE DEF merged
  <2>. QED BY <1>3, <2>1 DEF Directory
<1>. HIDE DEF merged
<1>6. TypeInv'
  <2>1. \A i \in DOMAIN disk' : i \in 1 .. changes' /\ disk'[i] \in Directories
    BY <1>1, <1>3, <1>4, <1>5 DEF Directories, TypeInv
  <2>2. 1 .. changes \subseteq 1 .. changes' /\ 0 .. changes \subseteq 0 .. changes'
    BY <1>1
  <2>3. truth' \in [Paths -> 0 .. changes'] /\ atStart'.truth \in [Paths -> 0 .. changes']
    BY <1>1, <1>3, <2>2 DEF TypeInv
  <2>4. pending' \subseteq 1 .. changes' /\ DOMAIN list' \subseteq 1 .. changes'
    BY <1>1, <2>2 DEF TypeInv
  <2>. QED BY <1>1, <1>2, <1>3, <1>5, <2>1, <2>3, <2>4 DEF TypeInv
<1>7. DiskInv'
  <2>1. ASSUME NEW p \in Paths, truth'[p] # 0 PROVE \E h \in DOMAIN disk' : Home(h, p)'
    <3>1. p \in DOMAIN merged /\ merged[p] = truth[p]
      BY <1>1, <1>4, <2>1
    <3>2. changes' \in DOMAIN disk'
      BY <1>5, <3>1
    <3>3. disk'[changes'].entries = merged /\ disk'[changes'].dead = {}
      BY <1>3, <1>5, <3>2
    <3>4. p \in Live(disk'[changes']) /\ disk'[changes'].entries[p] = truth'[p]
      BY <1>1, <3>1, <3>3 DEF Live
    <3>5. PICK h \in DOMAIN disk' : h = changes'
      BY <3>2
    <3>6. ~ Due(h, p)'
      BY <1>2, <1>3, <3>5 DEF Due
    <3>7. \A j \in DOMAIN disk' : j <= h
      BY <1>6, <3>5 DEF TypeInv
    <3>. QED BY <3>4, <3>5, <3>6, <3>7 DEF Home
  <2>2. ASSUME NEW i \in DOMAIN disk', NEW p \in Live(disk'[i])
        PROVE  truth'[p] # 0 /\ disk'[i].entries[p] = truth'[p]
    <3>1. CASE i \in DOMAIN disk
      BY <1>1, <1>5, <2>2, <3>1 DEF DiskInv
    <3>2. CASE i \notin DOMAIN disk
      BY <1>1, <1>4, <1>5, <2>2, <3>2 DEF Live
    <3>. QED BY <3>1, <3>2
  <2>3. \A i \in DOMAIN disk' : disk'[i].gone = {}
    BY <1>1, <1>5 DEF DiskInv
  <2>. QED BY <2>1, <2>2, <2>3 DEF DiskInv
<1>8. StartInv'
  BY <1>1, <1>2 DEF StartInv
<1>9. IndexStep
  <2>1. ASSUME NEW i \in DOMAIN disk', ~ (i <= changes), NEW p \in DOMAIN disk'[i].entries
        PROVE  truth'[p] # 0 /\ disk'[i].entries[p] = truth'[p]
    <3>1. i \notin DOMAIN disk
      BY <2>1, DirectoryFacts
    <3>. QED BY <1>1, <1>4, <1>5, <2>1, <3>1
  <2>2. \A i \in DOMAIN disk' : i <= changes => i \in DOMAIN disk
    BY <1>3, <1>5
  <2>3. UNCHANGED server /\ touched \subseteq touched'
    BY <1>1 DEF server
  <2>. QED BY <1>3, <1>5, <2>1, <2>2, <2>3 DEF IndexStep
<1>. QED BY <1>6, <1>7, <1>8, <1>9

\* A directory about to be removed loses a file, or goes.
LEMMA RemovalStep ==
  ASSUME TypeInv, DiskInv, StartInv, NEW id \in DOMAIN disk,
         RemoveDirectory(id) \/ \E part \in Part : UnlinkFile(id, part)
  PROVE  TypeInv' /\ DiskInv' /\ StartInv' /\ IndexStep
<1>1. /\ daemon.is = "remove" /\ id \in daemon.ids
      /\ UNCHANGED <<truth, changes, touched, pending, list, cache, call, calls, up, atStart, missed, lost, answer>>
  BY DEF RemoveDirectory, UnlinkFile, NextToRemove, server
<1>2. /\ daemon' \in [is : {"idle", "tombstone", "remove"}, ids : SUBSET Nat, paths : SUBSET Paths]
      /\ daemon'.is # "tombstone" /\ daemon'.ids \subseteq DOMAIN disk'
      /\ DOMAIN disk' \subseteq DOMAIN disk
      /\ \A i \in DOMAIN disk' :
           /\ disk'[i].entries = disk[i].entries /\ disk'[i].dead = disk[i].dead
           /\ disk'[i] \in Directories
           /\ disk'[i].gone # {} => daemon'.is = "remove" /\ i \in daemon'.ids
           /\ daemon'.is = "remove" /\ i \in daemon'.ids => i \in daemon.ids
      /\ \A i \in DOMAIN disk \ daemon.ids : i \in DOMAIN disk'
  <2>1. CASE RemoveDirectory(id)
    <3>1. disk' = [i \in DOMAIN disk \ {id} |-> disk[i]]
      BY <2>1 DEF RemoveDirectory
    <3>2. /\ daemon' \in [is : {"idle", "tombstone", "remove"}, ids : SUBSET Nat, paths : SUBSET Paths]
          /\ daemon'.ids = daemon.ids \ {id}
          /\ daemon'.is = (IF daemon.ids = {id} THEN "idle" ELSE "remove")
      BY <1>1, <2>1, FinishedFacts DEF RemoveDirectory
    <3>3. DOMAIN disk' = DOMAIN disk \ {id} /\ \A i \in DOMAIN disk' : disk'[i] = disk[i]
      BY <3>1
    <3>4. \A i \in DOMAIN disk' : disk'[i].gone # {} => i \in daemon.ids \ {id}
      BY <3>3 DEF DiskInv
    <3>. QED BY <1>1, <3>2, <3>3, <3>4 DEF TypeInv
  <2>2. CASE \E part \in Part : UnlinkFile(id, part)
    <3>1. PICK part \in Part : UnlinkFile(id, part)
      BY <2>2
    <3>2. disk' = [disk EXCEPT ![id] = [disk[id] EXCEPT !.gone = @ \cup {part}]] /\ daemon' = daemon
      BY <3>1 DEF UnlinkFile
    <3>3. disk[id] = [entries |-> disk[id].entries, dead |-> disk[id].dead, gone |-> disk[id].gone]
          /\ disk[id].entries \in Entries /\ disk[id].dead \subseteq Paths /\ disk[id].gone \subseteq Part
      BY DirectoryFacts
    <3>4. disk'[id] = [entries |-> disk[id].entries, dead |-> disk[id].dead,
                       gone |-> disk[id].gone \cup {part}]
      BY <3>2, <3>3
    <3>5. DOMAIN disk' = DOMAIN disk /\ \A i \in DOMAIN disk : i # id => disk'[i] = disk[i]
      BY <3>2
    <3>6. disk'[id] \in Directories /\ disk'[id].entries = disk[id].entries /\ disk'[id].dead = disk[id].dead
      BY <3>1, <3>3, <3>4 DEF Directories
    <3>7. daemon.ids \subseteq DOMAIN disk /\ \A i \in DOMAIN disk : disk[i] \in Directories
      BY DEF TypeInv
    <3>8. daemon' \in [is : {"idle", "tombstone", "remove"}, ids : SUBSET Nat, paths : SUBSET Paths]
      BY <3>2 DEF TypeInv
    <3>9. \A i \in DOMAIN disk' : disk'[i].gone # {} => i \in daemon.ids
      BY <1>1, <3>5 DEF DiskInv
    <3>. QED BY <1>1, <3>2, <3>5, <3>6, <3>7, <3>8, <3>9
  <2>. QED BY <2>1, <2>2
<1>3. TypeInv'
  BY <1>1, <1>2 DEF TypeInv
<1>4. DiskInv'
  <2>1. ASSUME NEW p \in Paths, truth'[p] # 0 PROVE \E h \in DOMAIN disk' : Home(h, p)'
    <3>1. PICK h \in DOMAIN disk : Home(h, p)
      BY <1>1, <2>1 DEF DiskInv
    <3>2. h \notin daemon.ids
      BY <1>1, <3>1 DEF Home, Due
    <3>3. h \in DOMAIN disk' /\ ~ Due(h, p)'
      BY <1>2, <3>2 DEF Due
    <3>4. p \in Live(disk'[h]) /\ disk'[h].entries[p] = truth'[p]
      BY <1>1, <1>2, <3>1, <3>3 DEF Home, Live
    <3>5. \A j \in DOMAIN disk' : Has(j, p)' => j <= h
      BY <1>2, <3>1 DEF Home, Has
    <3>. QED BY <3>3, <3>4, <3>5 DEF Home
  <2>2. ASSUME NEW i \in DOMAIN disk', NEW p \in Live(disk'[i])
        PROVE  truth'[p] # 0 /\ disk'[i].entries[p] = truth'[p]
    <3>1. i \in DOMAIN disk /\ p \in Live(disk[i]) /\ disk'[i].entries = disk[i].entries
      BY <1>2, <2>2 DEF Live
    <3>. QED BY <1>1, <3>1 DEF DiskInv
  <2>3. \A i \in DOMAIN disk' : disk'[i].gone # {} => daemon'.is = "remove" /\ i \in daemon'.ids
    BY <1>2
  <2>. QED BY <2>1, <2>2, <2>3 DEF DiskInv
<1>5. StartInv'
  BY <1>1, <1>2 DEF StartInv
<1>6. IndexStep
  <2>1. \A i \in DOMAIN disk' : i <= changes
    BY <1>2, DirectoryFacts
  <2>2. changes <= changes'
    BY <1>1 DEF TypeInv
  <2>. QED BY <1>1, <1>2, <2>1, <2>2 DEF IndexStep, server
<1>. QED BY <1>3, <1>4, <1>5, <1>6

-----------------------------------------------------------------------------
(* The server's steps.                                                     *)

\* A step of the server leaves the index alone.
LEMMA IndexKept ==
  ASSUME TypeInv, DiskInv, UNCHANGED index
  PROVE  /\ DiskInv'
         /\ changes' \in Nat /\ DOMAIN disk' \subseteq 1 .. changes'
         /\ \A i \in DOMAIN disk' : disk'[i] \in Directories
         /\ daemon' \in [is : {"idle", "tombstone", "remove"}, ids : SUBSET Nat, paths : SUBSET Paths]
         /\ daemon'.ids \subseteq DOMAIN disk'
         /\ truth' \in [Paths -> 0 .. changes']
BY DEF TypeInv, DiskInv, Home, Due, Has, index

\* The server starts: what it lists says what the index says.
LEMMA RunMcpStep == ASSUME ServerInv, RunMcp PROVE ServerInv'
<1>1. /\ UNCHANGED index /\ up' = TRUE /\ pending' = DOMAIN disk /\ DOMAIN list' = {} /\ DOMAIN cache' = {}
      /\ UNCHANGED <<disk, daemon, truth, changes>>
      /\ atStart'.truth = truth /\ touched' = {} /\ missed' = {} /\ lost' = {}
      /\ atStart'.removing = (IF daemon.is = "remove" THEN daemon.ids ELSE {})
      /\ atStart'.changing = (IF daemon.is = "tombstone" THEN daemon.paths ELSE {})
  BY DEF RunMcp, Nothing, index
<1>2. TypeInv /\ DiskInv
  BY DEF ServerInv
<1>3. TypeInv'
  BY <1>1, <1>2, IndexKept DEF TypeInv
<1>4. DiskInv'
  BY <1>1, <1>2, IndexKept
<1>5. \A p \in Paths : truth[p] \in Nat
  BY <1>2 DEF TypeInv
<1>6. StartInv'
  BY <1>1, <1>5 DEF StartInv
<1>7. ASSUME NEW p \in Paths, p \notin atStart'.changing, truth[p] # 0
      PROVE  \E i \in pending' : ShowsStart(i, p)'
  <2>1. PICK h \in DOMAIN disk : Home(h, p)
    BY <1>2, <1>7 DEF DiskInv
  <2>2. h \in pending' /\ h \notin atStart'.removing
    BY <1>1, <2>1 DEF Home, Due
  <2>3. ASSUME NEW j \in DOMAIN disk, h < j, Has(j, p) PROVE FALSE
    BY <1>2, <2>1, <2>3, DirectoryFacts DEF Home
  <2>. QED BY <1>1, <2>1, <2>2, <2>3 DEF ShowsStart, Home, Has
<1>8. ASSUME NEW i \in DOMAIN disk, NEW p \in Live(disk[i]) \ atStart'.changing
      PROVE  Right(p, disk[i].entries[p], touched', truth)
  <2>1. p \in Paths
    BY <1>2, <1>8, DirectoryFacts DEF Live
  <2>2. disk[i].entries[p] = truth[p]
    BY <1>1, <1>2, <1>8 DEF DiskInv
  <2>. QED BY <1>5, <2>1, <2>2 DEF Right
<1>9. ViewInv'
  BY <1>1, <1>7, <1>8 DEF ViewInv
<1>. QED BY <1>3, <1>4, <1>6, <1>9 DEF ServerInv

\* A segment the daemon is writing is listed too.
LEMMA ListLateStep == ASSUME ServerInv, NEW id \in DOMAIN disk, ListLate(id) PROVE ServerInv'
<1>1. /\ pending' = pending \cup {id} /\ UNCHANGED index
      /\ UNCHANGED <<disk, daemon, truth, changes, touched, list, cache, up, atStart, missed, lost>>
  BY DEF ListLate, index
<1>2. TypeInv'
  BY <1>1, IndexKept DEF ServerInv, TypeInv
<1>3. DiskInv' /\ StartInv'
  BY <1>1, IndexKept DEF ServerInv, StartInv
<1>4. \A i \in pending \cup DOMAIN list, p \in Paths : ShowsStart(i, p) => ShowsStart(i, p)'
  BY <1>1 DEF ShowsStart, Has
<1>5. ViewInv'
  BY <1>1, <1>4 DEF ServerInv, ViewInv
<1>. QED BY <1>2, <1>3, <1>5 DEF ServerInv

\* A listed directory is opened, and then shown as it is, or is missed.
LEMMA OpenEntryStep == ASSUME ServerInv, NEW id \in pending, OpenEntry(id) PROVE ServerInv'
<1>1. /\ pending' = pending \ {id} /\ UNCHANGED index
      /\ UNCHANGED <<disk, daemon, truth, changes, touched, up, atStart, lost>>
  BY DEF OpenEntry, index
<1>2. TypeInv /\ DiskInv /\ StartInv /\ ViewInv
  BY DEF ServerInv
<1>3. DiskInv' /\ StartInv'
  BY <1>1, <1>2, IndexKept DEF StartInv
<1>4. id \in 1 .. changes
  BY <1>2 DEF TypeInv
<1>5. CASE id \in DOMAIN OnDisk
  <2>1. /\ missed' = missed /\ id \in DOMAIN disk
        /\ DOMAIN list' = DOMAIN list \cup {id} /\ list'[id] = disk[id].entries
        /\ \A i \in DOMAIN list : i # id => list'[i] = list[i]
        /\ DOMAIN cache' = DOMAIN cache \cup {id} /\ cache'[id] = NotLoaded
        /\ \A i \in DOMAIN cache : i # id => cache'[i] = cache[i]
    BY <1>5 DEF OpenEntry, OnDisk
  <2>2. DOMAIN cache = DOMAIN list
    BY <1>2 DEF TypeInv
  <2>3. TypeInv'
    <3>1. disk[id].entries \in Entries
      BY <1>2, <2>1, DirectoryFacts
    <3>. QED BY <1>1, <1>2, <1>4, <2>1, <3>1, IndexKept DEF TypeInv
  <2>4. ASSUME NEW p \in Paths, NEW i \in pending \cup DOMAIN list, ShowsStart(i, p)
        PROVE  i \in pending' \cup DOMAIN list' /\ ShowsStart(i, p)'
    <3>1. i \in pending' \cup DOMAIN list'
      BY <1>1, <2>1
    <3>2. p \notin NotLoaded
      BY McpServerAssumption DEF NotLoaded
    <3>3. ASSUME i \in DOMAIN list'
          PROVE  p \in DOMAIN list'[i] /\ list'[i][p] = atStart.truth[p] /\ p \notin cache'[i]
      <4>1. CASE i = id
        BY <2>1, <2>4, <3>2, <4>1 DEF ShowsStart, Live
      <4>2. CASE i # id
        BY <2>1, <2>2, <2>4, <3>3, <4>2 DEF ShowsStart
      <4>. QED BY <4>1, <4>2
    <3>4. ASSUME NEW j \in DOMAIN list', i < j, p \in DOMAIN list'[j]
          PROVE  list'[j][p] = atStart.truth[p]
      <4>1. CASE j = id
        BY <2>1, <2>4, <3>4, <4>1 DEF ShowsStart, Has
      <4>2. CASE j # id
        BY <2>1, <2>4, <3>4, <4>2 DEF ShowsStart
      <4>. QED BY <4>1, <4>2
    <3>. QED BY <1>1, <2>4, <3>1, <3>3, <3>4 DEF ShowsStart, Has
  <2>5. \A i \in DOMAIN list' : i \in DOMAIN disk => list'[i] = disk[i].entries
          \/ ~ up
    BY <1>2, <2>1 DEF ViewInv
  <2>6. ASSUME up, NEW i \in DOMAIN list' \ lost, cache'[i] # NotLoaded,
               NEW p \in (DOMAIN list'[i] \ cache'[i]) \ atStart.changing
        PROVE  Right(p, list'[i][p], touched, atStart.truth)
    <3>1. i # id /\ i \in DOMAIN list
      BY <2>1, <2>6
    <3>. QED BY <1>2, <2>1, <2>2, <2>6, <3>1 DEF ViewInv
  <2>7. ViewInv'
    BY <1>1, <1>2, <2>1, <2>4, <2>5, <2>6 DEF ViewInv
  <2>. QED BY <1>3, <2>3, <2>7 DEF ServerInv
<1>6. CASE id \notin DOMAIN OnDisk
  <2>1. missed' = missed \cup {id} /\ UNCHANGED <<list, cache>>
    BY <1>6 DEF OpenEntry
  <2>2. TypeInv'
    BY <1>1, <1>2, <2>1, IndexKept DEF TypeInv
  <2>3. ASSUME NEW p \in Paths, NEW i \in pending \cup DOMAIN list, ShowsStart(i, p),
               missed' \subseteq atStart.removing
        PROVE  i \in pending' \cup DOMAIN list' /\ ShowsStart(i, p)'
    <3>1. i # id
      BY <2>1, <2>3 DEF ShowsStart
    <3>. QED BY <1>1, <2>1, <2>3, <3>1 DEF ShowsStart, Has
  <2>4. missed' \subseteq atStart.removing => missed \subseteq atStart.removing
    BY <2>1
  <2>5. ViewInv'
    BY <1>1, <1>2, <2>1, <2>3, <2>4 DEF ViewInv
  <2>. QED BY <1>3, <2>2, <2>5 DEF ServerInv
<1>. QED BY <1>5, <1>6

\* A call reads the tombstones of one segment: those of now, unless their file is gone.
LEMMA LoadTombstonesStep == ASSUME ServerInv, NEW id, LoadTombstones(id) PROVE ServerInv'
<1>1. /\ UNCHANGED index
      /\ UNCHANGED <<disk, daemon, truth, changes, touched, pending, list, up, atStart, missed>>
      /\ lost \subseteq lost' /\ (id \in DOMAIN cache /\ cache[id] = NotLoaded /\ Gone(id) => id \in lost')
  BY DEF LoadTombstones, index
<1>2. TypeInv /\ DiskInv /\ StartInv /\ ViewInv
  BY DEF ServerInv
<1>3. /\ DOMAIN cache' = DOMAIN cache
      /\ \A i \in DOMAIN cache : i # id \/ cache[i] # NotLoaded => cache'[i] = cache[i]
      /\ id \in DOMAIN cache /\ cache[id] = NotLoaded =>
           cache'[id] = IF Gone(id) THEN {} ELSE disk[id].dead
  BY DEF LoadTombstones
<1>4. DOMAIN cache = DOMAIN list
  BY <1>2 DEF TypeInv
<1>5. TypeInv'
  BY <1>1, <1>2, <1>3, IndexKept DEF TypeInv
<1>6. DiskInv' /\ StartInv'
  BY <1>1, <1>2, IndexKept DEF StartInv
<1>7. ASSUME NEW p \in Paths, NEW i \in pending \cup DOMAIN list, ShowsStart(i, p)
      PROVE  ShowsStart(i, p)'
  <2>1. i \in DOMAIN list => p \notin cache'[i]
    BY <1>3, <1>4, <1>7 DEF ShowsStart, Gone, Live
  <2>. QED BY <1>1, <1>7, <2>1 DEF ShowsStart, Has
<1>8. ASSUME up, NEW i \in DOMAIN list \ lost', cache'[i] # NotLoaded,
             NEW p \in (DOMAIN list[i] \ cache'[i]) \ atStart.changing
      PROVE  Right(p, list[i][p], touched, atStart.truth)
  <2>1. CASE i # id \/ cache[i] # NotLoaded
    BY <1>1, <1>2, <1>3, <1>4, <1>8, <2>1 DEF ViewInv
  <2>2. CASE i = id /\ cache[i] = NotLoaded
    <3>1. ~ Gone(i) /\ cache'[i] = disk[i].dead
      BY <1>1, <1>3, <1>4, <1>8, <2>2
    <3>2. i \in DOMAIN disk /\ list[i] = disk[i].entries
      BY <1>2, <1>8, <3>1 DEF ViewInv, Gone
    <3>3. p \in Live(disk[i]) \ atStart.changing
      BY <1>8, <3>1, <3>2 DEF Live
    <3>. QED BY <1>2, <1>8, <3>2, <3>3 DEF ViewInv
  <2>. QED BY <2>1, <2>2
<1>9. ViewInv'
  BY <1>1, <1>2, <1>7, <1>8 DEF ViewInv
<1>. QED BY <1>5, <1>6, <1>9 DEF ServerInv

\* The server stops.
LEMMA StopStep == ASSUME ServerInv, Stop PROVE ServerInv'
<1>1. /\ UNCHANGED index /\ UNCHANGED <<disk, daemon, truth, changes>> /\ up' = FALSE /\ pending' = {}
      /\ DOMAIN list' = {} /\ DOMAIN cache' = {} /\ atStart'.truth = [p \in Paths |-> 0]
  BY DEF Stop, Nothing, NotStarted, index
<1>2. TypeInv'
  BY <1>1, IndexKept DEF ServerInv, TypeInv
<1>3. DiskInv'
  BY <1>1, IndexKept DEF ServerInv
<1>. QED BY <1>1, <1>2, <1>3 DEF ServerInv, StartInv, ViewInv

\* Steps that change neither the index nor what the server knows of it.
LEMMA OtherStep ==
  ASSUME ServerInv, UNCHANGED <<index, touched, pending, list, cache, up, atStart, missed, lost>>
  PROVE  ServerInv'
<1>1. UNCHANGED <<disk, daemon, truth, changes>>
  BY DEF index
<1>2. TypeInv'
  BY <1>1, IndexKept DEF ServerInv, TypeInv
<1>3. DiskInv' /\ StartInv'
  BY <1>1, IndexKept DEF ServerInv, StartInv
<1>4. \A i, p : ShowsStart(i, p) <=> ShowsStart(i, p)'
  BY <1>1 DEF ShowsStart, Has
<1>5. ViewInv'
  BY <1>1, <1>4 DEF ServerInv, ViewInv
<1>. QED BY <1>2, <1>3, <1>5 DEF ServerInv

-----------------------------------------------------------------------------
(* The server shows the index it listed, and the disk the index.           *)

\* Nothing is indexed, and no server runs.
LEMMA ServerInitInv == Init => ServerInv
<1>. SUFFICES ASSUME Init PROVE ServerInv
  OBVIOUS
<1>1. /\ DOMAIN disk = {} /\ daemon = Idle /\ truth = [p \in Paths |-> 0] /\ changes = 0
      /\ pending = {} /\ DOMAIN list = {} /\ DOMAIN cache = {} /\ up = FALSE /\ atStart.truth = truth
  BY DEF Init, Nothing, NotStarted
<1>2. TypeInv
  BY <1>1 DEF TypeInv, Idle
<1>. QED BY <1>1, <1>2 DEF ServerInv, DiskInv, StartInv, ViewInv

\* Every step of the daemon and the server keeps the invariant.
LEMMA ServerNextInv == ASSUME ServerInv, [Next]_vars PROVE ServerInv'
<1>1. ASSUME TypeInv' /\ DiskInv' /\ StartInv' /\ IndexStep PROVE ServerInv'
  BY <1>1, ViewKept DEF ServerInv
<1>2. CASE DaemonStep
  <2>1. CASE \E W, D \in SUBSET Paths : ApplyChanges(W, D)
    BY <1>1, <2>1, ApplyChangesStep DEF ServerInv
  <2>2. CASE Compact
    BY <1>1, <2>2, CompactStep DEF ServerInv
  <2>3. CASE \E id \in DOMAIN disk : WriteTombstones(id)
    BY <1>1, <2>3, WriteTombstonesStep DEF ServerInv
  <2>4. CASE \E id \in DOMAIN disk : RemoveDirectory(id) \/ \E part \in Part : UnlinkFile(id, part)
    BY <1>1, <2>4, RemovalStep DEF ServerInv
  <2>. QED BY <1>2, <2>1, <2>2, <2>3, <2>4 DEF DaemonStep
<1>3. CASE ServerStep
  <2>1. CASE RunMcp
    BY <2>1, RunMcpStep
  <2>2. CASE Stop
    BY <2>2, StopStep
  <2>3. CASE Return
    BY <2>3, OtherStep DEF Return
  <2>4. CASE \E id \in DOMAIN disk : ListLate(id)
    BY <2>4, ListLateStep
  <2>5. CASE \E id \in pending : OpenEntry(id)
    BY <2>5, OpenEntryStep
  <2>6. CASE \E what \in {"lookup", "status"} : Call(what)
    BY <2>6, OtherStep DEF Call
  <2>7. CASE \E id \in call.left : LoadTombstones(id)
    BY <2>7, LoadTombstonesStep
  <2>. QED BY <1>3, <2>1, <2>2, <2>3, <2>4, <2>5, <2>6, <2>7 DEF ServerStep
<1>4. CASE ToolStep
  BY <1>4, OtherStep DEF ToolStep, CallTool
<1>5. CASE UNCHANGED vars
  BY <1>5, OtherStep DEF vars, server
<1>. QED BY <1>2, <1>3, <1>4, <1>5 DEF Next

\* The invariant always holds.
LEMMA ServerInvAlways == Spec => []ServerInv
BY ServerInitInv, ServerNextInv, PTL DEF Spec

\* What the invariant says of the view, once everything is open and read.
LEMMA ViewFollows == ASSUME ServerInv PROVE ViewIsOfTheStart
<1>. DEFINE seen == NewestLive(Frozen)
<1>. SUFFICES ASSUME up, Loaded, missed \subseteq atStart.removing
     PROVE /\ \A p \in Paths \ (touched \cup atStart.changing) :
                atStart.truth[p] # 0 => p \in DOMAIN seen /\ seen[p] = atStart.truth[p]
           /\ lost = {} => \A p \in DOMAIN seen \ atStart.changing :
                /\ seen[p] >= atStart.truth[p]
                /\ p \notin touched => seen[p] = atStart.truth[p]
  BY DEF ViewIsOfTheStart
<1>1. /\ changes \in Nat /\ DOMAIN Frozen = DOMAIN list /\ DOMAIN list \subseteq 1 .. changes
      /\ \A i \in DOMAIN list : Live(Frozen[i]) = DOMAIN list[i] \ cache[i] /\ Frozen[i].entries = list[i]
      /\ pending = {} /\ \A i \in DOMAIN list : cache[i] # NotLoaded
  BY DEF ServerInv, TypeInv, Frozen, Live, Loaded
<1>2. /\ \A p : p \in DOMAIN seen <=> \E i \in DOMAIN list : p \in Live(Frozen[i])
      /\ \A p \in DOMAIN seen : \E m \in DOMAIN list :
           /\ p \in Live(Frozen[m]) /\ seen[p] = list[m][p]
           /\ \A j \in DOMAIN list : p \in Live(Frozen[j]) => j <= m
  BY <1>1, NewestFacts
<1>. HIDE DEF seen
<1>3. ASSUME NEW p \in Paths \ (touched \cup atStart.changing), atStart.truth[p] # 0
      PROVE  p \in DOMAIN seen /\ seen[p] = atStart.truth[p]
  <2>1. PICK i \in DOMAIN list : ShowsStart(i, p)
    BY <1>1, <1>3 DEF ServerInv, ViewInv
  <2>2. p \in Live(Frozen[i])
    BY <1>1, <2>1 DEF ShowsStart
  <2>3. PICK m \in DOMAIN list : p \in Live(Frozen[m]) /\ seen[p] = list[m][p] /\ i <= m
    BY <1>2, <2>1, <2>2
  <2>4. CASE i = m
    BY <1>2, <2>1, <2>2, <2>3, <2>4 DEF ShowsStart
  <2>5. CASE i # m
    <3>1. i < m /\ p \in DOMAIN list[m]
      BY <1>1, <2>3, <2>5
    <3>. QED BY <1>2, <2>1, <2>2, <2>3, <3>1 DEF ShowsStart
  <2>. QED BY <2>4, <2>5
<1>4. ASSUME lost = {}, NEW p \in DOMAIN seen \ atStart.changing
      PROVE  seen[p] >= atStart.truth[p] /\ (p \notin touched => seen[p] = atStart.truth[p])
  <2>1. PICK m \in DOMAIN list : p \in Live(Frozen[m]) /\ seen[p] = list[m][p]
    BY <1>2, <1>4
  <2>2. p \in (DOMAIN list[m] \ cache[m]) \ atStart.changing /\ m \notin lost /\ cache[m] # NotLoaded
    BY <1>1, <1>4, <2>1
  <2>3. Right(p, list[m][p], touched, atStart.truth)
    BY <2>2 DEF ServerInv, ViewInv
  <2>. QED BY <2>1, <2>3 DEF Right
<1>. QED BY <1>3, <1>4

\* What a server shows, once it has opened what it listed and read the tombstones, is the index of
\* the time it started, however many batches and compactions come meanwhile and after: no file of
\* then that was left alone is missing or in another version, and none is shown that is older or
\* was not indexed, for the segments whose tombstones it could read (mcp/mod.rs:24-50,
\* recovery.rs:40-128, segment.rs:289-336).
THEOREM ServerShowsItsStart == Spec => []ViewIsOfTheStart
BY ServerInvAlways, ViewFollows, PTL

\* At every moment, in the middle of a batch or of a removal too, the directories that open list
\* every indexed file in its version, and a file that is not indexed only while the batch deletes
\* it or from a directory whose tombstones.bin is gone (segment_manager.rs:794-862, 1083-1100).
THEOREM DiskListsTruth == Spec => []ListingIsTrue
<1>1. ServerInv => ListingIsTrue
  BY ListingTrue DEF ServerInv
<1>. QED BY <1>1, ServerInvAlways, PTL

-----------------------------------------------------------------------------
(* The display of `ferret reindex`.                                        *)
(*                                                                         *)
(* The events that put the bar back (the numbers of files read,            *)
(* decompressed and written) must not overtake the events of built files   *)
(* that raised it, unless a new bar was begun between them.  Nothing in    *)
(* the renderer ensures that: it is the order in which the catch-up sends, *)
(* kept by the channel.  The invariant follows it from the catch-up's      *)
(* phase through the channel to the display.                               *)

Phases == {"start", "detecting", "scanned", "locking", "preparing", "building", "burying", "applied",
           "compacting", "collecting", "decompressing", "writing", "completing", "done", "over"}
Working == {"preparing", "building", "decompressing", "writing"}
Unbuilt == {"start", "detecting", "scanned", "locking", "preparing"}
Rewriting == {"decompressing", "writing"}

Closing == {"Done", "Error", "EOF"}
Kinds == {"detecting", "scanning", "changes", "no changes", "waiting", "tombstoning", "compacting",
          "collected", "compacted", "complete"} \cup Working \cup Closing
Events == [is : Kinds, n : Nat]

\* Events that set the bar to the number they carry.
Resetting == {"preparing", "decompressing", "writing"}

DisplayTypeInv ==
  /\ phase \in Phases /\ counter \in 0 .. Files /\ taken \subseteq 1 .. Files
  /\ channel \in Seq(Events)
  /\ position \in Nat /\ built \in Nat
  /\ result \in Closing \cup {"none"}
  /\ taken # {} => phase \in Working

\* A new bar for the compaction is begun by an event after the i-th.
Renewed(s, i, j) == \E k \in (i + 1) .. (j - 1) : s[k].is = "collected"

\* After an event of built files no event of the channel puts the same bar back.
Ordered(s) ==
  \A i, j \in 1 .. Len(s) :
    i < j /\ s[i].is = "building" /\ s[j].is \in Resetting => Renewed(s, i, j)

\* Nor does one that is on its way when built files are shown.
Kept(s) == \A j \in 1 .. Len(s) : s[j].is \in Resetting => Renewed(s, 0, j)

\* What the catch-up may send next fits what it has sent.
Fits(s, b) ==
  /\ phase \in Unbuilt => b = 0 /\ \A i \in 1 .. Len(s) : s[i].is # "building"
  /\ phase \in Rewriting =>
       /\ b # 0 => Renewed(s, 0, Len(s) + 1)
       /\ \A i \in 1 .. Len(s) : s[i].is = "building" => Renewed(s, i, Len(s) + 1)

OrderInv ==
  /\ Ordered(channel)
  /\ built # 0 => Kept(channel)
  /\ Fits(channel, built)
  /\ bar = "none" => built = 0

DisplayIndInv == DisplayTypeInv /\ OrderInv /\ OneIndicator

(* The display starts with nothing on the terminal. *)
LEMMA DisplayInitInv == DisplayInit => DisplayIndInv
<1> SUFFICES ASSUME DisplayInit PROVE DisplayIndInv
  OBVIOUS
<1>1. channel \in Seq(Events) /\ Len(channel) = 0
  BY DEF DisplayInit
<1>2. DisplayTypeInv
  BY <1>1, ReindexDisplayAssumption DEF DisplayInit, DisplayTypeInv, Phases, Closing
<1>3. OrderInv
  BY <1>1 DEF DisplayInit, OrderInv, Ordered, Kept, Fits, Rewriting
<1> QED BY <1>2, <1>3 DEF DisplayInit, DisplayIndInv, OneIndicator

\* Appending an event that may follow keeps the order.
LEMMA AppendOrdered ==
  ASSUME NEW s \in Seq(Events), NEW e \in Events, NEW b \in Nat, Ordered(s), b # 0 => Kept(s),
         e.is \in Resetting =>
           /\ b # 0 => Renewed(s, 0, Len(s) + 1)
           /\ \A i \in 1 .. Len(s) : s[i].is = "building" => Renewed(s, i, Len(s) + 1)
  PROVE  /\ Append(s, e) \in Seq(Events)
         /\ Len(Append(s, e)) = Len(s) + 1
         /\ \A i \in 1 .. Len(s) : Append(s, e)[i] = s[i]
         /\ Append(s, e)[Len(s) + 1] = e
         /\ Ordered(Append(s, e)) /\ (b # 0 => Kept(Append(s, e)))
         /\ \A i \in 0 .. Len(s) : Renewed(s, i, Len(s) + 1) => Renewed(Append(s, e), i, Len(s) + 2)
<1> DEFINE t == Append(s, e)
<1>1. /\ t \in Seq(Events) /\ Len(t) = Len(s) + 1 /\ Len(s) \in Nat
      /\ \A i \in 1 .. Len(s) : t[i] = s[i]
      /\ t[Len(s) + 1] = e
  OBVIOUS
<1> HIDE DEF t
<1>2. \A i \in 0 .. Len(s), j \in 1 .. Len(s) + 1 : Renewed(s, i, j) => Renewed(t, i, j)
  BY <1>1 DEF Renewed
<1>3. \A i \in 0 .. Len(s) : Renewed(s, i, Len(s) + 1) => Renewed(t, i, Len(s) + 2)
  BY <1>1 DEF Renewed
<1>4. Ordered(t)
  <2> SUFFICES ASSUME NEW i \in 1 .. Len(t), NEW j \in 1 .. Len(t), i < j, t[i].is = "building",
                      t[j].is \in Resetting
               PROVE  Renewed(t, i, j)
    BY DEF Ordered
  <2>1. CASE j = Len(s) + 1
    BY <2>1, <1>1, <1>2
  <2>2. CASE j # Len(s) + 1
    BY <2>2, <1>1, <1>2 DEF Ordered
  <2> QED BY <2>1, <2>2
<1>5. ASSUME b # 0 PROVE Kept(t)
  BY <1>1, <1>2, <1>5 DEF Kept
<1> QED BY <1>1, <1>3, <1>4, <1>5 DEF t

\* Sending keeps the order, when the new phase asks for no more than the old one or the event.
LEMMA SendFits ==
  ASSUME DisplayIndInv, NEW e \in Events, NEW to \in Phases, phase' = to, channel' = Append(channel, e),
         UNCHANGED <<spinner, bar, position, built, result>>,
         e.is \in Resetting => phase \in Rewriting \cup {"preparing"},
         e.is = "building" => to \notin Unbuilt \cup Rewriting,
         to \in Unbuilt => phase \in Unbuilt,
         to \in Rewriting => phase \in Rewriting \/ e.is = "collected",
         to \in Working => phase = to \/ taken' = {},
         taken' \subseteq 1 .. Files, counter' \in 0 .. Files,
         taken' # {} => to \in Working
  PROVE  DisplayIndInv'
<1> DEFINE n == Len(channel)
<1>a. channel \in Seq(Events) /\ built \in Nat
  BY DEF DisplayIndInv, DisplayTypeInv
<1>1. channel \in Seq(Events) /\ n \in Nat /\ built \in Nat
  BY <1>a
<1>2. e.is \in Resetting =>
           /\ built # 0 => Renewed(channel, 0, n + 1)
           /\ \A i \in 1 .. n : channel[i].is = "building" => Renewed(channel, i, n + 1)
  BY DEF DisplayIndInv, OrderInv, Fits, Unbuilt
<1>3. /\ channel' \in Seq(Events)
      /\ Len(channel') = n + 1
      /\ \A i \in 1 .. n : channel'[i] = channel[i]
      /\ channel'[n + 1] = e
      /\ Ordered(channel') /\ (built # 0 => Kept(channel'))
      /\ \A i \in 0 .. n : Renewed(channel, i, n + 1) => Renewed(channel', i, n + 2)
  BY <1>1, <1>2, AppendOrdered DEF DisplayIndInv, OrderInv
<1>4. DisplayTypeInv'
  BY <1>3 DEF DisplayIndInv, DisplayTypeInv
<1>5. Fits(channel, built)'
  <2>1. ASSUME to \in Unbuilt PROVE built = 0 /\ \A i \in 1 .. n + 1 : channel'[i].is # "building"
    BY <2>1, <1>1, <1>3 DEF DisplayIndInv, OrderInv, Fits
  <2>2. ASSUME to \in Rewriting, e.is = "collected"
        PROVE  \A i \in 0 .. n : Renewed(channel', i, n + 2)
    BY <2>2, <1>1, <1>3 DEF Renewed
  <2>3. ASSUME to \in Rewriting
        PROVE  /\ built # 0 => Renewed(channel', 0, n + 2)
               /\ \A i \in 1 .. n + 1 : channel'[i].is = "building" => Renewed(channel', i, n + 2)
    <3>1. e.is # "building"
      BY <2>3
    <3>2. CASE e.is = "collected"
      BY <2>3, <2>2, <3>1, <3>2, <1>1, <1>3
    <3>3. CASE phase \in Rewriting
      <4>1. /\ built # 0 => Renewed(channel, 0, n + 1)
            /\ \A i \in 1 .. n : channel[i].is = "building" => Renewed(channel, i, n + 1)
        BY <3>3 DEF DisplayIndInv, OrderInv, Fits
      <4> HIDE DEF n
      <4> QED BY <4>1, <3>1, <1>1, <1>3
    <3> QED BY <2>3, <3>2, <3>3
  <2> QED BY <2>1, <2>3, <1>1, <1>3 DEF Fits
<1>6. OneIndicator'
  BY DEF DisplayIndInv, OneIndicator
<1> QED BY <1>3, <1>4, <1>5, <1>6 DEF DisplayIndInv, OrderInv

\* Going on without an event.
LEMMA QuietFits ==
  ASSUME DisplayIndInv, phase' \in Phases, UNCHANGED <<channel, spinner, bar, position, built, result>>,
         taken' \subseteq 1 .. Files, counter' \in 0 .. Files, taken' # {} => phase' \in Working,
         phase' \in Unbuilt => phase \in Unbuilt, phase' \in Rewriting => phase \in Rewriting
  PROVE  DisplayIndInv'
  BY DEF DisplayIndInv, DisplayTypeInv, OrderInv, Fits, OneIndicator

\* Reading the head of the channel keeps what is said of the rest.
LEMMA ReadOrdered ==
  ASSUME NEW s \in Seq(Events), s # <<>>, NEW b \in Nat, NEW c \in Nat, Ordered(s),
         b # 0 => Kept(s), Fits(s, b),
         c # 0 => (b # 0 /\ Head(s).is # "collected") \/ Head(s).is = "building"
  PROVE  /\ Tail(s) \in Seq(Events) /\ Head(s) \in Events
         /\ Ordered(Tail(s)) /\ (c # 0 => Kept(Tail(s))) /\ Fits(Tail(s), c)
<1> DEFINE t == Tail(s)
           m == Len(s)
<1>1. /\ t \in Seq(Events) /\ m \in Nat \ {0} /\ Len(t) = m - 1
      /\ \A i \in 1 .. Len(t) : t[i] = s[i + 1]
      /\ Head(s) = s[1] /\ s[1] \in Events
  OBVIOUS
<1> HIDE DEF t, m
<1>2. \A i \in 0 .. m, j \in 1 .. m : Renewed(s, i + 1, j + 1) => Renewed(t, i, j)
  <2> SUFFICES ASSUME NEW i \in 0 .. m, NEW j \in 1 .. m, NEW k \in ((i + 1) + 1) .. ((j + 1) - 1), s[k].is = "collected"
               PROVE  \E l \in (i + 1) .. (j - 1) : t[l].is = "collected"
    BY <1>1 DEF Renewed
  <2>1. k - 1 \in (i + 1) .. (j - 1) /\ k - 1 \in 1 .. Len(t) /\ (k - 1) + 1 = k
    BY <1>1
  <2> QED BY <2>1, <1>1
<1>3. ASSUME c # 0, NEW j \in 2 .. m + 1,
             (Head(s).is = "building" => Renewed(s, 1, j)), (b # 0 => Renewed(s, 0, j))
      PROVE  Renewed(t, 0, j - 1)
  <2>1. CASE Head(s).is = "building"
    BY <2>1, <1>1, <1>2, <1>3
  <2>2. CASE b # 0 /\ Head(s).is # "collected"
    <3>1. PICK k \in 1 .. (j - 1) : s[k].is = "collected"
      BY <2>2, <1>1, <1>3 DEF Renewed
    <3>2. k # 1
      BY <2>2, <3>1, <1>1
    <3>3. Renewed(s, 1, j)
      BY <3>1, <3>2, <1>1 DEF Renewed
    <3> QED BY <3>3, <1>1, <1>2
  <2> QED BY <2>1, <2>2, <1>3
<1>4. Ordered(t)
  <2> SUFFICES ASSUME NEW i \in 1 .. Len(t), NEW j \in 1 .. Len(t), i < j, t[i].is = "building",
                      t[j].is \in Resetting
               PROVE  Renewed(t, i, j)
    BY DEF Ordered
  <2>1. i + 1 \in 1 .. m /\ j + 1 \in 1 .. m /\ s[i + 1].is = "building" /\ s[j + 1].is \in Resetting
    BY <1>1
  <2>2. Renewed(s, i + 1, j + 1)
    BY <2>1, <1>1 DEF Ordered, m
  <2> QED BY <2>2, <1>1, <1>2
<1>5. ASSUME c # 0 PROVE Kept(t)
  <2> SUFFICES ASSUME NEW j \in 1 .. Len(t), t[j].is \in Resetting
               PROVE  Renewed(t, 0, j)
    BY DEF Kept
  <2>1. j + 1 \in 2 .. m /\ s[j + 1].is \in Resetting
    BY <1>1
  <2>2. (Head(s).is = "building" => Renewed(s, 1, j + 1)) /\ (b # 0 => Renewed(s, 0, j + 1))
    BY <2>1, <1>1 DEF Ordered, Kept, m
  <2>3. Renewed(t, 0, (j + 1) - 1)
    BY <2>1, <2>2, <1>5, <1>3, <1>1
  <2> QED BY <2>3
<1>6. Fits(t, c)
  <2>1. ASSUME phase \in Unbuilt PROVE c = 0 /\ \A i \in 1 .. Len(t) : t[i].is # "building"
    BY <2>1, <1>1 DEF Fits, m
  <2>2. ASSUME phase \in Rewriting, c # 0 PROVE Renewed(t, 0, Len(t) + 1)
    <3>1. (Head(s).is = "building" => Renewed(s, 1, m + 1)) /\ (b # 0 => Renewed(s, 0, m + 1))
      BY <2>2, <1>1 DEF Fits, m
    <3>2. Renewed(t, 0, (m + 1) - 1)
      BY <3>1, <1>1, <1>3, <2>2
    <3> QED BY <3>2, <1>1
  <2>3. ASSUME phase \in Rewriting, NEW i \in 1 .. Len(t), t[i].is = "building" PROVE Renewed(t, i, Len(t) + 1)
    <3>1. i + 1 \in 1 .. m /\ s[i + 1].is = "building"
      BY <2>3, <1>1
    <3>2. Renewed(s, i + 1, m + 1)
      BY <2>3, <3>1 DEF Fits, m
    <3> QED BY <3>2, <1>1, <1>2
  <2> QED BY <2>1, <2>2, <2>3 DEF Fits
<1> QED BY <1>1, <1>4, <1>5, <1>6 DEF t

\* The command reads a frame.
LEMMA ReadInv == ASSUME DisplayIndInv, ReadFrame PROVE DisplayIndInv'
<1> DEFINE e == Head(channel)
<1>1. /\ channel \in Seq(Events) /\ channel # <<>> /\ built \in Nat /\ position \in Nat
      /\ result = "none"
  BY DEF DisplayIndInv, DisplayTypeInv, ReadFrame
<1>2. e \in Events /\ e.is \in Kinds /\ e.n \in Nat
  <2>1. e \in Events
    BY <1>1
  <2> QED BY <2>1 DEF Events
<1>3. /\ Handle(e)
      /\ result' = IF e.is \in {"Done", "Error", "EOF"} THEN e.is ELSE "none"
      /\ built' = IF e.is = "building" /\ bar # "none" /\ e.n > built THEN e.n
                  ELSE IF bar' = "none" \/ e.is \in {"changes", "collected"} THEN 0 ELSE built
      /\ channel' = Tail(channel) /\ UNCHANGED <<phase, counter, taken>>
  BY DEF ReadFrame
<1> HIDE DEF e
<1>4. /\ position' \in Nat /\ built' \in Nat
      /\ result' \in Closing \cup {"none"}
      /\ (spinner = "none" \/ bar = "none") => (spinner' = "none" \/ bar' = "none")
      /\ result' # "none" => spinner' = "none" /\ bar' = "none"
  <2>1. position' \in {0, position, e.n} /\ built' \in {0, built, e.n}
    BY <1>2, <1>3 DEF Handle, Shows, ShowBuilding, Kinds, Working, Closing
  <2>2. result' \in Closing \cup {"none"}
    BY <1>3 DEF Closing
  <2>3. (spinner = "none" \/ bar = "none") => (spinner' = "none" \/ bar' = "none")
    BY <1>2, <1>3 DEF Handle, Shows, ShowBuilding, Kinds, Working, Closing
  <2>4. result' # "none" => spinner' = "none" /\ bar' = "none"
    BY <1>2, <1>3 DEF Handle, Shows
  <2> QED BY <2>1, <2>2, <2>3, <2>4, <1>1, <1>2
<1>5. bar' = "none" => built' = 0
  BY <1>1, <1>2, <1>3, <1>4 DEF Handle, Shows, ShowBuilding
<1>6. built' # 0 => (built # 0 /\ e.is # "collected") \/ e.is = "building"
  BY <1>1, <1>2, <1>3
<1>7. channel' \in Seq(Events) /\ Ordered(channel') /\ (built' # 0 => Kept(channel')) /\ Fits(channel', built')
  BY <1>1, <1>3, <1>4, <1>6, ReadOrdered DEF DisplayIndInv, OrderInv, e
<1>8. DisplayTypeInv'
  BY <1>3, <1>4, <1>7 DEF DisplayIndInv, DisplayTypeInv
<1>9. OrderInv'
  BY <1>3, <1>5, <1>7 DEF OrderInv, Fits
<1>10. bar' # "none" => position' >= built'
  <2> SUFFICES ASSUME bar' # "none" PROVE position' >= built'
    OBVIOUS
  <2>1. bar # "none" => position >= built
    BY DEF DisplayIndInv, OneIndicator
  <2>2. bar = "none" => built = 0
    BY DEF DisplayIndInv, OrderInv
  <2>3. CASE e.is \in Resetting
    <3>1. built = 0
      <4> SUFFICES ASSUME built # 0 PROVE FALSE
        OBVIOUS
      <4>1. Len(channel) \in Nat /\ 1 \in 1 .. Len(channel) /\ channel[1] = e
        BY <1>1 DEF e
      <4>2. Renewed(channel, 0, 1)
        BY <4>1, <2>3 DEF DisplayIndInv, OrderInv, Kept
      <4> QED BY <4>2 DEF Renewed
    <3> QED BY <2>3, <3>1, <1>2, <1>3, <1>4 DEF Resetting
  <2>4. CASE e.is = "building"
    BY <2>4, <2>1, <2>2, <1>1, <1>2, <1>3 DEF Handle, Shows, ShowBuilding
  <2>5. CASE e.is \notin Resetting \cup {"building"}
    <3>1. (bar' = bar /\ position' = position) \/ e.is \in {"changes", "collected"}
      BY <2>5, <1>2, <1>3 DEF Handle, Shows, Resetting, Kinds, Working, Closing
    <3>2. built' \in {0, built}
      BY <2>5, <1>3
    <3>3. e.is \in {"changes", "collected"} => built' = 0
      BY <2>5, <1>3
    <3> QED BY <3>1, <3>2, <3>3, <2>1, <1>1, <1>4
  <2> QED BY <2>3, <2>4, <2>5
<1> QED BY <1>4, <1>8, <1>9, <1>10 DEF DisplayIndInv, OneIndicator

\* A step of the catch-up that is no worker's.
LEMMA ProgressInv ==
  ASSUME DisplayIndInv, NEW from \in Phases, NEW is \in Kinds, NEW to \in Phases,
         Progress(from, Event(is), to), taken = {},
         is \notin Working, to \notin Unbuilt \/ from \in Unbuilt,
         to \in Rewriting => from \in Rewriting \/ is = "collected"
  PROVE  DisplayIndInv'
<1>1. Event(is) \in Events /\ Event(is).is = is
  BY DEF Event, Events
<1>2. /\ phase = from /\ phase' = to /\ channel' = Append(channel, Event(is)) /\ counter' = 0
      /\ UNCHANGED <<taken, spinner, bar, position, built, result>>
  BY DEF Progress
<1>3. is \notin Resetting /\ is # "building"
  BY DEF Resetting, Working
<1> QED BY <1>1, <1>2, <1>3, SendFits, ReindexDisplayAssumption

(* A step of the daemon that sends no number keeps the invariant if it does not go back to
   building or rewriting. *)
LEMMA QuietlyInv ==
  ASSUME DisplayIndInv, NEW from \in Phases, NEW to \in Phases, Quietly(from, to), taken = {},
         to \notin Unbuilt \/ from \in Unbuilt, to \notin Rewriting \/ from \in Rewriting
  PROVE  DisplayIndInv'
  BY QuietFits, ReindexDisplayAssumption DEF Quietly

(* A number sent, whenever its worker comes to it, keeps the invariant. *)
LEMMA SendNumberInv == ASSUME DisplayIndInv, NEW n \in 1 .. Files, SendNumber(n) PROVE DisplayIndInv'
<1>1. phase \in Working /\ taken \subseteq 1 .. Files /\ counter \in 0 .. Files
  BY DEF DisplayIndInv, DisplayTypeInv, SendNumber
<1>2. Kind = phase
  BY <1>1 DEF Kind, Working
<1>3. /\ channel' = Append(channel, Counted(phase, n)) /\ phase' = phase
      /\ UNCHANGED <<spinner, bar, position, built, result>> /\ taken' \subseteq taken /\ counter' = counter
  BY <1>2 DEF SendNumber
<1>4. Counted(phase, n) \in Events /\ Counted(phase, n).is = phase
  <2>0. n \in Nat
    BY ReindexDisplayAssumption
  <2>1. phase \in Kinds
    BY <1>1 DEF Kinds
  <2>2. Counted(phase, n) = [is |-> phase, n |-> n]
    BY DEF Counted
  <2> QED BY <2>0, <2>1, <2>2 DEF Events
<1>5. phase \in Phases /\ (phase \in Resetting => phase \in Rewriting \cup {"preparing"})
      /\ (phase = "building" => phase \notin Unbuilt \cup Rewriting)
  BY <1>1 DEF Phases, Working, Resetting, Unbuilt, Rewriting
<1> QED BY <1>1, <1>3, <1>4, <1>5, SendFits

(* Every step keeps types and order. *)
LEMMA DisplayNextInv == ASSUME DisplayIndInv, [DisplayNext]_displayVars PROVE DisplayIndInv'
<1> USE DEF Phases, Kinds, Working, Closing, Unbuilt, Rewriting
<1>0. phase \in Phases /\ (taken # {} => phase \in Working)
  BY DEF DisplayIndInv, DisplayTypeInv
<1>1. CASE DetectingChanges \/ ScanningFallback
  BY <1>0, <1>1, ProgressInv DEF DetectingChanges, ScanningFallback, Progress
<1>2. CASE ChangesDetected
  BY <1>0, <1>2, ProgressInv DEF ChangesDetected, Progress
<1>3. CASE NoChanges
  BY <1>0, <1>3, ProgressInv DEF NoChanges, Progress
<1>4. CASE WaitingForLock \/ CompactingSegments \/ CompactingCollected \/ Complete
  BY <1>0, <1>4, ProgressInv DEF WaitingForLock, CompactingSegments, CompactingCollected, Complete, Progress
<1>5. CASE LockFree \/ ShouldCompact \/ ShouldNotCompact \/ NothingToCompact
  BY <1>0, <1>5, QuietlyInv DEF LockFree, ShouldCompact, ShouldNotCompact, NothingToCompact, Quietly
<1>6. CASE TakeNumber
  <2>1. counter \in 0 .. Files /\ taken \subseteq 1 .. Files
    BY DEF DisplayIndInv, DisplayTypeInv
  <2>2. counter' \in 0 .. Files /\ taken' \subseteq 1 .. Files
    BY <1>6, <2>1, ReindexDisplayAssumption DEF TakeNumber
  <2> QED BY <1>0, <1>6, <2>2, QuietFits DEF TakeNumber
<1>7. CASE WorkersEnd
  <2>1. taken = {}
    BY <1>7 DEF WorkersEnd
  <2>2. CASE Progress("writing", Event("compacted"), "completing")
    BY <2>1, <2>2, ProgressInv
  <2>3. CASE Quietly("preparing", "building") \/ Quietly("building", "burying") \/ Quietly("decompressing", "writing")
    BY <2>1, <2>3, QuietlyInv
  <2> QED BY <1>7, <2>2, <2>3 DEF WorkersEnd
<1>8. CASE Tombstoning
  <2>1. taken = {}
    BY <1>0, <1>8 DEF Tombstoning, Progress, Quietly
  <2> QED BY <1>8, <2>1, ProgressInv, QuietlyInv DEF Tombstoning
<1>9. CASE LastFrame
  <2>1. CASE Progress("done", Event("Done"), "over")
    BY <1>0, <2>1, ProgressInv DEF Progress
  <2>2. CASE taken = {} /\ \E e \in {"Error", "EOF"} : Progress(phase, Event(e), "over")
    BY <1>0, <2>2, ProgressInv
  <2> QED BY <1>9, <2>1, <2>2 DEF LastFrame
<1>10. CASE \E n \in 1 .. Files : SendNumber(n)
  BY <1>10, SendNumberInv
<1>11. CASE ReadFrame
  BY <1>11, ReadInv
<1>12. CASE UNCHANGED displayVars
  BY <1>12 DEF displayVars, DisplayIndInv, DisplayTypeInv, OrderInv, Fits, OneIndicator
<1> QED
  BY <1>1, <1>2, <1>3, <1>4, <1>5, <1>6, <1>7, <1>8, <1>9, <1>10, <1>11, <1>12 DEF DisplayNext

\* For every number of files and every order in which the workers' numbers reach the channel, a
\* spinner and a bar never share the terminal, the command leaves nothing on it, and the bar is
\* never below a number of built files it was told (reindex_display.rs:53-72, 165-185, 256-285).
THEOREM ShowsOneIndicator == DisplaySpec => []OneIndicator
<1>1. DisplayIndInv => OneIndicator
  BY DEF DisplayIndInv
<1> QED BY DisplayInitInv, DisplayNextInv, <1>1, PTL DEF DisplaySpec

-----------------------------------------------------------------------------
(* The search page.  The selection needs only that every swap drops it.    *)
(* That the page shows what its form says needs to know where the form's   *)
(* search is: waiting for its delay, under way, queued behind an older     *)
(* request of the same element, or shown.                                  *)

Forms     == [q : Texts, repo : Repos, mode : Modes]
Requests  == [q : Texts, repo : Repos, mode : Modes, page : Nat \ {0}]
Dialogues == [open : BOOLEAN, q : Texts, items : Seq(STRING), selected : Int, lit : Int]

PageTypeInv ==
  /\ sidebar \subseteq Repos /\ form \in Forms /\ url \in Forms
  /\ timer \subseteq {"search", "quick"} /\ queued \subseteq Elements \ {"page"}
  /\ flight \in [Elements -> Requests \cup {NoRequest}]
  /\ shown.asked \in Requests /\ shown.items \in Seq(STRING) /\ selected \in Int /\ lit \in Int
  /\ quick \in Dialogues /\ trusted \in BOOLEAN

\* The index is that of the highlight, and within the results.
Points(i, l, n) == i # None => i = l /\ i >= 0 /\ i < n

SelectInv ==
  /\ Points(selected, lit, Len(FileResults(shown)))
  /\ Points(quick.selected, quick.lit, Len(quick.items))

\* While answers are trusted one request at most is under way, and if a repository sent it, that
\* is the one the form has.
OneAtWork ==
  trusted => /\ \A a, b \in Busy(flight) : a = b
             /\ \A r \in Busy(flight) \cap Repos : form.repo = r

\* The form's search waits for its delay, is queued, or is the one under way.
FormUnderWay ==
  trusted /\ "search" \notin timer => \A e \in Busy(flight) \ queued : Agrees(flight[e])

\* With nothing under way, it is what the page shows and what the address stands for.
FormShown ==
  trusted /\ "search" \notin timer /\ Busy(flight) = {} => Agrees(shown.asked) /\ Agrees(url)

\* Only text results have further pages.
PagesAreText == shown.pages > 1 => shown.asked.mode = "text"

AskInv == OneAtWork /\ FormUnderWay /\ FormShown /\ PagesAreText

PageInv == PageTypeInv /\ SelectInv /\ AskInv

-----------------------------------------------------------------------------
(* Operators. *)

\* The elements have different names.
LEMMA Names ==
  /\ Registered \subseteq Repos /\ FirstRepo \in Repos
  /\ \A r \in Repos : r # "search" /\ r # "page" /\ r # "quick"
  /\ ResultElements \subseteq Elements /\ "quick" \in Elements /\ "quick" \notin ResultElements
  /\ "search" \in ResultElements /\ "page" \in ResultElements /\ Repos \subseteq ResultElements
  /\ \A e \in Elements : e = "quick" \/ e = "page" \/ e = "search" \/ e \in Repos
  BY WebServerAssumption, WebPageAssumption DEF Elements, ResultElements

\* The form's texts and modes.
LEMMA FormFields ==
  ASSUME NEW f \in Forms PROVE f.q \in Texts /\ f.repo \in Repos /\ f.mode \in Modes
  BY DEF Forms

\* What an element asks for.
LEMMA RequestOfIs ==
  ASSUME NEW e \in Elements \ {"page"}, NEW f \in Forms, quick.q \in Texts
  PROVE  /\ RequestOf(e, f) \in Requests
         /\ e # "quick" => /\ RequestOf(e, f).q = f.q /\ RequestOf(e, f).mode = f.mode
                           /\ RequestOf(e, f).repo = IF e = "search" THEN f.repo ELSE e
<1>1. "symbol" \in Modes /\ 1 \in Nat \ {0}
  BY DEF Modes
<1>2. CASE e = "quick"
  BY <1>1, <1>2, FormFields DEF RequestOf, Request, Requests
<1>3. CASE e = "search"
  BY <1>1, <1>3, FormFields DEF RequestOf, Request, Requests
<1>4. CASE e \in Repos
  BY <1>1, <1>4, FormFields, Names DEF RequestOf, Request, Requests
<1> QED BY <1>2, <1>3, <1>4, Names

\* No request is the absence of one.
LEMMA IsRequest == ASSUME NEW r \in Requests PROVE r # NoRequest
  BY DEF Requests, NoRequest, Request

\* A page of results.
LEMMA PageItems ==
  ASSUME NEW r \in Repos, NEW q \in Queries, NEW page \in Nat \ {0}
  PROVE  DaemonPage(r, q, page).items \in Seq(STRING)
<1> DEFINE n == Smaller(page * PerPage, Len(Found[r][q]))
           all == SubSeq(Found[r][q], 1, n)
           m == (page - 1) * PerPage + 1
<1>1. Found[r][q] \in Seq(STRING) /\ PerPage \in Nat \ {0}
  BY WebServerAssumption
<1>2. Len(Found[r][q]) \in Nat /\ \A i \in 1 .. Len(Found[r][q]) : Found[r][q][i] \in STRING
  BY <1>1
<1>3. page * PerPage \in Nat /\ (page - 1) \in Nat
  BY <1>1
<1>4. (page - 1) * PerPage \in Nat
  BY <1>1, <1>3
<1>5. n \in Nat /\ n <= Len(Found[r][q]) /\ m \in Nat /\ m >= 1
  BY <1>2, <1>3, <1>4 DEF Smaller
<1>6. DaemonPage(r, q, page).items = SubSeq(all, m, Len(all))
  BY DEF DaemonPage
<1> HIDE DEF n, m
<1>7. all \in Seq(STRING)
  <2>1. \A i \in 1 .. n : Found[r][q][i] \in STRING
    BY <1>2, <1>5
  <2> QED BY <2>1, <1>5, SubSeqProperties
<1> HIDE DEF all
<1>8. Len(all) \in Nat /\ \A i \in 1 .. Len(all) : all[i] \in STRING
  BY <1>7
<1>9. \A i \in m .. Len(all) : all[i] \in STRING
  BY <1>5, <1>8
<1> QED BY <1>5, <1>6, <1>8, <1>9, SubSeqProperties

\* The fragments answer the request they are for.
LEMMA FragmentIs ==
  ASSUME NEW r \in Requests
  PROVE  /\ SymbolResultsFragment(r).items \in Seq(STRING)
         /\ SearchResultsFragment(r).asked = r /\ SearchResultsFragment(r).items \in Seq(STRING)
         /\ SearchResultsFragment(r).pages > 1 => r.mode = "text"
<1>1. r.q \in Texts /\ r.repo \in Repos /\ r.mode \in Modes /\ r.page \in Nat \ {0}
  BY DEF Requests
<1>2. r.q # NoText => r.q \in Queries
  BY <1>1 DEF Texts
<1>3. /\ EmptyFragment(r).asked = r /\ EmptyFragment(r).items = <<>> /\ EmptyFragment(r).pages = 0
  BY DEF EmptyFragment, Fragment
<1>4. <<>> \in Seq(STRING)
  OBVIOUS
<1>5. /\ SymbolResultsFragment(r).asked = r /\ SymbolResultsFragment(r).pages = 0
      /\ SymbolResultsFragment(r).items \in Seq(STRING)
  BY <1>1, <1>2, <1>3, <1>4, WebServerAssumption DEF SymbolResultsFragment, Fragment
<1>6. CASE r.mode = "symbol"
  BY <1>5, <1>6 DEF SearchResultsFragment
<1>7. CASE r.mode # "symbol"
  <2>1. r.mode = "text"
    BY <1>1, <1>7 DEF Modes
  <2>2. CASE r.q = NoText \/ r.repo \notin Registered
    BY <1>3, <1>4, <1>5, <1>7, <2>1, <2>2 DEF SearchResultsFragment
  <2>3. CASE ~(r.q = NoText \/ r.repo \notin Registered)
    <3> DEFINE d == DaemonPage(r.repo, r.q, r.page)
    <3>1. SearchResultsFragment(r) = Fragment(r, d.items, d.pages, d.hasNext)
      BY <1>7, <2>3 DEF SearchResultsFragment
    <3>2. d.items \in Seq(STRING)
      BY <1>1, <1>2, <2>3, PageItems
    <3> HIDE DEF d
    <3> QED BY <1>5, <2>1, <3>1, <3>2 DEF Fragment
  <2> QED BY <2>2, <2>3
<1> QED BY <1>6, <1>7

\* What is trusted has one request under way at most.
LEMMA AtMostOne ==
  ASSUME NEW fl, ~(Cardinality(Busy(fl)) > 1)
  PROVE  \A a, b \in Busy(fl) : a = b
<1> SUFFICES ASSUME NEW a \in Busy(fl), NEW b \in Busy(fl), a # b PROVE FALSE
  OBVIOUS
<1>1. IsFiniteSet({"search", "page"}) /\ IsFiniteSet(Repos)
  <2>1. IsFiniteSet({"search"})
    BY FS_Singleton
  <2>2. {"search", "page"} = {"search"} \cup {"page"}
    OBVIOUS
  <2> QED BY <2>1, <2>2, FS_AddElement, WebPageAssumption
<1>2. IsFiniteSet(ResultElements)
  BY <1>1, FS_Union DEF ResultElements
<1>3. IsFiniteSet(Busy(fl))
  BY <1>2, FS_Subset DEF Busy
<1>4. {a, b} \subseteq Busy(fl) /\ Cardinality({a, b}) = 2
  <2>1. IsFiniteSet({a}) /\ Cardinality({a}) = 1
    BY FS_Singleton
  <2>2. b \notin {a} /\ {a} \cup {b} = {a, b}
    OBVIOUS
  <2> QED BY <2>1, <2>2, FS_AddElement
<1>5. Cardinality({a, b}) <= Cardinality(Busy(fl)) /\ Cardinality(Busy(fl)) \in Nat
  BY <1>3, <1>4, FS_Subset, FS_CardinalityType
<1> QED BY <1>4, <1>5

-----------------------------------------------------------------------------
(* The parts of the invariant the actions share. *)

\* Sending the form's search, from the input or from the repository it has, or queueing it.
LEMMA SendAsk ==
  ASSUME PageInv, NEW e \in Repos \cup {"search"}, form' \in Forms, e \in Repos => form'.repo = e,
         Send(e, form'), UNCHANGED shown
  PROVE  /\ flight' \in [Elements -> Requests \cup {NoRequest}] /\ queued' \subseteq Elements \ {"page"}
         /\ trusted' \in BOOLEAN /\ AskInv'
<1>0. /\ e \in Elements /\ e \in ResultElements /\ e # "quick" /\ e # "page"
  BY Names
<1>a. /\ flight \in [Elements -> Requests \cup {NoRequest}] /\ queued \subseteq Elements \ {"page"}
      /\ trusted \in BOOLEAN /\ quick.q \in Texts
  BY DEF PageInv, PageTypeInv, Dialogues
<1>1. CASE flight[e] # NoRequest
  <2>1. queued' = queued \cup {e} /\ flight' = flight /\ trusted' = trusted
    BY <1>1 DEF Send
  <2>2. e \in Busy(flight)
    BY <1>0, <1>1 DEF Busy
  <2>3. trusted => \A a \in Busy(flight) : a = e
    BY <2>2 DEF PageInv, AskInv, OneAtWork
  <2>4. OneAtWork'
    BY <2>1, <2>3 DEF OneAtWork
  <2>5. FormUnderWay'
    BY <2>1, <2>3 DEF FormUnderWay
  <2>6. FormShown'
    BY <2>1, <2>2 DEF FormShown
  <2> QED BY <1>0, <1>a, <2>1, <2>4, <2>5, <2>6 DEF AskInv, PageInv, PagesAreText
<1>2. CASE flight[e] = NoRequest
  <2>1. /\ flight' = [flight EXCEPT ![e] = RequestOf(e, form')] /\ queued' = queued
        /\ trusted' = Trust(flight', flight'[e].repo = form'.repo)
    BY <1>0, <1>2 DEF Send
  <2>2. /\ RequestOf(e, form') \in Requests
        /\ RequestOf(e, form').q = form'.q /\ RequestOf(e, form').mode = form'.mode
        /\ RequestOf(e, form').repo = form'.repo
    BY <1>0, <1>a, RequestOfIs
  <2>3. flight'[e] = RequestOf(e, form') /\ flight' \in [Elements -> Requests \cup {NoRequest}]
    BY <1>0, <1>a, <2>1, <2>2
  <2>4. e \in Busy(flight')
    BY <1>0, <2>2, <2>3, IsRequest DEF Busy
  <2>5. trusted' \in BOOLEAN
    BY <1>a, <2>1, <2>3 DEF Trust
  <2>6. trusted' => \A a \in Busy(flight') : a = e
    BY <2>1, <2>4, AtMostOne DEF Trust
  <2>7. OneAtWork'
    BY <2>6 DEF OneAtWork
  <2>8. FormUnderWay'
    <3>1. Agrees(flight[e])'
      BY <2>2, <2>3 DEF Agrees
    <3> QED BY <2>6, <3>1 DEF FormUnderWay
  <2>9. FormShown'
    BY <2>4 DEF FormShown
  <2> QED BY <1>a, <2>1, <2>3, <2>5, <2>7, <2>8, <2>9 DEF AskInv, PageInv, PagesAreText
<1> QED BY <1>1, <1>2

\* A step that leaves alone the form and the requests for results.
LEMMA AskStays ==
  ASSUME PageInv, UNCHANGED <<form, shown, url, trusted>>, "search" \in timer <=> "search" \in timer',
         \A e \in ResultElements : flight'[e] = flight[e] /\ (e \in queued <=> e \in queued')
  PROVE  AskInv'
<1>1. Busy(flight') = Busy(flight)
  BY DEF Busy
<1>2. \A e \in Busy(flight) : e \in ResultElements
  BY DEF Busy
<1>3. OneAtWork'
  BY <1>1 DEF PageInv, AskInv, OneAtWork
<1>4. FormUnderWay'
  BY <1>1, <1>2 DEF PageInv, AskInv, FormUnderWay, Agrees
<1>5. FormShown'
  BY <1>1 DEF PageInv, AskInv, FormShown, Agrees
<1> QED BY <1>3, <1>4, <1>5 DEF PageInv, AskInv, PagesAreText

\* The dialogue's request is not for the results.
LEMMA SendQuick ==
  ASSUME PageInv, Send("quick", form), UNCHANGED <<form, shown, url>>, "search" \in timer <=> "search" \in timer'
  PROVE  /\ flight' \in [Elements -> Requests \cup {NoRequest}] /\ queued' \subseteq Elements \ {"page"}
         /\ trusted' \in BOOLEAN /\ AskInv'
<1>a. /\ flight \in [Elements -> Requests \cup {NoRequest}] /\ queued \subseteq Elements \ {"page"}
      /\ trusted \in BOOLEAN /\ quick.q \in Texts /\ form \in Forms
  BY DEF PageInv, PageTypeInv, Dialogues
<1>1. /\ trusted' = trusted /\ queued' \in {queued, queued \cup {"quick"}}
      /\ flight' \in {flight, [flight EXCEPT !["quick"] = RequestOf("quick", form)]}
  BY DEF Send
<1>2. RequestOf("quick", form) \in Requests
  BY <1>a, Names, RequestOfIs
<1>3. flight' \in [Elements -> Requests \cup {NoRequest}] /\ queued' \subseteq Elements \ {"page"}
  BY <1>a, <1>1, <1>2, Names
<1>4. \A e \in ResultElements : flight'[e] = flight[e] /\ (e \in queued <=> e \in queued')
  BY <1>a, <1>1, Names
<1> QED BY <1>a, <1>1, <1>3, <1>4, AskStays

\* After an answer an element sends what it has queued.
LEMMA NextSent ==
  ASSUME PageInv, NEW e \in Elements, SendNext(e)
  PROVE  /\ flight' \in [Elements -> Requests \cup {NoRequest}] /\ queued' \subseteq Elements \ {"page"}
         /\ \A a \in Elements \ {e} : flight'[a] = flight[a] /\ (a \in queued <=> a \in queued')
         /\ e \notin queued'
         /\ flight'[e] = IF e \in queued THEN RequestOf(e, form) ELSE NoRequest
         /\ e \in queued => e # "page" /\ RequestOf(e, form) \in Requests
<1>a. /\ flight \in [Elements -> Requests \cup {NoRequest}] /\ queued \subseteq Elements \ {"page"}
      /\ quick.q \in Texts /\ form \in Forms
  BY DEF PageInv, PageTypeInv, Dialogues
<1>1. e \in queued => e \in Elements \ {"page"} /\ RequestOf(e, form) \in Requests
  BY <1>a, RequestOfIs
<1> QED BY <1>a, <1>1 DEF SendNext

-----------------------------------------------------------------------------
(* The actions. *)

(* A form is its query, repository and mode. *)
LEMMA FormIs == ASSUME NEW f \in Forms PROVE f = [q |-> f.q, repo |-> f.repo, mode |-> f.mode]
  BY DEF Forms

(* A dialogue is its fields, and these are well typed. *)
LEMMA DialogueIs ==
  ASSUME NEW d \in Dialogues
  PROVE  /\ d = [open |-> d.open, q |-> d.q, items |-> d.items, selected |-> d.selected, lit |-> d.lit]
         /\ d.open \in BOOLEAN /\ d.q \in Texts /\ d.items \in Seq(STRING) /\ d.selected \in Int /\ d.lit \in Int
         /\ Len(d.items) \in Nat /\ (d.items # <<>> => Len(d.items) > 0)
<1>1. /\ d = [open |-> d.open, q |-> d.q, items |-> d.items, selected |-> d.selected, lit |-> d.lit]
      /\ d.open \in BOOLEAN /\ d.q \in Texts /\ d.items \in Seq(STRING) /\ d.selected \in Int /\ d.lit \in Int
  BY DEF Dialogues
<1>2. Len(d.items) \in Nat /\ (d.items # <<>> => Len(d.items) > 0)
  BY <1>1
<1> QED BY <1>1, <1>2

\* Steps with the keyboard end within the results.
LEMMA Moves ==
  ASSUME NEW i \in Int, NEW d \in {-1, 1}, NEW n \in Nat, n > 0
  PROVE  LET j == IF i + d < 0 THEN 0 ELSE Smaller(i + d, n - 1) IN j \in Int /\ Points(j, j, n)
  BY DEF Smaller, Points

(* The invariant holds when the page is first loaded. *)
LEMMA PageInitInv == PageInit => PageInv
<1> SUFFICES ASSUME PageInit PROVE PageInv
  OBVIOUS
<1>1. Blank \in Forms /\ Request(NoText, FirstRepo, "text", 1) \in Requests
  BY Names DEF Blank, Forms, Requests, Request, Texts, Modes
<1>2. /\ shown.asked = Request(NoText, FirstRepo, "text", 1) /\ shown.items = <<>> /\ shown.pages = 0
  BY DEF PageInit, EmptyFragment, Fragment
<1>3. quick \in Dialogues /\ quick.selected = None
  BY DEF PageInit, Dialogues, Texts, None
<1>4. PageTypeInv
  <2>1. <<>> \in Seq(STRING) /\ None \in Int
    BY DEF None
  <2>2. /\ sidebar = Repos /\ form = Blank /\ url = Blank /\ timer = {} /\ queued = {} /\ trusted = TRUE
        /\ flight = [e \in Elements |-> NoRequest] /\ selected = None /\ lit = None
    BY DEF PageInit
  <2>3. flight \in [Elements -> Requests \cup {NoRequest}]
    BY <2>2
  <2> QED BY <1>1, <1>2, <1>3, <2>1, <2>2, <2>3 DEF PageTypeInv
<1>5. SelectInv
  <2>1. selected = None
    BY DEF PageInit
  <2> QED BY <1>3, <2>1 DEF SelectInv, Points
<1>6. Busy(flight) = {}
  BY DEF PageInit, Busy, Elements
<1>7. AskInv
  <2>1. Agrees(shown.asked) /\ Agrees(url)
    BY <1>2 DEF Agrees, PageInit, Blank, Request
  <2> QED BY <1>2, <1>6, <2>1 DEF AskInv, OneAtWork, FormUnderWay, FormShown, PagesAreText
<1> QED BY <1>4, <1>5, <1>7 DEF PageInv

(* Typing into the search field keeps the invariant. *)
LEMMA TypeStep == ASSUME PageInv, NEW q \in Texts, Type(q) PROVE PageInv'
<1>1. form' \in Forms /\ form'.q = q
  BY FormIs DEF PageInv, PageTypeInv, Type, Forms
<1>2. /\ "search" \in timer' /\ timer' \subseteq {"search", "quick"} /\ form'.repo = form.repo
      /\ UNCHANGED <<sidebar, flight, queued, shown, selected, lit, url, quick, trusted>>
  BY FormIs DEF PageInv, PageTypeInv, Type, view
<1>3. PageTypeInv'
  BY <1>1, <1>2 DEF PageInv, PageTypeInv
<1>4. AskInv'
  BY <1>2 DEF PageInv, AskInv, OneAtWork, FormUnderWay, FormShown, PagesAreText
<1> QED BY <1>2, <1>3, <1>4 DEF PageInv, SelectInv

(* Choosing a search mode keeps the invariant. *)
LEMMA ModeStep == ASSUME PageInv, NEW m \in Modes, SetSearchMode(m) PROVE PageInv'
<1>1. /\ form' \in Forms /\ form'.q = form.q /\ form'.repo = form.repo
      /\ UNCHANGED <<sidebar, timer, shown, selected, lit, url, quick>>
  BY FormIs DEF PageInv, PageTypeInv, SetSearchMode, Forms, view
<1>2. CASE form.q = NoText
  <2>1. UNCHANGED <<flight, queued, trusted>>
    BY <1>2 DEF SetSearchMode
  <2>2. OneAtWork'
    BY <1>1, <2>1 DEF PageInv, AskInv, OneAtWork
  <2>3. FormUnderWay'
    BY <1>1, <1>2, <2>1 DEF PageInv, AskInv, FormUnderWay, Agrees
  <2>4. FormShown'
    BY <1>1, <1>2, <2>1 DEF PageInv, AskInv, FormShown, Agrees
  <2>5. PageTypeInv'
    BY <1>1, <2>1 DEF PageInv, PageTypeInv
  <2> QED BY <1>1, <2>1, <2>2, <2>3, <2>4, <2>5 DEF PageInv, AskInv, PagesAreText, SelectInv
<1>3. CASE form.q # NoText
  <2>1. Send("search", form')
    BY <1>3 DEF SetSearchMode
  <2>2. "search" \notin Repos
    BY Names
  <2>3. /\ flight' \in [Elements -> Requests \cup {NoRequest}] /\ queued' \subseteq Elements \ {"page"}
        /\ trusted' \in BOOLEAN /\ AskInv'
    BY <1>1, <2>1, <2>2, SendAsk
  <2> QED BY <1>1, <2>3 DEF PageInv, PageTypeInv, SelectInv
<1> QED BY <1>2, <1>3

(* Clicking a repository keeps the invariant. *)
LEMMA ClickStep == ASSUME PageInv, NEW r \in Repos, ClickRepo(r) PROVE PageInv'
<1>1. /\ form' \in Forms /\ form'.repo = r /\ Send(r, form')
      /\ UNCHANGED <<sidebar, timer, shown, selected, lit, url, quick>>
  BY FormIs DEF PageInv, PageTypeInv, ClickRepo, Forms, view
<1>2. /\ flight' \in [Elements -> Requests \cup {NoRequest}] /\ queued' \subseteq Elements \ {"page"}
      /\ trusted' \in BOOLEAN /\ AskInv'
  BY <1>1, SendAsk
<1> QED BY <1>1, <1>2 DEF PageInv, PageTypeInv, SelectInv

\* Keys that leave the requests and the form alone.
LEMMA KeyStep ==
  ASSUME PageInv, UNCHANGED <<sidebar, form, url, flight, queued, shown, trusted>>,
         timer' \in {timer, timer \cup {"quick"}}, selected' \in Int, lit' \in Int, quick' \in Dialogues, SelectInv'
  PROVE  PageInv'
<1>1. PageTypeInv'
  BY DEF PageInv, PageTypeInv
<1>2. AskInv'
  BY AskStays
<1> QED BY <1>1, <1>2 DEF PageInv

(* The acts inside the quick-open dialogue keep the invariant. *)
LEMMA DialogueStep ==
  ASSUME PageInv, \/ \E q \in Texts : TypeQuickOpen(q)
              \/ \E d \in {-1, 1} : SelectQuickOpenResult(d)
              \/ OpenQuickOpen \/ CloseQuickOpen \/ OpenQuickOpenSelected
  PROVE  PageInv'
<1>1. /\ UNCHANGED <<sidebar, form, url, flight, queued, shown, trusted, selected, lit>>
      /\ timer' \in {timer, timer \cup {"quick"}}
  BY DEF TypeQuickOpen, SelectQuickOpenResult, OpenQuickOpen, CloseQuickOpen, OpenQuickOpenSelected, view
<1>2. selected \in Int /\ lit \in Int /\ quick \in Dialogues /\ SelectInv
  BY DEF PageInv, PageTypeInv
<1>3. /\ quick = [open |-> quick.open, q |-> quick.q, items |-> quick.items, selected |-> quick.selected, lit |-> quick.lit]
      /\ quick.open \in BOOLEAN /\ quick.q \in Texts /\ quick.items \in Seq(STRING)
      /\ quick.selected \in Int /\ quick.lit \in Int
      /\ Len(quick.items) \in Nat /\ (quick.items # <<>> => Len(quick.items) > 0)
  BY <1>2, DialogueIs
<1>4. quick' \in Dialogues /\ Points(quick'.selected, quick'.lit, Len(quick'.items))
  <2>1. CASE \E q \in Texts : TypeQuickOpen(q)
    BY <2>1, <1>2, <1>3 DEF TypeQuickOpen, Dialogues, SelectInv
  <2>2. CASE \E d \in {-1, 1} : SelectQuickOpenResult(d)
    <3>1. PICK d \in {-1, 1} : SelectQuickOpenResult(d)
      BY <2>2
    <3> DEFINE i == IF quick.selected + d < 0 THEN 0 ELSE Smaller(quick.selected + d, Len(quick.items) - 1)
    <3>2. quick' = [quick EXCEPT !.selected = i, !.lit = i] /\ quick.items # <<>>
      BY <3>1 DEF SelectQuickOpenResult
    <3>3. i \in Int /\ Points(i, i, Len(quick.items))
      BY <1>3, <3>2, Moves
    <3> HIDE DEF i
    <3> QED BY <1>3, <3>2, <3>3 DEF Dialogues
  <2>3. CASE OpenQuickOpen \/ CloseQuickOpen
    <3>1. /\ quick'.selected = None /\ quick'.lit = quick.lit /\ quick'.items = quick.items
          /\ quick' \in Dialogues
      <4>1. NoText \in Texts /\ None \in Int /\ TRUE \in BOOLEAN /\ FALSE \in BOOLEAN
        BY DEF Texts, None
      <4>2. CASE OpenQuickOpen
        BY <4>1, <4>2, <1>3 DEF OpenQuickOpen, Dialogues
      <4>3. CASE CloseQuickOpen
        BY <4>1, <4>3, <1>3 DEF CloseQuickOpen, Dialogues
      <4> QED BY <2>3, <4>2, <4>3
    <3> QED BY <3>1 DEF Points
  <2>4. CASE OpenQuickOpenSelected
    BY <2>4, <1>2 DEF OpenQuickOpenSelected, SelectInv
  <2> QED BY <2>1, <2>2, <2>3, <2>4
<1>5. SelectInv'
  BY <1>1, <1>2, <1>4 DEF SelectInv
<1> QED BY <1>1, <1>2, <1>4, <1>5, KeyStep

(* Moving the selection, opening it, Escape and the help keep the invariant. *)
LEMMA SelectStep ==
  ASSUME PageInv, \/ \E d \in {-1, 1} : SelectResult(d)
              \/ OpenSelected \/ Escape \/ FocusSearch \/ ToggleHelp
  PROVE  PageInv'
<1>1. /\ UNCHANGED <<sidebar, form, url, timer, flight, queued, shown, trusted, quick>>
  BY DEF SelectResult, OpenSelected, Escape, FocusSearch, ToggleHelp, view
<1>2. selected \in Int /\ lit \in Int /\ quick \in Dialogues /\ SelectInv /\ shown.items \in Seq(STRING)
  BY DEF PageInv, PageTypeInv
<1>3. FileResults(shown) \in Seq(STRING)
  <2>1. <<>> \in Seq(STRING)
    OBVIOUS
  <2> QED BY <1>2, <2>1 DEF FileResults
<1>4. Len(FileResults(shown)) \in Nat /\ (FileResults(shown) # <<>> => Len(FileResults(shown)) > 0)
  BY <1>3
<1>5. selected' \in Int /\ lit' \in Int /\ Points(selected', lit', Len(FileResults(shown)))
  <2>1. CASE \E d \in {-1, 1} : SelectResult(d)
    <3>1. PICK d \in {-1, 1} : SelectResult(d)
      BY <2>1
    <3> DEFINE i == IF selected + d < 0 THEN 0 ELSE Smaller(selected + d, Len(FileResults(shown)) - 1)
    <3>2. selected' = i /\ lit' = i /\ FileResults(shown) # <<>>
      BY <3>1 DEF SelectResult
    <3>3. i \in Int /\ Points(i, i, Len(FileResults(shown)))
      BY <1>2, <1>4, <3>2, Moves
    <3> QED BY <3>2, <3>3
  <2>2. CASE Escape
    <3>1. (selected' = None /\ lit' = None) \/ UNCHANGED <<selected, lit>>
      BY <2>2 DEF Escape
    <3> QED BY <3>1, <1>2 DEF Points, None, SelectInv
  <2>3. CASE OpenSelected \/ FocusSearch \/ ToggleHelp
    BY <2>3, <1>2 DEF OpenSelected, FocusSearch, ToggleHelp, view, SelectInv
  <2> QED BY <2>1, <2>2, <2>3
<1>6. SelectInv'
  BY <1>1, <1>2, <1>5 DEF SelectInv
<1> QED BY <1>1, <1>2, <1>5, <1>6, KeyStep

(* Turning a page keeps the invariant. *)
LEMMA PageStep == ASSUME PageInv, NEW d \in {-1, 1}, NavigatePage(d) PROVE PageInv'
<1> DEFINE page == shown.asked.page + d
           button == shown.pages > 1 /\ IF d = 1 THEN shown.hasNext ELSE page >= 1
           sent == Request(shown.asked.q, shown.asked.repo, "text", page)
<1>1. /\ UNCHANGED <<sidebar, form, timer, queued, shown, selected, lit, url, quick>>
      /\ flight' = (IF button /\ flight["page"] = NoRequest THEN [flight EXCEPT !["page"] = sent] ELSE flight)
      /\ trusted' = Trust(flight', FALSE)
  BY DEF NavigatePage, view
<1>2. /\ flight \in [Elements -> Requests \cup {NoRequest}] /\ trusted \in BOOLEAN
      /\ shown.asked \in Requests /\ shown.asked.q \in Texts /\ shown.asked.repo \in Repos
      /\ shown.asked.page \in Nat \ {0}
  BY DEF PageInv, PageTypeInv, Requests
<1>3. trusted' \in BOOLEAN /\ (trusted' => trusted /\ \A a, b \in Busy(flight') : a = b)
  BY <1>1, <1>2, AtMostOne DEF Trust
<1>4. CASE button /\ flight["page"] = NoRequest
  <2>1. page \in Nat \ {0}
    BY <1>2, <1>4
  <2>2. /\ sent.q = shown.asked.q /\ sent.repo = shown.asked.repo /\ sent.mode = "text" /\ sent.page = page
        /\ sent \in Requests
    BY <1>2, <2>1 DEF Request, Requests, Modes
  <2> HIDE DEF sent
  <2>3. /\ flight' = [flight EXCEPT !["page"] = sent] /\ flight'["page"] = sent
        /\ flight' \in [Elements -> Requests \cup {NoRequest}]
    BY <1>1, <1>2, <1>4, <2>2, Names
  <2>4. "page" \in Busy(flight')
    BY <2>2, <2>3, IsRequest, Names DEF Busy
  <2>5. trusted' => Busy(flight) = {} /\ \A a \in Busy(flight') : a = "page"
    <3>1. \A a \in Busy(flight) : a # "page" /\ a \in Busy(flight')
      BY <1>2, <1>4, <2>3, Names DEF Busy
    <3> QED BY <1>3, <2>4, <3>1
  <2>6. OneAtWork'
    BY <1>1, <2>5, Names DEF OneAtWork
  <2>7. FormUnderWay'
    <3> SUFFICES ASSUME trusted', "search" \notin timer PROVE Agrees(flight["page"])'
      BY <1>1, <2>5 DEF FormUnderWay
    <3>1. Agrees(shown.asked)
      BY <1>3, <2>5 DEF PageInv, AskInv, FormShown
    <3>2. shown.asked.mode = "text"
      BY <1>4 DEF PageInv, AskInv, PagesAreText
    <3> QED BY <1>1, <2>2, <2>3, <3>1, <3>2 DEF Agrees
  <2>8. FormShown'
    BY <2>4 DEF FormShown
  <2> QED BY <1>1, <1>3, <2>3, <2>6, <2>7, <2>8 DEF PageInv, PageTypeInv, SelectInv, AskInv, PagesAreText
<1>5. CASE ~(button /\ flight["page"] = NoRequest)
  <2>1. flight' = flight
    BY <1>1, <1>5
  <2>2. AskInv'
    BY <1>1, <1>3, <2>1 DEF PageInv, AskInv, OneAtWork, FormUnderWay, FormShown, PagesAreText, Agrees
  <2> QED BY <1>1, <1>3, <2>1, <2>2 DEF PageInv, PageTypeInv, SelectInv
<1> QED BY <1>4, <1>5

(* A delayed request that is sent at last keeps the invariant. *)
LEMMA DebouncedStep == ASSUME PageInv, NEW e \in Elements, Debounced(e) PROVE PageInv'
<1>1. /\ e \in timer /\ timer' = timer \ {e} /\ Send(e, form)
      /\ UNCHANGED <<sidebar, form, shown, selected, lit, url, quick>>
  BY DEF Debounced, view
<1>2. e \in {"search", "quick"} /\ form \in Forms /\ timer' \subseteq {"search", "quick"}
  BY <1>1 DEF PageInv, PageTypeInv
<1>3. /\ flight' \in [Elements -> Requests \cup {NoRequest}] /\ queued' \subseteq Elements \ {"page"}
      /\ trusted' \in BOOLEAN /\ AskInv'
  <2>1. CASE e = "search"
    <3>1. Send("search", form') /\ form' \in Forms /\ "search" \notin Repos
      BY <1>1, <1>2, <2>1, Names
    <3> QED BY <1>1, <3>1, SendAsk
  <2>2. CASE e = "quick"
    <3>1. "search" \in timer <=> "search" \in timer'
      BY <1>1, <2>2
    <3> QED BY <1>1, <2>2, <3>1, SendQuick
  <2> QED BY <1>2, <2>1, <2>2
<1> QED BY <1>1, <1>2, <1>3 DEF PageInv, PageTypeInv, SelectInv

(* An answer that arrives keeps the invariant, whatever was typed meanwhile. *)
LEMMA ArrivesStep == ASSUME PageInv, NEW e \in Elements, Arrives(e) PROVE PageInv'
<1>1. /\ e \in ResultElements /\ flight[e] # NoRequest /\ SendNext(e)
      /\ shown' = SearchResultsFragment(flight[e]) /\ selected' = None /\ lit' = None /\ url' = form
      /\ trusted' = Trust(flight', e \in queued /\ flight'[e].repo = form.repo)
      /\ UNCHANGED <<sidebar, form, timer, quick>>
  BY DEF Arrives, AfterSwap
<1>2. /\ flight \in [Elements -> Requests \cup {NoRequest}] /\ flight[e] \in Requests /\ e \in Busy(flight)
      /\ trusted \in BOOLEAN /\ form \in Forms /\ quick.q \in Texts
  BY <1>1 DEF PageInv, PageTypeInv, Busy, Dialogues
<1>3. /\ flight' \in [Elements -> Requests \cup {NoRequest}] /\ queued' \subseteq Elements \ {"page"}
      /\ \A a \in Elements \ {e} : flight'[a] = flight[a] /\ (a \in queued <=> a \in queued')
      /\ e \notin queued'
      /\ flight'[e] = IF e \in queued THEN RequestOf(e, form) ELSE NoRequest
      /\ e \in queued => e # "page" /\ RequestOf(e, form) \in Requests
  BY <1>1, NextSent
<1>4. /\ shown'.asked = flight[e] /\ shown'.items \in Seq(STRING)
      /\ shown'.pages > 1 => flight[e].mode = "text"
  BY <1>1, <1>2, FragmentIs
<1>5. /\ trusted' \in BOOLEAN
      /\ trusted' => /\ \A a, b \in Busy(flight') : a = b
                     /\ trusted \/ (e \in queued /\ flight'[e].repo = form.repo)
  BY <1>1, <1>2, AtMostOne DEF Trust
<1>6. PageTypeInv'
  BY <1>1, <1>2, <1>3, <1>4, <1>5 DEF PageInv, PageTypeInv, None
<1>7. SelectInv'
  BY <1>1 DEF PageInv, SelectInv, Points
<1>8. CASE e \in queued
  <2>1. /\ flight'[e] = RequestOf(e, form) /\ e \in Elements \ {"page"} /\ e # "quick"
        /\ RequestOf(e, form).q = form.q /\ RequestOf(e, form).mode = form.mode
        /\ RequestOf(e, form).repo = IF e = "search" THEN form.repo ELSE e
    BY <1>1, <1>2, <1>3, <1>8, Names, RequestOfIs
  <2>2. e \in Busy(flight')
    BY <1>1, <1>3, <1>8, IsRequest DEF Busy
  <2>3. trusted' => (e \in Repos => form.repo = e) /\ \A a \in Busy(flight') : a = e
    <3>1. trusted => (e \in Repos => form.repo = e)
      BY <1>2 DEF PageInv, AskInv, OneAtWork
    <3>2. e \in Repos => e # "search"
      BY Names
    <3> QED BY <1>5, <2>1, <2>2, <3>1, <3>2
  <2>4. OneAtWork'
    BY <1>1, <2>3 DEF OneAtWork
  <2>5. trusted' => Agrees(flight[e])'
    BY <1>1, <2>1, <2>3, Names DEF Agrees
  <2>6. FormUnderWay'
    BY <2>3, <2>5 DEF FormUnderWay
  <2>7. FormShown'
    BY <2>2 DEF FormShown
  <2> QED BY <1>4, <1>6, <1>7, <2>4, <2>6, <2>7 DEF PageInv, AskInv, PagesAreText
<1>9. CASE e \notin queued
  <2>1. trusted' => trusted /\ Busy(flight') = {}
    <3> SUFFICES ASSUME trusted' PROVE trusted /\ Busy(flight') = {}
      OBVIOUS
    <3>1. trusted /\ \A a \in Busy(flight) : a = e
      BY <1>2, <1>5, <1>9 DEF PageInv, AskInv, OneAtWork
    <3>2. \A a \in Busy(flight') : a # e /\ a \in Busy(flight)
      BY <1>3, <1>9, Names DEF Busy
    <3> QED BY <3>1, <3>2
  <2>2. FormShown'
    <3> SUFFICES ASSUME trusted', "search" \notin timer PROVE Agrees(shown.asked)' /\ Agrees(url)'
      BY <1>1 DEF FormShown
    <3>1. Agrees(flight[e])
      BY <1>2, <1>9, <2>1 DEF PageInv, AskInv, FormUnderWay
    <3> QED BY <1>1, <1>4, <3>1 DEF Agrees
  <2> QED BY <1>4, <1>6, <1>7, <2>1, <2>2 DEF PageInv, AskInv, OneAtWork, FormUnderWay, PagesAreText
<1> QED BY <1>8, <1>9

(* An answer for the dialogue keeps the invariant. *)
LEMMA QuickArrivesStep == ASSUME PageInv, QuickArrives PROVE PageInv'
<1>1. /\ flight["quick"] # NoRequest /\ SendNext("quick") /\ selected' = None /\ lit' = None
      /\ quick' = [quick EXCEPT !.items = SymbolResultsFragment(flight["quick"]).items, !.selected = None, !.lit = None]
      /\ UNCHANGED <<sidebar, form, timer, shown, url, trusted>>
  BY DEF QuickArrives, AfterSwap
<1>2. flight["quick"] \in Requests /\ quick \in Dialogues
  BY <1>1, Names DEF PageInv, PageTypeInv
<1>3. /\ flight' \in [Elements -> Requests \cup {NoRequest}] /\ queued' \subseteq Elements \ {"page"}
      /\ \A a \in Elements \ {"quick"} : flight'[a] = flight[a] /\ (a \in queued <=> a \in queued')
  BY <1>1, Names, NextSent
<1>4. AskInv'
  BY <1>1, <1>3, Names, AskStays
<1>5. None \in Int /\ SymbolResultsFragment(flight["quick"]).items \in Seq(STRING)
  BY <1>2, FragmentIs DEF None
<1>6. quick' \in Dialogues /\ quick'.selected = None
  BY <1>1, <1>2, <1>5, DialogueIs DEF Dialogues
<1>7. PageTypeInv'
  BY <1>1, <1>3, <1>5, <1>6 DEF PageInv, PageTypeInv
<1>8. SelectInv'
  BY <1>1, <1>6 DEF SelectInv, Points
<1> QED BY <1>4, <1>7, <1>8 DEF PageInv

(* A request that fails keeps the invariant: the page is no longer trusted. *)
LEMMA FailsStep == ASSUME PageInv, NEW e \in Elements, Fails(e) PROVE PageInv'
<1>1. /\ SendNext(e) /\ trusted' = (trusted /\ e = "quick")
      /\ UNCHANGED <<sidebar, form, timer, shown, selected, lit, url, quick>>
  BY DEF Fails, view
<1>2. /\ flight' \in [Elements -> Requests \cup {NoRequest}] /\ queued' \subseteq Elements \ {"page"}
      /\ \A a \in Elements \ {e} : flight'[a] = flight[a] /\ (a \in queued <=> a \in queued')
  BY <1>1, NextSent
<1>3. trusted' \in BOOLEAN
  BY <1>1 DEF PageInv, PageTypeInv
<1>4. AskInv'
  <2>1. CASE e = "quick"
    <3>1. trusted' = trusted
      BY <1>1, <2>1 DEF PageInv, PageTypeInv
    <3> QED BY <1>1, <1>2, <2>1, <3>1, Names, AskStays
  <2>2. CASE e # "quick"
    BY <1>1, <2>2 DEF PageInv, AskInv, OneAtWork, FormUnderWay, FormShown, PagesAreText
  <2> QED BY <2>1, <2>2
<1> QED BY <1>1, <1>2, <1>3, <1>4 DEF PageInv, PageTypeInv, SelectInv

(* Loading the page from its address keeps the invariant. *)
LEMMA LoadStep == ASSUME PageInv, Load PROVE PageInv'
<1> DEFINE first == Request(NoText, FirstRepo, "text", 1)
<1>1. /\ sidebar' = Registered /\ timer' = {} /\ queued' = {} /\ trusted' = TRUE
      /\ form' = (IF url.q = NoText THEN Blank
                  ELSE [url EXCEPT !.repo = IF @ \in Registered THEN @ ELSE FirstRepo])
      /\ flight' = [e \in Elements |-> IF e = "search" /\ url.q # NoText THEN RequestOf(e, form') ELSE NoRequest]
      /\ shown' = EmptyFragment(first) /\ selected' = None /\ lit' = None
      /\ quick' = [open |-> FALSE, q |-> NoText, items |-> <<>>, selected |-> None, lit |-> None]
      /\ url' = url
  BY DEF Load, AfterSwap
<1>2. url \in Forms /\ url.repo \in Repos /\ quick.q \in Texts
  BY FormFields DEF PageInv, PageTypeInv, Dialogues
<1>3. Blank \in Forms /\ Blank.q = NoText /\ first \in Requests /\ first.q = NoText
  BY Names DEF Blank, Forms, Requests, Request, Texts, Modes
<1>4. form' \in Forms /\ form'.q = url.q
  <2>1. CASE url.q = NoText
    BY <1>1, <1>3, <2>1
  <2>2. CASE url.q # NoText
    BY <1>1, <1>2, <2>2, FormIs, Names DEF Forms
  <2> QED BY <2>1, <2>2
<1>5. /\ RequestOf("search", form') \in Requests
      /\ RequestOf("search", form').q = form'.q /\ RequestOf("search", form').mode = form'.mode
      /\ RequestOf("search", form').repo = form'.repo
  BY <1>2, <1>4, Names, RequestOfIs
<1>6. /\ shown'.asked = first /\ shown'.items = <<>> /\ shown'.pages = 0
  BY <1>1 DEF EmptyFragment, Fragment
<1> HIDE DEF first
<1>7. quick' \in Dialogues /\ quick'.selected = None
  BY <1>1 DEF Dialogues, Texts, None
<1>8. flight' \in [Elements -> Requests \cup {NoRequest}]
  BY <1>1, <1>5
<1>9. PageTypeInv'
  <2>1. <<>> \in Seq(STRING) /\ None \in Int
    BY DEF None
  <2> QED BY <1>1, <1>2, <1>3, <1>4, <1>6, <1>7, <1>8, <2>1, Names DEF PageTypeInv
<1>10. SelectInv'
  BY <1>1, <1>7 DEF SelectInv, Points
<1>11. \A a \in Busy(flight') : a = "search" /\ url.q # NoText
  BY <1>1, Names DEF Busy
<1>12. OneAtWork'
  BY <1>11, Names DEF OneAtWork
<1>13. FormUnderWay'
  <2>1. url.q # NoText => Agrees(flight["search"])'
    <3>1. url.q # NoText => flight'["search"] = RequestOf("search", form')
      BY <1>1, Names
    <3> QED BY <1>5, <3>1 DEF Agrees
  <2> QED BY <1>11, <2>1 DEF FormUnderWay
<1>14. FormShown'
  <2>1. url.q # NoText => "search" \in Busy(flight')
    BY <1>1, <1>5, IsRequest, Names DEF Busy
  <2>2. url.q = NoText => Agrees(shown.asked)' /\ Agrees(url)'
    BY <1>1, <1>3, <1>4, <1>6 DEF Agrees
  <2> QED BY <2>1, <2>2 DEF FormShown
<1> QED BY <1>6, <1>9, <1>10, <1>12, <1>13, <1>14 DEF PageInv, AskInv, PagesAreText

(* Every step keeps the invariant. *)
LEMMA PageNextInv == ASSUME PageInv, [PageNext]_pageVars PROVE PageInv'
<1>1. CASE \E q \in Texts : Type(q) \/ TypeQuickOpen(q)
  BY <1>1, TypeStep, DialogueStep
<1>2. CASE \E m \in Modes : SetSearchMode(m)
  BY <1>2, ModeStep
<1>3. CASE \E r \in Repos : ClickRepo(r)
  BY <1>3, ClickStep
<1>4. CASE \E d \in {-1, 1} : SelectResult(d) \/ NavigatePage(d) \/ SelectQuickOpenResult(d)
  BY <1>4, SelectStep, PageStep, DialogueStep
<1>5. CASE OpenSelected \/ Escape \/ FocusSearch \/ ToggleHelp
  BY <1>5, SelectStep
<1>6. CASE OpenQuickOpen \/ CloseQuickOpen \/ OpenQuickOpenSelected
  BY <1>6, DialogueStep
<1>7. CASE \E e \in Elements : Debounced(e) \/ Arrives(e) \/ Fails(e)
  BY <1>7, DebouncedStep, ArrivesStep, FailsStep
<1>8. CASE QuickArrives \/ Load
  BY <1>8, QuickArrivesStep, LoadStep
<1>9. CASE UNCHANGED pageVars
  BY <1>9 DEF pageVars, view, PageInv, PageTypeInv, SelectInv, AskInv, OneAtWork, FormUnderWay, FormShown, PagesAreText, Agrees
<1> QED BY <1>1, <1>2, <1>3, <1>4, <1>5, <1>6, <1>7, <1>8, <1>9 DEF PageNext

\* However answers, keys and the dialogue interleave, Enter opens the highlighted result among
\* those on the page: every swap drops the index with the highlight (app.js:17-36, 98-115, 211-216).
THEOREM EnterOpensHighlighted == PageSpec => []OpensWhatIsSelected
<1>1. PageInv => OpensWhatIsSelected
  BY DEF PageInv, SelectInv, Points, OpensWhatIsSelected
<1> QED BY PageInitInv, PageNextInv, <1>1, PTL DEF PageSpec

\* With any repositories and queries, and however often the user types, clicks, pages and reloads
\* before answers arrive: once nothing is under way the page and its address have the form's
\* search, if no two elements were answered at once and no answer failed (app.js:292-318, 344-391;
\* index.html:12-14, 37-40).
THEOREM PageShowsForm == PageSpec => []ShowsWhatWasAsked
<1>1. PageInv => ShowsWhatWasAsked
  BY DEF PageInv, AskInv, FormShown, ShowsWhatWasAsked
<1> QED BY PageInitInv, PageNextInv, <1>1, PTL DEF PageSpec

=============================================================================
