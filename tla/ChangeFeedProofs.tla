-------------------------- MODULE ChangeFeedProofs --------------------------
(***************************************************************************)
(* What ChangeFeed promises, for every repository, user and bound: a       *)
(* catch-up at start that reports success has indexed every file it could  *)
(* know of (CaughtUp), and while the daemon is live the reports on their   *)
(* way end in one that agrees with the file (NoChangeLost).                *)
(***************************************************************************)
EXTENDS ChangeFeed, SequenceTheorems, FiniteSetTheorems, WellFoundedInduction, TLAPS

-----------------------------------------------------------------------------
(* Types *)

Event == [path : Path \cup {Own}, kind : ChangeKind]

Batch == UNION {[P -> ChangeKind] : P \in SUBSET (Path \cup {Own})}

Output == {{}} \cup {{b} : b \in Batch}

Commit == {{}} \cup {{t} : t \in Tree}

FeedType ==
    /\ work \in Tree /\ stage \in Tree /\ head \in Tree
    /\ live \in [Path -> Seq(Content)]
    /\ cp \in Commit /\ base \in Commit
    /\ phase \in Phase
    /\ cpc \in {"idle", "git", "hash", "apply", "stamp", "done", "failed", "skipped"}
    /\ dpc \in {"off", "scan", "loop"}
    /\ lpc \in {"recv", "stamp"}
    /\ found \in [Command -> Output] /\ seen \in [Command -> Output]
    /\ plan \in Batch
    /\ win \in Seq(Event)
    /\ wrx \in Seq(Seq(Event))
    /\ tx \in Seq(Batch)
    /\ lost \in SUBSET Path /\ steady \in SUBSET Path

\* A non-empty set of numbers has a least element.
LEMMA LeastExists ==
  ASSUME NEW S \in SUBSET Nat, S # {}
  PROVE \E x \in S : \A y \in S : x <= y
<1>. DEFINE R == {ss \in Nat \X Nat : ss[1] < ss[2]}
<1>1. IsWellFoundedOn(R, Nat)
  BY NatLessThanWellFounded DEF OpToRel
<1>. HIDE DEF R
<1>2. PICK x \in S : \A y \in S : ~ (<<y, x>> \in R)
  BY <1>1, WFMin
<1>3. ASSUME NEW y \in S PROVE x <= y
  <2>1. <<y, x>> \in Nat \X Nat /\ ~ (<<y, x>> \in R)
    BY <1>2
  <2>2. ~ (y < x)
    BY <2>1 DEF R
  <2>. QED BY <2>2
<1>. QED BY <1>3

\* A non-empty set of positions of a sequence has a last one.
LEMMA LastExists ==
  ASSUME NEW N \in Nat, NEW S \in SUBSET (0 .. N), S # {}
  PROVE \E x \in S : \A y \in S : y <= x
<1>. DEFINE T == {n \in 0 .. N : N - n \in S}
<1>0. PICK s \in S : TRUE
  OBVIOUS
<1>1. N - s \in T
  OBVIOUS
<1>2. T \in SUBSET Nat /\ T # {}
  BY <1>1
<1>3. \A y \in S : N - y \in T
  OBVIOUS
<1>. HIDE DEF T
<1>4. PICK m \in T : \A y \in T : m <= y
  BY <1>2, LeastExists
<1>5. N - m \in S /\ m \in 0 .. N BY <1>4 DEF T
<1>. QED BY <1>4, <1>3, <1>5

\* The element of a set of one is that element.
LEMMA TheOne == ASSUME NEW x PROVE The({x}) = x
  BY DEF The

\* A batch maps some paths to kinds, and a map from paths to kinds is a batch.
LEMMA BatchFacts ==
    ASSUME NEW b \in Batch
    PROVE  /\ DOMAIN b \subseteq Path \cup {Own}
           /\ b = [p \in DOMAIN b |-> b[p]]
           /\ \A p \in DOMAIN b : b[p] \in ChangeKind
<1>1. PICK P \in SUBSET (Path \cup {Own}) : b \in [P -> ChangeKind]
  BY DEF Batch
<1>. QED BY <1>1

(* A function from paths to kinds of change is a batch. *)
LEMMA BatchIntro ==
    ASSUME NEW P \in SUBSET (Path \cup {Own}), NEW b \in [P -> ChangeKind]
    PROVE  b \in Batch
  BY DEF Batch

(* A command that reports nothing reports the empty batch. *)
LEMMA NoEventsBatch == NoEvents \in Batch /\ DOMAIN NoEvents = {}
<1>1. NoEvents \in [{} -> ChangeKind]
  BY DEF NoEvents
<1>. QED BY <1>1, BatchIntro

\* The only batch without a path is the empty one.
LEMMA EmptyBatch == ASSUME NEW b \in Batch, DOMAIN b = {} PROVE b = NoEvents
<1>1. b = [p \in {} |-> b[p]]
  BY BatchFacts
<1>. QED BY <1>1 DEF NoEvents

(* A file that is there has one content. *)
LEMMA OptionFacts ==
    ASSUME NEW o \in Option, o # {}
    PROVE  The(o) \in Content /\ o = {The(o)}
<1>1. PICK c \in Content : o = {c}
  BY DEF Option
<1>. QED BY <1>1, TheOne

(* A command that ran has one output, a batch. *)
LEMMA OutputFacts ==
    ASSUME NEW o \in Output, o # {}
    PROVE  The(o) \in Batch /\ o = {The(o)}
<1>1. PICK b \in Batch : o = {b}
  BY DEF Output
<1>. QED BY <1>1, TheOne

(* A checkpoint that names a commit names one tree. *)
LEMMA CommitFacts ==
    ASSUME NEW c \in Commit, c # {}
    PROVE  The(c) \in Tree /\ c = {The(c)}
<1>1. PICK t \in Tree : c = {t}
  BY DEF Commit
<1>. QED BY <1>1, TheOne

-----------------------------------------------------------------------------
(* The operators *)

\* The content of the newest of the entries s of a path.
Newest(s) == IF s = <<>> THEN {} ELSE {s[Len(s)]}

(* Comparing two versions gives a kind of change. *)
LEMMA KindType == ASSUME NEW old, NEW new PROVE Kind(old, new) \in ChangeKind
  BY DEF Kind, ChangeKind

(* A diff is a batch that names exactly the paths that differ, each with its kind. *)
LEMMA DiffFacts ==
    ASSUME NEW old, NEW new, NEW P \in SUBSET Path
    PROVE  /\ Diff(old, new, P) \in Batch
           /\ \A p : p \in DOMAIN Diff(old, new, P) <=> p \in P /\ old[p] # new[p]
           /\ \A p \in P : old[p] # new[p] => Diff(old, new, P)[p] = Kind(old[p], new[p])
<1>. DEFINE D == {q \in P : old[q] # new[q]}
<1>1. Diff(old, new, P) \in [D -> ChangeKind]
  BY KindType DEF Diff
<1>2. D \in SUBSET (Path \cup {Own})
  OBVIOUS
<1>3. Diff(old, new, P) \in Batch
  BY <1>1, <1>2, BatchIntro
<1>. QED BY <1>3 DEF Diff

(* A later report replaces an earlier one of the same path (HashMap::insert) and leaves
   the others. *)
LEMMA OverrideFacts ==
    ASSUME NEW f \in Batch, NEW g \in Batch
    PROVE  /\ Override(f, g) \in Batch
           /\ DOMAIN Override(f, g) = DOMAIN f \cup DOMAIN g
           /\ \A p \in DOMAIN g : Override(f, g)[p] = g[p]
           /\ \A p \in DOMAIN f \ DOMAIN g : Override(f, g)[p] = f[p]
<1>1. DOMAIN f \cup DOMAIN g \in SUBSET (Path \cup {Own})
  BY BatchFacts
<1>2. Override(f, g) \in [DOMAIN f \cup DOMAIN g -> ChangeKind]
  BY BatchFacts DEF Override
<1>3. Override(f, g) \in Batch
  BY <1>1, <1>2, BatchIntro
<1>. QED BY <1>3 DEF Override

\* The later of git's three commands wins.
LEMMA MergedFacts ==
    ASSUME NEW o \in [Command -> Output], AllRan(o)
    PROVE  /\ Merged(o) \in Batch
           /\ DOMAIN Merged(o) = DOMAIN The(o["committed"]) \cup DOMAIN The(o["unstaged"])
                                   \cup DOMAIN The(o["untracked"])
           /\ \A p \in DOMAIN The(o["untracked"]) : Merged(o)[p] = The(o["untracked"])[p]
           /\ \A p \in DOMAIN The(o["unstaged"]) \ DOMAIN The(o["untracked"]) :
                 Merged(o)[p] = The(o["unstaged"])[p]
           /\ \A p \in DOMAIN The(o["committed"])
                        \ (DOMAIN The(o["unstaged"]) \cup DOMAIN The(o["untracked"])) :
                 Merged(o)[p] = The(o["committed"])[p]
<1>. DEFINE c == The(o["committed"])
            s == The(o["unstaged"])
            u == The(o["untracked"])
<1>1. /\ o["committed"] \in Output /\ o["committed"] # {}
      /\ o["unstaged"] \in Output /\ o["unstaged"] # {}
      /\ o["untracked"] \in Output /\ o["untracked"] # {}
  BY DEF AllRan, Command
<1>2. c \in Batch /\ s \in Batch /\ u \in Batch
  BY <1>1, OutputFacts
<1>3. Merged(o) = Override(Override(c, s), u)
  BY DEF Merged
<1>. HIDE DEF c, s, u
<1>4. Override(c, s) \in Batch
  BY <1>2, OverrideFacts
<1>5. /\ DOMAIN Override(c, s) = DOMAIN c \cup DOMAIN s
      /\ \A p \in DOMAIN s : Override(c, s)[p] = s[p]
      /\ \A p \in DOMAIN c \ DOMAIN s : Override(c, s)[p] = c[p]
  BY <1>2, OverrideFacts
<1>. DEFINE m == Override(c, s)
<1>. HIDE DEF m
<1>6. /\ Override(m, u) \in Batch
      /\ DOMAIN Override(m, u) = DOMAIN m \cup DOMAIN u
      /\ \A p \in DOMAIN u : Override(m, u)[p] = u[p]
      /\ \A p \in DOMAIN m \ DOMAIN u : Override(m, u)[p] = m[p]
  BY <1>2, <1>4, OverrideFacts DEF m
<1>7. Merged(o) = Override(m, u)
  BY <1>3 DEF m
<1>8. /\ DOMAIN m = DOMAIN c \cup DOMAIN s
      /\ \A p \in DOMAIN s : m[p] = s[p]
      /\ \A p \in DOMAIN c \ DOMAIN s : m[p] = c[p]
  BY <1>5 DEF m
<1>9. /\ Merged(o) \in Batch
      /\ DOMAIN Merged(o) = DOMAIN c \cup DOMAIN s \cup DOMAIN u
      /\ \A p \in DOMAIN u : Merged(o)[p] = u[p]
      /\ \A p \in DOMAIN s \ DOMAIN u : Merged(o)[p] = s[p]
      /\ \A p \in DOMAIN c \ (DOMAIN s \cup DOMAIN u) : Merged(o)[p] = c[p]
  BY <1>6, <1>7, <1>8
<1>. QED BY <1>9 DEF c, s, u

\* Where the last event of path p stands in a sequence of events, if p is in it.
Final(s, p, i) == i \in DOMAIN s /\ s[i].path = p /\ \A j \in DOMAIN s : s[j].path = p => j <= i

Silent(s, p) == \A i \in DOMAIN s : s[i].path # p

(* Where a queue speaks of a path it has a last report of it. *)
LEMMA FinalExists ==
    ASSUME NEW s \in Seq(Event), NEW p, ~ Silent(s, p)
    PROVE  \E i \in DOMAIN s : Final(s, p, i)
<1>. DEFINE S == {i \in 1 .. Len(s) : s[i].path = p}
<1>1. S \in SUBSET (0 .. Len(s)) /\ S # {} /\ Len(s) \in Nat
  BY DEF Silent
<1>2. PICK x \in S : \A y \in S : y <= x
  BY <1>1, LastExists
<1>. QED BY <1>2 DEF Final

\* dedup_events keeps the last event of every path.
LEMMA DedupFacts ==
    ASSUME NEW s \in Seq(Event)
    PROVE  /\ Dedup(s) \in Batch
           /\ \A p : p \in DOMAIN Dedup(s) <=> ~ Silent(s, p)
           /\ \A p, i : Final(s, p, i) => Dedup(s)[p] = s[i].kind
<1>. DEFINE P == {s[i].path : i \in DOMAIN s}
<1>. DEFINE at(p) == CHOOSE i \in DOMAIN s : /\ s[i].path = p
                                            /\ \A j \in DOMAIN s : s[j].path = p => j <= i
<1>1. \A i \in DOMAIN s : s[i].path \in Path \cup {Own} /\ s[i].kind \in ChangeKind
  <2>1. \A i \in DOMAIN s : s[i] \in Event
    OBVIOUS
  <2>. QED BY <2>1 DEF Event
<1>2. P \in SUBSET (Path \cup {Own})
  BY <1>1
<1>3. \A p \in P : at(p) \in DOMAIN s /\ Final(s, p, at(p))
  <2>1. ASSUME NEW p \in P PROVE \E i \in DOMAIN s : Final(s, p, i)
    <3>1. ~ Silent(s, p)
      BY DEF Silent
    <3>. QED BY <3>1, FinalExists
  <2>. QED BY <2>1 DEF Final
<1>4. Dedup(s) = [p \in P |-> s[at(p)].kind]
  BY DEF Dedup
<1>. HIDE DEF P, at
<1>5. Dedup(s) \in Batch
  <2>1. Dedup(s) \in [P -> ChangeKind]
    BY <1>1, <1>3, <1>4
  <2>. QED BY <2>1, <1>2, BatchIntro
<1>6. \A p : p \in P <=> ~ Silent(s, p)
  BY DEF P, Silent
<1>7. ASSUME NEW p, NEW i, Final(s, p, i) PROVE Dedup(s)[p] = s[i].kind
  <2>1. p \in P
    BY <1>7 DEF P, Final
  <2>2. Final(s, p, at(p))
    BY <2>1, <1>3
  <2>3. at(p) = i
    BY <1>7, <2>2 DEF Final
  <2>. QED BY <2>1, <2>3, <1>4
<1>. QED BY <1>4, <1>5, <1>6, <1>7

\* What a git command prints about a path, for each of the three.
LEMMA GitOutputFacts ==
    ASSUME FeedType, NEW cmd \in Command, NEW from \in Commit
    PROVE  /\ GitOutput(cmd, from) \in Batch
           /\ DOMAIN GitOutput(cmd, from) \subseteq Path
           /\ from = {} => GitOutput("committed", from) = NoEvents
           /\ \A p \in Path :
                /\ from # {} =>
                     /\ p \in DOMAIN GitOutput("committed", from) <=> The(from)[p] # head[p]
                     /\ The(from)[p] # head[p] =>
                          GitOutput("committed", from)[p] = Kind(The(from)[p], head[p])
                /\ p \in DOMAIN GitOutput("unstaged", from) <=>
                     stage[p] # {} /\ stage[p] # work[p]
                /\ stage[p] # {} /\ stage[p] # work[p] =>
                     GitOutput("unstaged", from)[p] = Kind(stage[p], work[p])
                /\ p \in DOMAIN GitOutput("untracked", from) <=>
                     stage[p] = {} /\ stage[p] # work[p]
                /\ stage[p] = {} /\ stage[p] # work[p] =>
                     GitOutput("untracked", from)[p] = Kind(stage[p], work[p])
<1>. DEFINE tracked == {p \in Path : stage[p] # {}}
            other   == {p \in Path : stage[p] = {}}
            at      == The(from)
<1>1. /\ from = {} => GitOutput("committed", from) = NoEvents
      /\ from # {} => GitOutput("committed", from) = Diff(at, head, Path)
      /\ GitOutput("unstaged", from) = Diff(stage, work, tracked)
      /\ GitOutput("untracked", from) = Diff(stage, work, other)
  BY DEF GitOutput
<1>2. Path \in SUBSET Path /\ tracked \in SUBSET Path /\ other \in SUBSET Path
  OBVIOUS
<1>3. \A p \in Path : (p \in tracked <=> stage[p] # {}) /\ (p \in other <=> stage[p] = {})
  OBVIOUS
<1>. HIDE DEF tracked, other, at
<1>4. /\ Diff(at, head, Path) \in Batch
      /\ \A p : p \in DOMAIN Diff(at, head, Path) <=> p \in Path /\ at[p] # head[p]
      /\ \A p \in Path : at[p] # head[p] => Diff(at, head, Path)[p] = Kind(at[p], head[p])
  BY <1>2, DiffFacts
<1>5. /\ Diff(stage, work, tracked) \in Batch
      /\ \A p : p \in DOMAIN Diff(stage, work, tracked) <=> p \in tracked /\ stage[p] # work[p]
      /\ \A p \in tracked : stage[p] # work[p] =>
            Diff(stage, work, tracked)[p] = Kind(stage[p], work[p])
  BY <1>2, DiffFacts
<1>6. /\ Diff(stage, work, other) \in Batch
      /\ \A p : p \in DOMAIN Diff(stage, work, other) <=> p \in other /\ stage[p] # work[p]
      /\ \A p \in other : stage[p] # work[p] =>
            Diff(stage, work, other)[p] = Kind(stage[p], work[p])
  BY <1>2, DiffFacts
<1>7. GitOutput(cmd, from) \in Batch /\ DOMAIN GitOutput(cmd, from) \subseteq Path
  BY <1>1, <1>2, <1>4, <1>5, <1>6, NoEventsBatch DEF Command
<1>. QED BY <1>1, <1>3, <1>4, <1>5, <1>6, <1>7 DEF at

\* A kind that agrees with the file: "Deleted" with none, "Created" with one.
FitsIn(tree, p, k) == (k = "Deleted" => tree[p] = {}) /\ (k = "Created" => tree[p] # {})

Fits(p, k) == FitsIn(work, p, k)

(* The kind a comparison with the work tree gives agrees with the work tree. *)
LEMMA KindFits ==
    ASSUME NEW p, NEW old, old # work[p]
    PROVE  Fits(p, Kind(old, work[p]))
  BY DEF Fits, FitsIn, Kind

\* apply_changes gives a path entries, whatever kind is reported.
LEMMA AppliedToType ==
    ASSUME FeedType, NEW p \in Path, NEW k, NEW s \in Seq(Content)
    PROVE  WithNew(p, s) \in Seq(Content) /\ AppliedTo(p, k) \in Seq(Content)
<1>1. work[p] \in Option /\ live[p] \in Seq(Content)
  BY DEF FeedType, Tree
<1>2. \A old \in Seq(Content) : WithNew(p, old) \in Seq(Content)
  BY <1>1, OptionFacts DEF WithNew
<1>3. \/ AppliedTo(p, k) = <<>>
      \/ AppliedTo(p, k) = live[p]
      \/ AppliedTo(p, k) = WithNew(p, <<>>)
      \/ AppliedTo(p, k) = WithNew(p, live[p])
  BY DEF AppliedTo, NeedsTombstone, NeedsNewEntry
<1>4. <<>> \in Seq(Content)
  OBVIOUS
<1>. QED BY <1>1, <1>2, <1>3, <1>4

(* Applying a batch changes the versions of the paths it names and of no other. *)
LEMMA AppliedFacts ==
    ASSUME FeedType, NEW b \in Batch
    PROVE  /\ Applied(b) \in [Path -> Seq(Content)]
           /\ \A p \in Path : Applied(b)[p] = IF p \in DOMAIN b THEN AppliedTo(p, b[p]) ELSE live[p]
<1>1. \A p \in Path : live[p] \in Seq(Content) /\ AppliedTo(p, b[p]) \in Seq(Content)
  BY AppliedToType DEF FeedType
<1>. QED BY <1>1 DEF Applied

\* Applying a report that agrees with the file indexes the file as it is, in whatever state
\* the index was; applying any report but a false "Deleted" keeps an indexed file indexed.
LEMMA AppliedFits ==
    ASSUME FeedType, NEW p \in Path, NEW k \in ChangeKind,
           \/ Fits(p, k)
           \/ Latest(p) = work[p] /\ ~ (k = "Deleted" /\ work[p] # {})
    PROVE  Newest(AppliedTo(p, k)) = work[p]
<1>1. work[p] \in Option /\ live[p] \in Seq(Content)
  BY DEF FeedType, Tree
<1>2. \A old \in Seq(Content) : work[p] # {} => Newest(WithNew(p, old)) = work[p]
  <2>. SUFFICES ASSUME NEW old \in Seq(Content), work[p] # {}
                PROVE  Newest(WithNew(p, old)) = work[p]
    OBVIOUS
  <2>1. The(work[p]) \in Content /\ work[p] = {The(work[p])}
    BY <1>1, OptionFacts
  <2>. DEFINE c == The(work[p])
  <2>. HIDE DEF c
  <2>2. WithNew(p, old) = Append(old, c) /\ c \in Content /\ work[p] = {c}
    BY <2>1 DEF WithNew, c
  <2>3. Append(old, c) # <<>> /\ Append(old, c)[Len(Append(old, c))] = c
    BY <2>2
  <2>. QED BY <2>2, <2>3 DEF Newest
<1>3. Latest(p) = Newest(live[p])
  BY DEF Latest, Newest
<1>4. Newest(<<>>) = {}
  BY DEF Newest
<1>5. work[p] = {} => WithNew(p, <<>>) = <<>> /\ WithNew(p, live[p]) = live[p]
  BY DEF WithNew
<1>6. <<>> \in Seq(Content)
  OBVIOUS
<1>a. CASE k = "Deleted"
  BY <1>a, <1>4 DEF AppliedTo, NeedsTombstone, NeedsNewEntry, Fits, FitsIn
<1>b. CASE k = "Created"
  <2>1. AppliedTo(p, k) = IF Latest(p) # work[p] THEN WithNew(p, live[p]) ELSE live[p]
    BY <1>b DEF AppliedTo, NeedsTombstone, NeedsNewEntry
  <2>. QED BY <1>b, <2>1, <1>1, <1>2, <1>3 DEF Fits, FitsIn
<1>c. CASE k \in {"Modified", "Renamed"}
  <2>1. AppliedTo(p, k) = WithNew(p, <<>>)
    BY <1>c DEF AppliedTo, NeedsTombstone, NeedsNewEntry
  <2>. QED BY <2>1, <1>2, <1>4, <1>5, <1>6
<1>. QED BY <1>a, <1>b, <1>c DEF ChangeKind

-----------------------------------------------------------------------------
(* Every variable keeps its type *)

(* A batch cut off while it tombstones only touches paths it names. *)
LEMMA PartlyType ==
    ASSUME FeedType, NEW b, NEW l \in PartlyTombstoned(b)
    PROVE  /\ l \in [Path -> Seq(Content)]
           /\ \A p \in Path : p \notin DOMAIN b => l[p] = live[p]
<1>1. PICK gone \in SUBSET {p \in DOMAIN b \cap Path : NeedsTombstone(b[p])} :
        l = [p \in Path |-> IF p \in gone THEN <<>> ELSE live[p]]
  BY DEF PartlyTombstoned
<1>2. \A p \in gone : p \in DOMAIN b
  OBVIOUS
<1>. QED BY <1>1, <1>2 DEF FeedType

(* What a killed batch leaves behind is again an index. *)
LEMMA TornType ==
    ASSUME FeedType, NEW b \in Batch, NEW l \in Torn(b)
    PROVE  l \in [Path -> Seq(Content)]
<1>. DEFINE outcomes(p) ==
        {live[p], Applied(b)[p]}
          \cup (IF p \in DOMAIN b /\ NeedsNewEntry(b[p]) THEN {WithNew(p, live[p])} ELSE {})
<1>1. ASSUME NEW p \in Path PROVE outcomes(p) \subseteq Seq(Content)
  <2>1. live[p] \in Seq(Content) /\ Applied(b)[p] \in Seq(Content)
    BY AppliedFacts DEF FeedType
  <2>2. WithNew(p, live[p]) \in Seq(Content)
    BY <2>1, AppliedToType
  <2>. QED BY <2>1, <2>2
<1>2. l \in [Path -> UNION {outcomes(p) : p \in Path}] /\ \A p \in Path : l[p] \in outcomes(p)
  BY DEF Torn
<1>. HIDE DEF outcomes
<1>. QED BY <1>1, <1>2

(* Steady paths are paths. *)
LEMMA SteadyType == Steady \in SUBSET Path
  BY DEF Steady

(* The outputs before the first git command, and without a base commit, are well typed. *)
LEMMA NoneRanType == NoneRan \in [Command -> Output] /\ NoBase \in [Command -> Output]
<1>1. {} \in Output /\ {NoEvents} \in Output
  BY NoEventsBatch DEF Output
<1>2. NoneRan \in [Command -> Output]
  BY <1>1 DEF NoneRan
<1>. QED BY <1>1, <1>2 DEF NoBase, Command

(* The daemon's own writes put an event into the debouncer's window. *)
LEMMA OwnEvent ==
    ASSUME FeedType, OwnFilesWritten
    PROVE  win' \in Seq(Event)
<1>1. [path |-> Own, kind |-> "Modified"] \in Event
  BY DEF Event, ChangeKind
<1>. QED BY <1>1 DEF OwnFilesWritten, FeedType

(* What a catch-up holds when it begins is well typed, whichever way it goes. *)
LEMMA BeginType ==
    ASSUME FeedType, BeginCatchUp
    PROVE  /\ found' \in [Command -> Output]
           /\ base' \in Commit
           /\ plan' \in Batch
           /\ steady' \in SUBSET Path
           /\ cpc' \in {"hash", "stamp", "git"}
  BY NoneRanType, NoEventsBatch, SteadyType DEF BeginCatchUp, FeedType

\* What the watcher is told of a change of one file: events of that file, and the last one
\* agrees with it.
LEMMA NoticesFacts ==
    ASSUME NEW p \in Path, NEW old, NEW new, old # new, NEW s \in Notices(p, old, new)
    PROVE  /\ s \in Seq(Event)
           /\ s # <<>>
           /\ \A i \in DOMAIN s : s[i].path = p
           /\ s[Len(s)].kind = "Deleted" => new = {}
           /\ s[Len(s)].kind = "Created" => new # {}
<1>. DEFINE ev(k) == [path |-> p, kind |-> k]
<1>1. \/ \E k \in ChangeKind : /\ s = <<ev(k)>>
                               /\ k = "Deleted" => new = {}
                               /\ k = "Created" => new # {}
      \/ s = <<ev("Deleted"), ev("Created")>> /\ new # {}
  BY DEF Notices, ChangeKind
<1>2. \A k \in ChangeKind : ev(k) \in Event /\ ev(k).path = p /\ ev(k).kind = k
  BY DEF Event
<1>. HIDE DEF ev
<1>a. CASE s = <<ev("Deleted"), ev("Created")>> /\ new # {}
  <2>1. /\ ev("Deleted") \in Event /\ ev("Deleted").path = p
        /\ ev("Created") \in Event /\ ev("Created").path = p /\ ev("Created").kind = "Created"
    BY <1>2 DEF ChangeKind
  <2>. QED BY <1>a, <2>1
<1>b. ASSUME NEW k \in ChangeKind, s = <<ev(k)>>, k = "Deleted" => new = {}, k = "Created" => new # {}
      PROVE  /\ s \in Seq(Event)
             /\ s # <<>>
             /\ \A i \in DOMAIN s : s[i].path = p
             /\ s[Len(s)].kind = "Deleted" => new = {}
             /\ s[Len(s)].kind = "Created" => new # {}
  <2>1. s[1] = ev(k) /\ Len(s) = 1 /\ DOMAIN s = {1} /\ s # <<>>
    BY <1>b
  <2>2. s \in Seq(Event)
    BY <1>b, <1>2
  <2>. QED BY <1>b, <2>1, <2>2, <1>2
<1>. QED BY <1>1, <1>a, <1>b

\* What a user's step does: the paths in moved change somewhere in the repository; those in
\* told change in the working tree, and a running watcher is told of them, in events the last
\* of which agrees with the file.
UserEffect(moved, told, events) ==
    /\ moved \in SUBSET Path /\ told \in SUBSET moved /\ events \in Seq(Event)
    /\ \A p \in Path \ moved : stage'[p] = stage[p] /\ head'[p] = head[p]
    /\ \A p \in Path \ told : work'[p] = work[p] /\ Silent(events, p)
    /\ \A p \in told : /\ ~ Silent(events, p)
                       /\ \A i : Final(events, p, i) => FitsIn(work', p, events[i].kind)
    /\ steady' = steady \ moved
    /\ IF phase = "live" THEN win' = win \o events /\ lost' = lost \ told
                         ELSE UNCHANGED <<win, lost>>

(* Writing or removing one file has the shape of a user action. *)
LEMMA WriteEffect ==
    ASSUME FeedType, NEW p \in Path, NEW new \in Option, WriteFile(p, new)
    PROVE  \E moved, told, events : UserEffect(moved, told, events)
<1>1. PICK events \in Notices(p, work[p], new) : Notify(events, {p})
  BY DEF WriteFile
<1>2. /\ events \in Seq(Event)
      /\ events # <<>>
      /\ \A i \in DOMAIN events : events[i].path = p
      /\ events[Len(events)].kind = "Deleted" => new = {}
      /\ events[Len(events)].kind = "Created" => new # {}
  BY NoticesFacts DEF WriteFile
<1>3. work' = [work EXCEPT ![p] = new] /\ stage' = stage /\ head' = head /\ work \in Tree
  BY DEF WriteFile, FeedType
<1>4. work'[p] = new /\ \A q \in Path \ {p} : work'[q] = work[q]
  BY <1>3 DEF Tree
<1>5. \A q \in Path \ {p} : Silent(events, q)
  BY <1>2 DEF Silent
<1>6. Len(events) \in DOMAIN events
  BY <1>2
<1>7. ~ Silent(events, p)
  BY <1>2, <1>6 DEF Silent
<1>8. ASSUME NEW i, Final(events, p, i) PROVE FitsIn(work', p, events[i].kind)
  <2>1. i = Len(events)
    BY <1>2, <1>6, <1>8 DEF Final
  <2>. QED BY <2>1, <1>2, <1>4 DEF Fits, FitsIn
<1>9. UserEffect({p}, {p}, events)
  BY <1>1, <1>2, <1>3, <1>4, <1>5, <1>7, <1>8 DEF UserEffect, Notify
<1>. QED BY <1>9

\* git add and git commit change no file.
LEMMA GitEffect ==
    ASSUME FeedType, (\E p \in Path : GitAdd(p)) \/ GitCommit
    PROVE  \E moved, told, events : UserEffect(moved, told, events)
<1>1. \E moved \in SUBSET Path :
        /\ steady' = steady \ moved
        /\ UNCHANGED <<win, lost, work>>
        /\ \A p \in Path \ moved : stage'[p] = stage[p] /\ head'[p] = head[p]
  <2>1. ASSUME NEW p \in Path, GitAdd(p)
        PROVE  /\ steady' = steady \ {p}
               /\ UNCHANGED <<win, lost, work>>
               /\ \A q \in Path \ {p} : stage'[q] = stage[q] /\ head'[q] = head[q]
    BY <2>1 DEF GitAdd, NotifyNothing, FeedType, Tree
  <2>. DEFINE M == {p \in Path : head[p] # stage[p]}
  <2>2. ASSUME GitCommit
        PROVE  /\ steady' = steady \ M
               /\ UNCHANGED <<win, lost, work>>
               /\ \A q \in Path \ M : stage'[q] = stage[q] /\ head'[q] = head[q]
    BY <2>2 DEF GitCommit, NotifyNothing
  <2>3. M \in SUBSET Path
    OBVIOUS
  <2>. HIDE DEF M
  <2>. QED BY <2>1, <2>2, <2>3
<1>2. PICK moved \in SUBSET Path :
        /\ steady' = steady \ moved
        /\ UNCHANGED <<win, lost, work>>
        /\ \A p \in Path \ moved : stage'[p] = stage[p] /\ head'[p] = head[p]
  BY <1>1
<1>3. win \o <<>> = win /\ lost \ {} = lost /\ <<>> \in Seq(Event)
  BY DEF FeedType
<1>4. \A p : Silent(<<>>, p)
  BY DEF Silent
<1>5. UserEffect(moved, {}, <<>>)
  BY <1>2, <1>3, <1>4 DEF UserEffect
<1>. QED BY <1>5

(* A checkout has the shape of a user action. *)
LEMMA CheckoutEffect ==
    ASSUME FeedType, NEW new \in Tree, GitCheckout(new)
    PROVE  \E moved, told, events : UserEffect(moved, told, events)
<1>. DEFINE changed == {p \in Path : head[p] # new[p]}
<1>1. PICK order \in [1 .. Cardinality(changed) -> changed] :
        /\ \A p \in changed : \E i \in DOMAIN order : order[i] = p
        /\ Notify([i \in DOMAIN order |->
                     [path |-> order[i], kind |-> Kind(work[order[i]], new[order[i]])]], changed)
  BY DEF GitCheckout
<1>2. Cardinality(changed) \in Nat
  <2>1. changed \subseteq Path /\ IsFiniteSet(Path)
    BY FeedAssumption
  <2>2. IsFiniteSet(changed)
    BY <2>1, FS_Subset
  <2>. QED BY <2>2, FS_CardinalityType
<1>3. /\ work' = new /\ stage' = new /\ head' = new
      /\ work = head /\ stage = head
  BY DEF GitCheckout, WorkingTreeClean
<1>4. changed \in SUBSET Path /\ \A p \in Path : p \in changed <=> head[p] # new[p]
  OBVIOUS
<1>. HIDE DEF changed
<1>. DEFINE n == Cardinality(changed)
            ev(p) == [path |-> p, kind |-> Kind(work[p], new[p])]
            events == [i \in DOMAIN order |-> ev(order[i])]
<1>5. \A p \in Path : ev(p) \in Event /\ ev(p).path = p /\ ev(p).kind = Kind(work[p], new[p])
  BY KindType DEF Event
<1>6. Notify(events, changed)
  BY <1>1
<1>7. DOMAIN order = 1 .. n /\ n \in Nat /\ \A i \in 1 .. n : order[i] \in changed
  BY <1>1, <1>2
<1>. HIDE DEF n, ev
<1>8. events \in Seq(Event) /\ DOMAIN events = 1 .. n
  <2>1. events \in [1 .. n -> Event]
    BY <1>4, <1>5, <1>7
  <2>. QED BY <2>1, <1>7
<1>9. \A i \in 1 .. n : /\ events[i].path = order[i] /\ order[i] \in changed
                        /\ events[i].kind = Kind(work[order[i]], new[order[i]])
  BY <1>4, <1>5, <1>7
<1>10. \A p \in changed : \E i \in 1 .. n : order[i] = p
  BY <1>1, <1>7
<1>. HIDE DEF events
<1>11. \A p \in Path \ changed : work'[p] = work[p] /\ stage'[p] = stage[p] /\ head'[p] = head[p]
  BY <1>3, <1>4
<1>12. \A p \in Path \ changed : Silent(events, p)
  BY <1>8, <1>9 DEF Silent
<1>13. ASSUME NEW p \in changed
       PROVE  /\ ~ Silent(events, p)
              /\ \A i : Final(events, p, i) => FitsIn(work', p, events[i].kind)
  <2>1. ~ Silent(events, p)
    BY <1>8, <1>9, <1>10 DEF Silent
  <2>2. ASSUME NEW i, Final(events, p, i) PROVE FitsIn(work', p, events[i].kind)
    <3>1. i \in 1 .. n /\ order[i] = p /\ events[i].kind = Kind(work[p], new[p])
      BY <2>2, <1>8, <1>9 DEF Final
    <3>2. work[p] # new[p] /\ work'[p] = new[p]
      BY <1>3, <1>4
    <3>. QED BY <3>1, <3>2 DEF Fits, FitsIn, Kind
  <2>. QED BY <2>1, <2>2
<1>14. UserEffect(changed, changed, events)
  BY <1>4, <1>6, <1>8, <1>11, <1>12, <1>13 DEF UserEffect, Notify
<1>. QED BY <1>14

(* Every user action leaves the daemon alone, and all have one shape: the paths moved,
   those told of and the events. *)
LEMMA UsersEffect ==
    ASSUME FeedType, Users
    PROVE  /\ UNCHANGED <<disk, phase, catchup, dpc, seen, wrx, tx, lpc>>
           /\ work' \in Tree /\ stage' \in Tree /\ head' \in Tree
           /\ \E moved, told, events : UserEffect(moved, told, events)
<1>1. \E moved, told, events : UserEffect(moved, told, events)
  BY WriteEffect, GitEffect, CheckoutEffect DEF Users
<1>2. UNCHANGED <<disk, phase, catchup, dpc, seen, wrx, tx, lpc>>
  BY DEF Users, WriteFile, GitAdd, GitCommit, GitCheckout, Act
<1>3. work' \in Tree /\ stage' \in Tree /\ head' \in Tree
  BY DEF Users, WriteFile, GitAdd, GitCommit, GitCheckout, FeedType, Tree
<1>. QED BY <1>1, <1>2, <1>3

(* The variables have their types at the start. *)
LEMMA TypeInit == Init => FeedType
<1>. SUFFICES ASSUME Init PROVE FeedType
  OBVIOUS
<1>1. work \in Tree /\ stage \in Tree /\ head \in Tree
  BY DEF Init
<1>2. live \in [Path -> Seq(Content)]
  <2>. DEFINE first(p) == IF head[p] = {} THEN <<>> ELSE <<The(head[p])>>
  <2>1. ASSUME NEW p \in Path PROVE first(p) \in Seq(Content) /\ <<>> \in Seq(Content)
    <3>1. head[p] \in Option
      BY <1>1 DEF Tree
    <3>. QED BY <3>1, OptionFacts
  <2>2. live = [p \in Path |-> first(p)] \/ live = [p \in Path |-> <<>>]
    BY DEF Init
  <2>. HIDE DEF first
  <2>. QED BY <2>1, <2>2
<1>3. cp \in Commit /\ base \in Commit
  BY <1>1 DEF Init, Commit
<1>4. <<>> \in Seq(Event) /\ <<>> \in Seq(Seq(Event)) /\ <<>> \in Seq(Batch)
  OBVIOUS
<1>. QED BY <1>1, <1>2, <1>3, <1>4, NoneRanType, NoEventsBatch DEF Init, FeedType, Phase

(* Every step keeps the types. *)
LEMMA TypeStep == ASSUME FeedType, [Next]_vars PROVE FeedType'
<1>. USE DEF FeedType
<1>1. CASE Users
  <2>1. /\ UNCHANGED <<disk, phase, catchup, dpc, seen, wrx, tx, lpc>>
        /\ work' \in Tree /\ stage' \in Tree /\ head' \in Tree
        /\ \E moved, told, events : UserEffect(moved, told, events)
    BY <1>1, UsersEffect
  <2>2. PICK moved, told, events : UserEffect(moved, told, events)
    BY <2>1, Zenon
  <2>3. /\ events \in Seq(Event)
        /\ win' = win \o events \/ win' = win
        /\ lost' \in SUBSET lost /\ steady' \in SUBSET steady
    BY <2>2 DEF UserEffect
  <2>4. win' \in Seq(Event)
    <3>1. win \in Seq(Event) /\ events \in Seq(Event)
      BY <2>3
    <3>2. win \o events \in Seq(Event)
      BY <3>1, ConcatProperties
    <3>. QED BY <2>3, <3>1, <3>2
  <2>5. lost' \in SUBSET Path /\ steady' \in SUBSET Path
    BY <2>3
  <2>. QED BY <2>1, <2>4, <2>5 DEF disk, catchup
<1>2. CASE StartDaemon \/ StartWithoutCatchUp \/ Reindex
  BY <1>2, BeginType DEF StartDaemon, StartWithoutCatchUp, Reindex, repo, disk, catchup, detector,
     history, counters, Phase
<1>3. ASSUME NEW cmd \in Command, RunGit(cmd) PROVE FeedType'
  <2>1. GitOutput(cmd, base) \in Batch
    BY GitOutputFacts
  <2>2. found' \in [Command -> Output]
    BY <1>3, <2>1 DEF RunGit, Output
  <2>. QED BY <1>3, <2>2 DEF RunGit, repo, disk, detector, history, counters
<1>4. CASE DetectByGit \/ DetectByHash
  <2>1. DetectByGit => Merged(found) \in Batch
    BY MergedFacts DEF DetectByGit
  <2>2. HashDiff \in Batch
    BY DiffFacts DEF HashDiff
  <2>3. plan' \in Batch
    BY <1>4, <2>1, <2>2 DEF DetectByGit, DetectByHash, Decide
  <2>. QED BY <1>4, <2>3 DEF DetectByGit, DetectByHash, Decide, repo, disk, detector, history, counters
<1>5. CASE ApplyCatchUp
  <2>1. live' \in [Path -> Seq(Content)] /\ win' \in Seq(Event)
    BY <1>5, AppliedFacts, OwnEvent DEF ApplyCatchUp
  <2>. QED BY <1>5, <2>1 DEF ApplyCatchUp, repo, counters, Revived
<1>6. CASE StampCatchUp \/ StampLive
  <2>1. win' \in Seq(Event)
    BY <1>6, OwnEvent DEF StampCatchUp, StampLive, WriteCheckpoint, RecordHead
  <2>2. cp' \in Commit
    BY <1>6 DEF StampCatchUp, StampLive, WriteCheckpoint, RecordHead, Commit
  <2>. QED BY <1>6, <2>1, <2>2 DEF StampCatchUp, StampLive, EndCatchUp, repo, history, catchup
<1>7. CASE GoLive \/ FailGoLive
  BY <1>7, NoneRanType DEF GoLive, FailGoLive, repo, disk, detector, history, counters, Phase
<1>8. ASSUME NEW n \in 1 .. Len(win), Debounce(n) PROVE FeedType'
  <2>1. SubSeq(win, 1, n) \in Seq(Event) /\ SubSeq(win, n + 1, Len(win)) \in Seq(Event)
    OBVIOUS
  <2>. QED BY <1>8, <2>1 DEF Debounce, repo, disk, catchup, history, counters
<1>9. ASSUME NEW cmd \in Command, ScanGit(cmd) PROVE FeedType'
  <2>1. GitOutput(cmd, {}) \in Batch
    BY GitOutputFacts DEF Commit
  <2>2. seen' \in [Command -> Output]
    BY <1>9, <2>1 DEF ScanGit, Output
  <2>. QED BY <1>9, <2>2 DEF ScanGit, repo, disk, catchup, history, counters
<1>10. CASE SendScan \/ FailScan
  <2>1. SendScan => Merged(seen) \in Batch
    <3>1. SendScan => seen \in [Command -> Output] /\ AllRan(seen)
      BY DEF SendScan
    <3>. QED BY <3>1, MergedFacts
  <2>2. tx' \in Seq(Batch)
    <3>1. \/ tx' = tx
          \/ tx' = Append(tx, Merged(seen)) /\ Merged(seen) \in Batch
      BY <1>10, <2>1 DEF SendScan, FailScan
    <3>2. tx \in Seq(Batch)
      OBVIOUS
    <3>3. ASSUME NEW b \in Batch PROVE Append(tx, b) \in Seq(Batch)
      BY <3>2
    <3>. QED BY <3>1, <3>2, <3>3
  <2>. QED BY <1>10, <2>2, NoneRanType DEF SendScan, FailScan, repo, disk, catchup, history, counters
<1>11. CASE Forward
  <2>1. Head(wrx) \in Seq(Event) /\ Tail(wrx) \in Seq(Seq(Event))
    BY <1>11 DEF Forward
  <2>2. Dedup(Head(wrx)) \in Batch
    BY <2>1, DedupFacts
  <2>. QED BY <1>11, <2>1, <2>2 DEF Forward, repo, disk, catchup, history, counters
<1>12. CASE Poll
  BY <1>12 DEF Poll, repo, disk, catchup, history, counters
<1>13. CASE ApplyLive \/ FailLive
  <2>1. Head(tx) \in Batch /\ Tail(tx) \in Seq(Batch)
    BY <1>13 DEF ApplyLive, FailLive
  <2>2. live' \in [Path -> Seq(Content)]
    BY <1>13, <2>1, AppliedFacts, PartlyType DEF ApplyLive, FailLive
  <2>3. win' \in Seq(Event)
    BY <1>13, OwnEvent DEF ApplyLive, FailLive
  <2>. QED BY <1>13, <2>1, <2>2, <2>3 DEF ApplyLive, FailLive, repo, catchup, history, counters
<1>14. CASE FailGit
  BY <1>14 DEF FailGit, repo, disk, detector, history
<1>15. CASE FailCatchUp
  <2>1. live' \in [Path -> Seq(Content)]
    BY <1>15, PartlyType DEF FailCatchUp
  <2>. QED BY <1>15, <2>1 DEF FailCatchUp, EndCatchUp, repo, detector
<1>16. CASE MissEvent
  <2>1. Tail(win) \in Seq(Event)
    BY <1>16 DEF MissEvent
  <2>. QED BY <1>16, <2>1 DEF MissEvent, repo, disk, catchup
<1>17. CASE Kill
  <2>1. live' \in [Path -> Seq(Content)]
    <3>1. lpc = "recv" /\ tx # <<>> => Head(tx) \in Batch
      OBVIOUS
    <3>. QED BY <1>17, <3>1, TornType DEF Kill
  <2>2. <<>> \in Seq(Event) /\ <<>> \in Seq(Seq(Event)) /\ <<>> \in Seq(Batch) /\ {} \in Commit
    BY DEF Commit
  <2>. QED BY <1>17, <2>1, <2>2, NoneRanType, NoEventsBatch DEF Kill, repo, Phase
<1>18. CASE CompactLive
  <2>1. cp' \in Commit
    BY <1>18 DEF CompactLive, RecordHead, Commit
  <2>2. <<>> \in Seq(Event) /\ <<>> \in Seq(Seq(Event)) /\ <<>> \in Seq(Batch)
    OBVIOUS
  <2>. QED BY <1>18, <2>1, <2>2, NoneRanType DEF CompactLive, repo, catchup, history, Phase
<1>19. CASE UNCHANGED vars
  BY <1>19 DEF vars, repo, disk, catchup, detector, history
<1>. QED BY <1>1, <1>2, <1>3, <1>4, <1>5, <1>6, <1>7, <1>8, <1>9, <1>10, <1>11, <1>12, <1>13, <1>14,
         <1>15, <1>16, <1>17, <1>18, <1>19 DEF Next, CatchUpStep, DetectorStep, LiveStep, Fault

-----------------------------------------------------------------------------
(* Which threads are quiet in which phase *)

QuietInv ==
    /\ phase # "live" => win = <<>> /\ wrx = <<>> /\ tx = <<>> /\ dpc = "off" /\ lpc = "recv"
    /\ dpc # "scan" => seen = NoBase
    /\ seen["committed"] = {NoEvents}
    /\ phase = "down" => cpc = "idle"
    /\ phase \in {"live", "deaf"} => cpc \in {"idle", "git", "hash", "apply", "stamp"}

(* Without a base commit only the committed diff counts as run, and it is empty. *)
LEMMA NoBaseFacts ==
    /\ NoBase["committed"] = {NoEvents}
    /\ NoBase["unstaged"] = {} /\ NoBase["untracked"] = {}
  BY DEF NoBase, NoneRan, Command

(* Every step keeps what a phase says of the threads and queues that are not at work in
   it. *)
LEMMA QuietStep == ASSUME FeedType, QuietInv, [Next]_vars PROVE QuietInv'
<1>. USE DEF QuietInv
<1>1. CASE Users
  <2>1. /\ UNCHANGED <<disk, phase, catchup, dpc, seen, wrx, tx, lpc>>
        /\ \E moved, told, events : UserEffect(moved, told, events)
    BY <1>1, UsersEffect
  <2>2. phase # "live" => UNCHANGED win
    BY <2>1 DEF UserEffect
  <2>. QED BY <2>1, <2>2 DEF catchup
<1>2. CASE StartDaemon \/ StartWithoutCatchUp \/ Reindex
  BY <1>2, BeginType DEF StartDaemon, StartWithoutCatchUp, Reindex, detector, BeginCatchUp
<1>3. CASE CatchUpStep
  BY <1>3, NoBaseFacts DEF CatchUpStep, RunGit, DetectByGit, DetectByHash, Decide, ApplyCatchUp,
     StampCatchUp, WriteCheckpoint, RecordHead, OwnFilesWritten, EndCatchUp, GoLive, detector, FeedType, Phase
<1>4. CASE \E n \in 1 .. Len(win) : Debounce(n)
  BY <1>4 DEF Debounce, catchup
<1>5. ASSUME NEW cmd \in Command, ScanGit(cmd) PROVE QuietInv'
  <2>1. seen'["committed"] = {NoEvents}
    <3>1. cmd # "committed" /\ seen' = [seen EXCEPT ![cmd] = {GitOutput(cmd, {})}]
      BY <1>5 DEF ScanGit
    <3>. QED BY <3>1 DEF FeedType, Command
  <2>. QED BY <1>5, <2>1 DEF ScanGit, catchup
<1>6. CASE SendScan \/ FailScan \/ Forward \/ Poll
  BY <1>6, NoBaseFacts DEF SendScan, FailScan, Forward, Poll, catchup
<1>7. CASE ApplyLive \/ FailLive \/ StampLive
  BY <1>7 DEF ApplyLive, FailLive, StampLive, catchup
<1>8. CASE FailGit \/ FailCatchUp \/ FailGoLive
  BY <1>8 DEF FailGit, FailCatchUp, FailGoLive, EndCatchUp, detector, FeedType, Phase
<1>9. CASE MissEvent
  BY <1>9 DEF MissEvent, catchup
<1>10. CASE Kill \/ CompactLive
  BY <1>10, NoBaseFacts DEF Kill, CompactLive, catchup
<1>11. CASE UNCHANGED vars
  BY <1>11 DEF vars, catchup, detector
<1>. QED BY <1>1, <1>2, <1>3, <1>4, <1>5, <1>6, <1>7, <1>8, <1>9, <1>10, <1>11
         DEF Next, DetectorStep, LiveStep, Fault

-----------------------------------------------------------------------------
(* Catching up *)

\* The output b of a git command says of path p what is so now.
Prints(p, cmd, b) ==
    /\ cmd = "committed" => /\ p \in DOMAIN b <=> The(base)[p] # head[p]
                            /\ p \in DOMAIN b => b[p] = Kind(The(base)[p], head[p])
    /\ cmd = "unstaged"  => /\ p \in DOMAIN b <=> stage[p] # {} /\ stage[p] # work[p]
                            /\ p \in DOMAIN b => b[p] = Kind(stage[p], work[p])
    /\ cmd = "untracked" => /\ p \in DOMAIN b <=> stage[p] = {} /\ stage[p] # work[p]
                            /\ p \in DOMAIN b => b[p] = Kind(stage[p], work[p])

\* Of a path that nobody touches, git's outputs stay true, a path outside of the plan is
\* indexed, and one in it is there with a kind that agrees with the file.
Knows(p) ==
    /\ cpc = "git" => /\ base # {}
                      /\ Latest(p) = The(base)[p]
                      /\ stage[p] = head[p] \/ stage[p] # work[p]
                      /\ \A cmd \in Command : \A b \in found[cmd] : Prints(p, cmd, b)
    /\ cpc = "apply" => IF p \in DOMAIN plan THEN Fits(p, plan[p]) ELSE Latest(p) = work[p]
    /\ cpc \in {"stamp", "done"} => Latest(p) = work[p]

CatchInv == phase = "starting" => \A p \in steady : Knows(p)

\* git's three outputs together leave out no path that differs from its entry.
LEMMA MergedKnows ==
    ASSUME FeedType, NEW p \in Path, cpc = "git", Knows(p), AllRan(found)
    PROVE  IF p \in DOMAIN Merged(found) THEN Fits(p, Merged(found)[p]) ELSE Latest(p) = work[p]
<1>. DEFINE c == The(found["committed"])
            s == The(found["unstaged"])
            u == The(found["untracked"])
<1>0. found \in [Command -> Output]
  BY DEF FeedType
<1>1. c \in found["committed"] /\ s \in found["unstaged"] /\ u \in found["untracked"]
  <2>1. /\ found["committed"] \in Output /\ found["committed"] # {}
        /\ found["unstaged"] \in Output /\ found["unstaged"] # {}
        /\ found["untracked"] \in Output /\ found["untracked"] # {}
    BY <1>0 DEF AllRan, Command
  <2>. QED BY <2>1, OutputFacts
<1>2. Prints(p, "committed", c) /\ Prints(p, "unstaged", s) /\ Prints(p, "untracked", u)
  BY <1>1 DEF Knows, Command
<1>3. /\ DOMAIN Merged(found) = DOMAIN c \cup DOMAIN s \cup DOMAIN u
      /\ \A q \in DOMAIN u : Merged(found)[q] = u[q]
      /\ \A q \in DOMAIN s \ DOMAIN u : Merged(found)[q] = s[q]
      /\ \A q \in DOMAIN c \ (DOMAIN s \cup DOMAIN u) : Merged(found)[q] = c[q]
  BY <1>0, MergedFacts
<1>. HIDE DEF c, s, u
<1>4. Latest(p) = The(base)[p] /\ (stage[p] = head[p] \/ stage[p] # work[p])
  BY DEF Knows
<1>a. CASE p \in DOMAIN u
  BY <1>a, <1>2, <1>3, KindFits DEF Prints
<1>b. CASE p \in DOMAIN s \ DOMAIN u
  BY <1>b, <1>2, <1>3, KindFits DEF Prints
<1>c. CASE p \notin DOMAIN s \cup DOMAIN u
  <2>1. stage[p] = work[p] /\ head[p] = work[p]
    BY <1>c, <1>2, <1>4 DEF Prints
  <2>2. p \in DOMAIN c => The(base)[p] # work[p] /\ c[p] = Kind(The(base)[p], work[p])
    BY <2>1, <1>2 DEF Prints
  <2>3. p \notin DOMAIN c => The(base)[p] = work[p]
    BY <2>1, <1>2 DEF Prints
  <2>4. CASE p \in DOMAIN c
    <3>1. Fits(p, Kind(The(base)[p], work[p]))
      BY <2>2, <2>4, KindFits
    <3>. QED BY <3>1, <2>2, <2>4, <1>3, <1>c
  <2>5. CASE p \notin DOMAIN c
    BY <2>3, <2>5, <1>3, <1>4, <1>c
  <2>. QED BY <2>4, <2>5
<1>. QED BY <1>a, <1>b, <1>c

\* What is known of a path depends on that path's files and on the catch-up alone.
LEMMA KnowsSame ==
    ASSUME NEW p, Knows(p), UNCHANGED catchup, live'[p] = live[p],
           work'[p] = work[p], stage'[p] = stage[p], head'[p] = head[p]
    PROVE  Knows(p)'
  BY DEF Knows, Prints, Fits, FitsIn, Latest, catchup, The

(* The version a search returns is the newest live one. *)
LEMMA LatestNewest == ASSUME NEW p PROVE Latest(p) = Newest(live[p]) /\ Latest(p)' = Newest(live'[p])
  BY DEF Latest, Newest

(* Every step keeps the invariant of the catch-up: a steady path is as indexed, planned,
   or still to be found by a command. *)
LEMMA CatchStep == ASSUME FeedType, QuietInv, CatchInv, [Next]_vars PROVE CatchInv'
<1>. SUFFICES ASSUME phase' = "starting", NEW p \in steady' PROVE Knows(p)'
  BY DEF CatchInv
<1>1. CASE StartDaemon
  <2>1. /\ base' = cp /\ found' = NoneRan /\ plan' = NoEvents
        /\ p \in Steady /\ p \in Path
        /\ cpc' = IF cp = {} THEN "hash" ELSE IF NothingChanged THEN "stamp" ELSE "git"
        /\ UNCHANGED <<work, stage, head, live>>
    BY <1>1, SteadyType DEF StartDaemon, BeginCatchUp, repo, disk
  <2>2. cp # {} => /\ Latest(p) = The(cp)[p]
                   /\ stage[p] = head[p] \/ stage[p] # work[p]
    BY <2>1 DEF Steady
  <2>3. NothingChanged => The(cp)[p] = work[p]
    BY TheOne DEF NothingChanged, WorkingTreeClean
  <2>4. Latest(p)' = Latest(p) /\ (The(base)[p])' = The(cp)[p]
    BY <2>1 DEF Latest
  <2>5. \A cmd \in Command : found'[cmd] = {}
    BY <2>1 DEF NoneRan
  <2>. QED BY <2>1, <2>2, <2>3, <2>4, <2>5 DEF Knows
<1>2. CASE phase # "starting" /\ ~ StartDaemon
  <2>1. cpc' = "skipped"
    BY <1>2 DEF Next, vars, Users, WriteFile, GitAdd, GitCommit, GitCheckout, Act,
       StartWithoutCatchUp, Reindex, CatchUpStep, RunGit, DetectByGit, DetectByHash, Decide,
       ApplyCatchUp, StampCatchUp, GoLive, Debounce, DetectorStep, ScanGit, SendScan, Forward, Poll,
       LiveStep, ApplyLive, StampLive, CompactLive, Fault, FailGit, FailCatchUp, FailGoLive, MissEvent, FailScan,
       FailLive, Kill
  <2>. QED BY <2>1 DEF Knows
<1>3. CASE phase = "starting" /\ ~ StartDaemon
  <2>0. /\ \A q \in steady : Knows(q)
        /\ win = <<>> /\ wrx = <<>> /\ tx = <<>> /\ dpc = "off" /\ lpc = "recv"
    BY <1>3 DEF CatchInv, QuietInv
  <2>1. CASE Users
    <3>1. PICK moved, told, events : UserEffect(moved, told, events)
      BY <2>1, UsersEffect
    <3>2. UNCHANGED <<disk, catchup>>
      BY <2>1, UsersEffect
    <3>3. p \in steady /\ p \in Path /\ p \notin moved /\ p \notin told
      BY <3>1 DEF UserEffect, FeedType
    <3>4. work'[p] = work[p] /\ stage'[p] = stage[p] /\ head'[p] = head[p]
      BY <3>1, <3>3 DEF UserEffect
    <3>. QED BY <2>0, <3>2, <3>3, <3>4, KnowsSame DEF disk
  <2>2. ASSUME NEW cmd \in Command, RunGit(cmd) PROVE Knows(p)'
    <3>1. /\ UNCHANGED <<work, stage, head, live, cpc, base, plan>>
          /\ cpc = "git" /\ p \in steady /\ p \in Path /\ Knows(p)
          /\ found' = [found EXCEPT ![cmd] = {GitOutput(cmd, base)}]
      BY <2>2, <2>0 DEF RunGit, repo, disk, history, FeedType
    <3>2. base # {} /\ base \in Commit /\ \A c \in Command : \A b \in found[c] : Prints(p, c, b)
      BY <3>1 DEF Knows, FeedType
    <3>3. Prints(p, cmd, GitOutput(cmd, base))
      BY <3>1, <3>2, GitOutputFacts DEF Prints
    <3>4. ASSUME NEW c \in Command, NEW b \in found'[c]
          PROVE  b \in found[c] \/ (c = cmd /\ b = GitOutput(cmd, base))
      <4>1. DOMAIN found = Command
        BY DEF FeedType
      <4>. QED BY <3>1, <4>1
    <3>5. \A c \in Command : \A b \in found'[c] : Prints(p, c, b)
      BY <3>2, <3>3, <3>4
    <3>6. ASSUME NEW c, NEW b PROVE Prints(p, c, b)' = Prints(p, c, b)
      BY <3>1 DEF Prints, The
    <3>7. \A c \in Command : \A b \in found'[c] : Prints(p, c, b)'
      BY <3>5, <3>6
    <3>. QED BY <3>1, <3>2, <3>7 DEF Knows, Latest, The
  <2>3. CASE DetectByGit \/ DetectByHash
    <3>1. /\ UNCHANGED <<work, stage, head, live>>
          /\ p \in steady /\ p \in Path /\ Knows(p)
          /\ cpc' = IF plan' = NoEvents THEN "stamp" ELSE "apply"
          /\ \/ cpc = "git" /\ AllRan(found) /\ plan' = Merged(found)
             \/ plan' = HashDiff
      BY <2>3, <2>0 DEF DetectByGit, DetectByHash, Decide, repo, disk, history, FeedType
    <3>2. IF p \in DOMAIN HashDiff THEN Fits(p, HashDiff[p]) ELSE Latest(p) = work[p]
      <4>. DEFINE old == [q \in Path |-> Latest(q)]
      <4>1. HashDiff = Diff(old, work, Path) /\ old[p] = Latest(p)
        BY <3>1 DEF HashDiff
      <4>. HIDE DEF old
      <4>2. /\ p \in DOMAIN HashDiff <=> old[p] # work[p]
            /\ old[p] # work[p] => HashDiff[p] = Kind(old[p], work[p])
        BY <3>1, <4>1, DiffFacts
      <4>. QED BY <4>1, <4>2, KindFits
    <3>3. IF p \in DOMAIN plan' THEN Fits(p, plan'[p]) ELSE Latest(p) = work[p]
      BY <3>1, <3>2, MergedKnows
    <3>4. cpc' = "stamp" => p \notin DOMAIN plan'
      BY <3>1, NoEventsBatch
    <3>5. Latest(p)' = Latest(p) /\ Fits(p, plan[p])' = Fits(p, plan'[p])
      BY <3>1 DEF Latest, Fits, FitsIn
    <3>. QED BY <3>1, <3>3, <3>4, <3>5 DEF Knows
  <2>4. CASE ApplyCatchUp
    <3>1. /\ UNCHANGED <<work, stage, head>>
          /\ p \in steady /\ p \in Path /\ Knows(p)
          /\ cpc = "apply" /\ cpc' = "stamp" /\ live' = Applied(plan) /\ plan \in Batch
      BY <2>4, <2>0 DEF ApplyCatchUp, repo, FeedType
    <3>2. live'[p] = IF p \in DOMAIN plan THEN AppliedTo(p, plan[p]) ELSE live[p]
      BY <3>1, AppliedFacts
    <3>3. IF p \in DOMAIN plan THEN Fits(p, plan[p]) /\ plan[p] \in ChangeKind ELSE Latest(p) = work[p]
      BY <3>1, BatchFacts DEF Knows
    <3>4. Newest(live'[p]) = work[p]
      BY <3>1, <3>2, <3>3, AppliedFits, LatestNewest
    <3>. QED BY <3>1, <3>4, LatestNewest DEF Knows
  <2>5. CASE StampCatchUp \/ FailGit
    BY <2>5, <2>0 DEF StampCatchUp, FailGit, EndCatchUp, repo, disk, history, Knows, Latest
  <2>6. CASE FailCatchUp \/ GoLive \/ FailGoLive \/ StartWithoutCatchUp \/ Kill
    BY <2>6, <1>3 DEF FailCatchUp, EndCatchUp, GoLive, FailGoLive, StartWithoutCatchUp, Kill, Knows
  <2>7. CASE \/ \E n \in 1 .. Len(win) : Debounce(n)
             \/ MissEvent \/ DetectorStep \/ Poll \/ LiveStep \/ FailScan \/ FailLive \/ Reindex
    BY <2>7, <2>0, <1>3 DEF Debounce, MissEvent, DetectorStep, ScanGit, SendScan, Forward, Poll, LiveStep,
       ApplyLive, StampLive, CompactLive, FailScan, FailLive, Reindex
  <2>8. CASE UNCHANGED vars
    <3>1. p \in steady /\ UNCHANGED <<work, stage, head, live, catchup>>
      BY <2>8 DEF vars, repo, disk, catchup, history
    <3>. QED BY <3>1, <2>0, KnowsSame
  <2>. QED BY <1>3, <2>1, <2>2, <2>3, <2>4, <2>5, <2>6, <2>7, <2>8 DEF Next, CatchUpStep, Fault
<1>. QED BY <1>1, <1>2, <1>3

CatchIndInv == FeedType /\ QuietInv /\ CatchInv

(* Nothing is at work at the start. *)
LEMMA QuietInit == Init => QuietInv
  BY NoBaseFacts DEF Init, QuietInv

\* A catch-up at start that reports success has indexed every file it could know of, whether
\* it compared commits, compared hashes or took the fast path of try_git_catchup.
THEOREM StartCatchesUp == Spec => []CaughtUp
<1>1. Init => CatchIndInv
  BY TypeInit, QuietInit DEF CatchIndInv, CatchInv, Init
<1>2. CatchIndInv /\ [Next]_vars => CatchIndInv'
  BY TypeStep, QuietStep, CatchStep DEF CatchIndInv
<1>3. CatchIndInv => CaughtUp
  BY DEF CatchIndInv, CatchInv, Knows, CaughtUp
<1>. QED BY <1>1, <1>2, <1>3, PTL DEF Spec

-----------------------------------------------------------------------------
(* Live: the last report on its way agrees with the file *)

\* The last event of p in s, if there is one, agrees with the file in tree.
LastFits(tree, s, p) == \A i : Final(s, p, i) => FitsIn(tree, p, s[i].kind)

QueueSilent(w, p) == \A k \in DOMAIN w : Silent(w[k], p)

\* The same of the last batch of the watcher's channel that names p.
QueueFits(tree, w, p) ==
    \A k \in DOMAIN w : (\A m \in DOMAIN w : m > k => Silent(w[m], p)) => LastFits(tree, w[k], p)

ScanFits(tree, outputs, p) ==
    \A cmd \in {"unstaged", "untracked"} : \A b \in outputs[cmd] :
        p \in DOMAIN b => FitsIn(tree, p, b[p])

NotSent(t, p) == \A k \in DOMAIN t : p \notin DOMAIN t[k]

\* The same of the last batch of the detector's channel that names p.
SentFits(tree, t, p) ==
    \A k \in DOMAIN t :
        p \in DOMAIN t[k] /\ (\A m \in DOMAIN t : m > k => p \notin DOMAIN t[m])
          => FitsIn(tree, p, t[k][p])

\* Later reports make earlier ones irrelevant, so a report is asked about only if none follows
\* it: the debouncer's, then the watcher channel's, then the scan's and the detector channel's.
\* A path that none of them names is indexed as it is.
Heard(p) ==
    /\ LastFits(work, win, p)
    /\ Silent(win, p) => QueueFits(work, wrx, p)
    /\ Silent(win, p) /\ QueueSilent(wrx, p) =>
         /\ ScanFits(work, seen, p)
         /\ SentFits(work, tx, p)
         /\ NotSent(tx, p) => Latest(p) = work[p]

ReportInv == phase = "live" => \A p \in Path \ lost : Heard(p)

(* The last report of a path in two queues in a row is that of the second, unless the
   second is silent about it. *)
LEMMA ConcatLast ==
    ASSUME NEW s \in Seq(Event), NEW t \in Seq(Event), NEW p, NEW tree
    PROVE  /\ Silent(s \o t, p) <=> Silent(s, p) /\ Silent(t, p)
           /\ ~ Silent(t, p) => (LastFits(tree, s \o t, p) <=> LastFits(tree, t, p))
           /\ Silent(t, p) => (LastFits(tree, s \o t, p) <=> LastFits(tree, s, p))
<1>. DEFINE st == s \o t
<1>0. /\ Len(s) \in Nat /\ Len(t) \in Nat /\ DOMAIN s = 1 .. Len(s) /\ DOMAIN t = 1 .. Len(t)
      /\ DOMAIN st = 1 .. Len(s) + Len(t)
      /\ \A i \in 1 .. Len(s) : st[i] = s[i]
      /\ \A i \in 1 .. Len(t) : st[Len(s) + i] = t[i]
  OBVIOUS
<1>1. \A i \in DOMAIN st : \/ i \in DOMAIN s
                           \/ i - Len(s) \in DOMAIN t /\ st[i] = t[i - Len(s)]
  <2>1. \A i \in DOMAIN st : i \notin DOMAIN s => i - Len(s) \in 1 .. Len(t) /\ Len(s) + (i - Len(s)) = i
    BY <1>0
  <2>. QED BY <1>0, <2>1
<1>. HIDE DEF st
<1>2. Silent(st, p) <=> Silent(s, p) /\ Silent(t, p)
  <2>1. Silent(st, p) => Silent(s, p)
    BY <1>0 DEF Silent
  <2>2. Silent(st, p) => Silent(t, p)
    <3>1. \A i \in DOMAIN t : Len(s) + i \in DOMAIN st /\ st[Len(s) + i] = t[i]
      BY <1>0
    <3>. QED BY <3>1 DEF Silent
  <2>3. Silent(s, p) /\ Silent(t, p) => Silent(st, p)
    BY <1>0, <1>1 DEF Silent
  <2>. QED BY <2>1, <2>2, <2>3
<1>3. ASSUME ~ Silent(t, p) PROVE LastFits(tree, st, p) <=> LastFits(tree, t, p)
  <2>1. ASSUME NEW j, Final(t, p, j) PROVE Final(st, p, Len(s) + j) /\ st[Len(s) + j] = t[j]
    <3>1. j \in 1 .. Len(t) /\ st[Len(s) + j] = t[j] /\ t[j].path = p /\ Len(s) + j \in DOMAIN st
      BY <2>1, <1>0 DEF Final
    <3>2. ASSUME NEW i \in DOMAIN st, st[i].path = p PROVE i <= Len(s) + j
      <4>1. CASE i \in DOMAIN s
        BY <4>1, <3>1, <1>0
      <4>2. CASE i - Len(s) \in DOMAIN t /\ st[i] = t[i - Len(s)]
        <5>1. i - Len(s) <= j
          BY <4>2, <3>2, <2>1 DEF Final
        <5>. QED BY <5>1, <3>1, <1>0
      <4>. QED BY <4>1, <4>2, <1>1
    <3>. QED BY <3>1, <3>2 DEF Final
  <2>2. ASSUME NEW i, Final(st, p, i) PROVE \E j : Final(t, p, j) /\ i = Len(s) + j
    <3>1. PICK j \in DOMAIN t : Final(t, p, j)
      BY <1>3, FinalExists
    <3>2. Final(st, p, Len(s) + j)
      BY <2>1, <3>1
    <3>3. i = Len(s) + j
      BY <2>2, <3>2, <1>0 DEF Final
    <3>. QED BY <3>1, <3>3
  <2>3. LastFits(tree, st, p) => LastFits(tree, t, p)
    <3>. SUFFICES ASSUME LastFits(tree, st, p), NEW j, Final(t, p, j)
                  PROVE  FitsIn(tree, p, t[j].kind)
      BY DEF LastFits
    <3>1. Final(st, p, Len(s) + j) /\ st[Len(s) + j] = t[j]
      BY <2>1
    <3>2. FitsIn(tree, p, st[Len(s) + j].kind)
      BY <3>1 DEF LastFits
    <3>. QED BY <3>1, <3>2
  <2>4. LastFits(tree, t, p) => LastFits(tree, st, p)
    <3>. SUFFICES ASSUME LastFits(tree, t, p), NEW i, Final(st, p, i)
                  PROVE  FitsIn(tree, p, st[i].kind)
      BY DEF LastFits
    <3>1. PICK j : Final(t, p, j) /\ i = Len(s) + j
      BY <2>2
    <3>2. st[i] = t[j]
      BY <3>1, <2>1
    <3>3. FitsIn(tree, p, t[j].kind)
      BY <3>1 DEF LastFits
    <3>. QED BY <3>2, <3>3
  <2>. QED BY <2>3, <2>4
<1>4. ASSUME Silent(t, p) PROVE LastFits(tree, st, p) <=> LastFits(tree, s, p)
  <2>1. ASSUME NEW i \in DOMAIN st, st[i].path = p PROVE i \in DOMAIN s /\ st[i] = s[i]
    BY <2>1, <1>0, <1>1, <1>4 DEF Silent
  <2>2. \A i \in DOMAIN s : i \in DOMAIN st /\ st[i] = s[i]
    BY <1>0
  <2>3. ASSUME NEW i PROVE Final(st, p, i) <=> Final(s, p, i)
    BY <2>1, <2>2 DEF Final
  <2>4. ASSUME NEW i, Final(s, p, i) PROVE st[i] = s[i]
    BY <2>4, <2>2 DEF Final
  <2>. QED BY <2>3, <2>4 DEF LastFits
<1>. QED BY <1>2, <1>3, <1>4 DEF st

\* A report that comes in front of the others matters only to its own path.
LEMMA HeardFrame ==
    ASSUME NEW p, Heard(p), work'[p] = work[p], UNCHANGED <<wrx, seen, tx>>,
           Silent(win', p) => Silent(win, p),
           LastFits(work', win', p),
           Latest(p) = work[p] => Latest(p)' = work[p]
    PROVE  Heard(p)'
<1>1. \A k : FitsIn(work', p, k) <=> FitsIn(work, p, k)
  BY DEF FitsIn
<1>2. \A s : LastFits(work', s, p) <=> LastFits(work, s, p)
  BY <1>1 DEF LastFits
<1>3. QueueFits(work', wrx', p) <=> QueueFits(work, wrx, p)
  BY <1>2 DEF QueueFits
<1>4. ScanFits(work', seen', p) <=> ScanFits(work, seen, p)
  BY <1>1 DEF ScanFits
<1>5. SentFits(work', tx', p) <=> SentFits(work, tx, p)
  BY <1>1 DEF SentFits
<1>. QED BY <1>3, <1>4, <1>5 DEF Heard, QueueSilent, NotSent

\* The daemon's own files are no path of the repository.
LEMMA OwnSilent ==
    ASSUME FeedType, OwnFilesWritten, NEW p \in Path
    PROVE  /\ Silent(win', p) <=> Silent(win, p)
           /\ LastFits(work, win', p) <=> LastFits(work, win, p)
<1>. DEFINE own == <<[path |-> Own, kind |-> "Modified"]>>
<1>1. own \in Seq(Event) /\ win \in Seq(Event)
  BY DEF Event, ChangeKind, FeedType
<1>2. Silent(own, p)
  BY FeedAssumption DEF Silent
<1>3. win' = win \/ win' = win \o own
  BY <1>1 DEF OwnFilesWritten
<1>. HIDE DEF own
<1>4. /\ Silent(win \o own, p) <=> Silent(win, p) /\ Silent(own, p)
      /\ Silent(own, p) => (LastFits(work, win \o own, p) <=> LastFits(work, win, p))
  BY <1>1, ConcatLast
<1>. QED BY <1>2, <1>3, <1>4

(* The debouncer moves reports to the detector's channel and loses none. *)
LEMMA DebounceHeard ==
    ASSUME FeedType, NEW p \in Path, Heard(p), NEW n \in 1 .. Len(win), Debounce(n)
    PROVE  Heard(p)'
<1>. DEFINE A == SubSeq(win, 1, n)
            B == SubSeq(win, n + 1, Len(win))
<1>1. win \in Seq(Event) /\ wrx \in Seq(Seq(Event)) /\ n \in 1 .. Len(win)
  BY DEF FeedType
<1>2. A \in Seq(Event) /\ B \in Seq(Event) /\ win = A \o B
  BY <1>1
<1>3. wrx' = Append(wrx, A) /\ win' = B /\ UNCHANGED <<work, seen, tx, live>>
  BY DEF Debounce, repo, disk
<1>. HIDE DEF A, B
<1>4. /\ Silent(win, p) <=> Silent(A, p) /\ Silent(B, p)
      /\ ~ Silent(B, p) => (LastFits(work, win, p) <=> LastFits(work, B, p))
      /\ Silent(B, p) => (LastFits(work, win, p) <=> LastFits(work, A, p))
  BY <1>2, ConcatLast
<1>5. /\ DOMAIN wrx' = 1 .. Len(wrx) + 1 /\ DOMAIN wrx = 1 .. Len(wrx) /\ Len(wrx) \in Nat
      /\ wrx'[Len(wrx) + 1] = A
      /\ \A k \in 1 .. Len(wrx) : wrx'[k] = wrx[k]
  BY <1>1, <1>2, <1>3
<1>6. LastFits(work, B, p)
  <2>1. CASE ~ Silent(B, p)
    BY <2>1, <1>4 DEF Heard
  <2>2. CASE Silent(B, p)
    BY <2>2 DEF LastFits, Final, Silent
  <2>. QED BY <2>1, <2>2
<1>7. ASSUME Silent(B, p) PROVE QueueFits(work, wrx', p)
  <2>. SUFFICES ASSUME NEW k \in DOMAIN wrx', \A m \in DOMAIN wrx' : m > k => Silent(wrx'[m], p)
                PROVE  LastFits(work, wrx'[k], p)
    BY DEF QueueFits
  <2>1. CASE k = Len(wrx) + 1
    BY <2>1, <1>4, <1>5, <1>7 DEF Heard
  <2>2. CASE k \in 1 .. Len(wrx)
    <3>1. Silent(A, p)
      BY <2>2, <1>5
    <3>2. QueueFits(work, wrx, p)
      BY <3>1, <1>4, <1>7 DEF Heard
    <3>3. \A m \in DOMAIN wrx : m > k => Silent(wrx[m], p)
      BY <1>5
    <3>. QED BY <2>2, <3>2, <3>3, <1>5 DEF QueueFits
  <2>. QED BY <2>1, <2>2, <1>5
<1>8. QueueSilent(wrx', p) => Silent(A, p) /\ QueueSilent(wrx, p)
  BY <1>5 DEF QueueSilent
<1>9. Latest(p)' = Latest(p)
  BY <1>3 DEF Latest
<1>. QED BY <1>3, <1>4, <1>6, <1>7, <1>8, <1>9 DEF Heard

(* A git command of the periodic scan does not disturb the reports on their way. *)
LEMMA ScanHeard ==
    ASSUME FeedType, NEW p \in Path, Heard(p), NEW cmd \in Command, ScanGit(cmd)
    PROVE  Heard(p)'
<1>1. UNCHANGED <<work, win, wrx, tx, live>> /\ seen' = [seen EXCEPT ![cmd] = {GitOutput(cmd, {})}]
  BY DEF ScanGit, repo, disk
<1>2. DOMAIN seen = Command /\ {} \in Commit
  BY DEF FeedType, Commit
<1>3. cmd \in {"unstaged", "untracked"} /\ p \in DOMAIN GitOutput(cmd, {}) =>
        FitsIn(work, p, GitOutput(cmd, {})[p])
  BY <1>2, GitOutputFacts, KindFits DEF Fits
<1>4. ScanFits(work, seen, p) => ScanFits(work, seen', p)
  <2>. SUFFICES ASSUME ScanFits(work, seen, p), NEW c \in {"unstaged", "untracked"}, NEW b \in seen'[c],
                       p \in DOMAIN b
                PROVE  FitsIn(work, p, b[p])
    BY DEF ScanFits
  <2>1. c \in Command /\ (b \in seen[c] \/ (c = cmd /\ b = GitOutput(cmd, {})))
    BY <1>1, <1>2 DEF Command
  <2>. QED BY <2>1, <1>3 DEF ScanFits
<1>5. Latest(p)' = Latest(p)
  BY <1>1 DEF Latest
<1>. QED BY <1>1, <1>4, <1>5 DEF Heard

(* A scan that ends sends what it found behind the reports already queued, and what it
   found agrees with the files. *)
LEMMA SendHeard ==
    ASSUME FeedType, QuietInv, NEW p \in Path, Heard(p), SendScan \/ FailScan
    PROVE  Heard(p)'
<1>1. UNCHANGED <<work, win, wrx, live>> /\ seen' = NoBase
  BY DEF SendScan, FailScan, repo, disk
<1>2. ScanFits(work, seen', p)
  BY <1>1, NoBaseFacts DEF ScanFits
<1>3. Latest(p)' = Latest(p)
  BY <1>1 DEF Latest
<1>4. CASE tx' = tx
  BY <1>1, <1>2, <1>3, <1>4 DEF Heard
<1>5. CASE tx' # tx
  <2>. DEFINE m == Merged(seen)
              c == The(seen["committed"])
              s == The(seen["unstaged"])
              u == The(seen["untracked"])
  <2>1. AllRan(seen) /\ tx' = Append(tx, m) /\ seen \in [Command -> Output] /\ tx \in Seq(Batch)
    BY <1>5 DEF SendScan, FailScan, FeedType
  <2>2. /\ m \in Batch
        /\ DOMAIN m = DOMAIN c \cup DOMAIN s \cup DOMAIN u
        /\ \A q \in DOMAIN u : m[q] = u[q]
        /\ \A q \in DOMAIN s \ DOMAIN u : m[q] = s[q]
    <3>1. AllRan(seen) /\ seen \in [Command -> Output]
      BY <2>1
    <3>. QED BY <3>1, MergedFacts
  <2>3. DOMAIN c = {}
    BY TheOne, NoEventsBatch DEF QuietInv
  <2>4. s \in seen["unstaged"] /\ u \in seen["untracked"]
    <3>1. /\ seen["unstaged"] \in Output /\ seen["unstaged"] # {}
          /\ seen["untracked"] \in Output /\ seen["untracked"] # {}
      BY <2>1 DEF AllRan, Command
    <3>. QED BY <3>1, OutputFacts
  <2>. HIDE DEF m, c, s, u
  <2>5. ScanFits(work, seen, p) /\ p \in DOMAIN m => FitsIn(work, p, m[p])
    BY <2>2, <2>3, <2>4 DEF ScanFits
  <2>6. /\ DOMAIN tx' = 1 .. Len(tx) + 1 /\ DOMAIN tx = 1 .. Len(tx) /\ Len(tx) \in Nat
        /\ tx'[Len(tx) + 1] = m
        /\ \A k \in 1 .. Len(tx) : tx'[k] = tx[k]
    BY <2>1, <2>2
  <2>7. ScanFits(work, seen, p) /\ SentFits(work, tx, p) => SentFits(work, tx', p)
    <3>. SUFFICES ASSUME ScanFits(work, seen, p), SentFits(work, tx, p), NEW k \in DOMAIN tx',
                         p \in DOMAIN tx'[k], \A j \in DOMAIN tx' : j > k => p \notin DOMAIN tx'[j]
                  PROVE  FitsIn(work, p, tx'[k][p])
      BY DEF SentFits
    <3>1. CASE k = Len(tx) + 1
      BY <3>1, <2>5, <2>6
    <3>2. CASE k \in 1 .. Len(tx)
      BY <3>2, <2>6 DEF SentFits
    <3>. QED BY <3>1, <3>2, <2>6
  <2>8. NotSent(tx', p) => NotSent(tx, p)
    BY <2>6 DEF NotSent
  <2>. QED BY <1>1, <1>2, <1>3, <2>7, <2>8 DEF Heard
<1>. QED BY <1>4, <1>5

(* The detector forwards reports in their order. *)
LEMMA ForwardHeard ==
    ASSUME FeedType, QuietInv, NEW p \in Path, Heard(p), Forward
    PROVE  Heard(p)'
<1>. DEFINE h == Head(wrx)
            d == Dedup(h)
<1>1. /\ UNCHANGED <<work, win, live, seen>> /\ seen = NoBase
      /\ tx' = Append(tx, d) /\ wrx' = Tail(wrx) /\ wrx # <<>>
  BY DEF Forward, repo, disk, QuietInv
<1>2. wrx \in Seq(Seq(Event)) /\ h \in Seq(Event) /\ tx \in Seq(Batch)
  BY <1>1 DEF FeedType
<1>3. /\ d \in Batch
      /\ p \in DOMAIN d <=> ~ Silent(h, p)
      /\ \A i : Final(h, p, i) => d[p] = h[i].kind
  BY <1>2, DedupFacts
<1>4. /\ DOMAIN wrx = 1 .. Len(wrx) /\ Len(wrx) \in Nat /\ Len(wrx) >= 1 /\ wrx[1] = h
      /\ DOMAIN wrx' = 1 .. Len(wrx) - 1
      /\ \A k \in 1 .. Len(wrx) - 1 : wrx'[k] = wrx[k + 1]
  BY <1>1, <1>2
<1>. HIDE DEF d, h
<1>5. /\ DOMAIN tx' = 1 .. Len(tx) + 1 /\ DOMAIN tx = 1 .. Len(tx) /\ Len(tx) \in Nat
      /\ tx'[Len(tx) + 1] = d
      /\ \A k \in 1 .. Len(tx) : tx'[k] = tx[k]
  BY <1>1, <1>2, <1>3
<1>6. QueueFits(work, wrx, p) => QueueFits(work, wrx', p)
  <2>. SUFFICES ASSUME QueueFits(work, wrx, p), NEW k \in DOMAIN wrx',
                       \A m \in DOMAIN wrx' : m > k => Silent(wrx'[m], p)
                PROVE  LastFits(work, wrx'[k], p)
    BY DEF QueueFits
  <2>1. k + 1 \in DOMAIN wrx /\ wrx'[k] = wrx[k + 1]
    BY <1>4
  <2>2. ASSUME NEW m \in DOMAIN wrx, m > k + 1 PROVE Silent(wrx[m], p)
    <3>1. m - 1 \in DOMAIN wrx' /\ m - 1 > k /\ wrx'[m - 1] = wrx[m]
      BY <1>4, <2>2
    <3>. QED BY <3>1
  <2>. QED BY <2>1, <2>2 DEF QueueFits
<1>7. ASSUME QueueSilent(wrx', p), NEW m \in DOMAIN wrx, m > 1 PROVE Silent(wrx[m], p)
  <2>1. m - 1 \in DOMAIN wrx' /\ wrx'[m - 1] = wrx[m]
    BY <1>4, <1>7
  <2>. QED BY <2>1, <1>7 DEF QueueSilent
<1>8. ScanFits(work, seen, p)
  BY <1>1, NoBaseFacts DEF ScanFits
<1>9. Latest(p)' = Latest(p)
  BY <1>1 DEF Latest
<1>10. CASE Silent(h, p)
  <2>1. QueueSilent(wrx', p) => QueueSilent(wrx, p)
    BY <1>4, <1>7, <1>10 DEF QueueSilent
  <2>2. SentFits(work, tx, p) => SentFits(work, tx', p)
    BY <1>3, <1>5, <1>10 DEF SentFits
  <2>3. NotSent(tx', p) => NotSent(tx, p)
    BY <1>5 DEF NotSent
  <2>. QED BY <1>1, <1>6, <1>8, <1>9, <2>1, <2>2, <2>3 DEF Heard
<1>11. CASE ~ Silent(h, p)
  <2>1. Silent(win, p) /\ QueueSilent(wrx', p) => FitsIn(work, p, d[p])
    <3>. SUFFICES ASSUME Silent(win, p), QueueSilent(wrx', p) PROVE FitsIn(work, p, d[p])
      OBVIOUS
    <3>1. LastFits(work, h, p)
      BY <1>4, <1>7 DEF Heard, QueueFits
    <3>2. PICK i \in DOMAIN h : Final(h, p, i)
      BY <1>2, <1>11, FinalExists
    <3>. QED BY <3>1, <3>2, <1>3 DEF LastFits
  <2>2. FitsIn(work, p, d[p]) => SentFits(work, tx', p)
    BY <1>3, <1>5, <1>11 DEF SentFits
  <2>3. ~ NotSent(tx', p)
    BY <1>3, <1>5, <1>11 DEF NotSent
  <2>. QED BY <1>1, <1>6, <1>8, <2>1, <2>2, <2>3 DEF Heard
<1>. QED BY <1>10, <1>11

(* Applying the first batch indexes what it reports; a batch that fails marks its paths
   lost. *)
LEMMA TakeHeard ==
    ASSUME FeedType, NEW p \in Path \ lost', Heard(p), ApplyLive \/ FailLive
    PROVE  Heard(p)'
<1>. DEFINE h == Head(tx)
<1>1. UNCHANGED <<work, wrx, seen>> /\ tx' = Tail(tx) /\ tx # <<>>
  BY DEF ApplyLive, FailLive, repo
<1>2. tx \in Seq(Batch) /\ h \in Batch
  BY <1>1 DEF FeedType
<1>3. /\ DOMAIN tx = 1 .. Len(tx) /\ Len(tx) \in Nat /\ Len(tx) >= 1 /\ tx[1] = h
      /\ DOMAIN tx' = 1 .. Len(tx) - 1
      /\ \A k \in 1 .. Len(tx) - 1 : tx'[k] = tx[k + 1]
  BY <1>1, <1>2
<1>4. /\ Silent(win', p) <=> Silent(win, p)
      /\ LastFits(work, win', p) <=> LastFits(work, win, p)
  <2>1. OwnFilesWritten \/ win' = win
    BY DEF ApplyLive, FailLive
  <2>. QED BY <2>1, OwnSilent
<1>5. p \notin DOMAIN h => live'[p] = live[p]
  <2>1. ApplyLive => live' = Applied(h)
    BY DEF ApplyLive
  <2>2. FailLive => live' \in PartlyTombstoned(h)
    BY DEF FailLive
  <2>. QED BY <1>2, <2>1, <2>2, AppliedFacts, PartlyType
<1>6. p \in DOMAIN h => ApplyLive /\ live'[p] = AppliedTo(p, h[p]) /\ h[p] \in ChangeKind
  <2>1. ApplyLive => live' = Applied(h)
    BY DEF ApplyLive
  <2>2. FailLive => p \notin DOMAIN h
    BY DEF FailLive
  <2>. QED BY <1>2, <2>1, <2>2, AppliedFacts, BatchFacts
<1>. HIDE DEF h
<1>7. SentFits(work, tx, p) => SentFits(work, tx', p)
  <2>. SUFFICES ASSUME SentFits(work, tx, p), NEW k \in DOMAIN tx', p \in DOMAIN tx'[k],
                       \A m \in DOMAIN tx' : m > k => p \notin DOMAIN tx'[m]
                PROVE  FitsIn(work, p, tx'[k][p])
    BY DEF SentFits
  <2>1. k + 1 \in DOMAIN tx /\ tx'[k] = tx[k + 1]
    BY <1>3
  <2>2. ASSUME NEW m \in DOMAIN tx, m > k + 1 PROVE p \notin DOMAIN tx[m]
    <3>1. m - 1 \in DOMAIN tx' /\ m - 1 > k /\ tx'[m - 1] = tx[m]
      BY <1>3, <2>2
    <3>. QED BY <3>1
  <2>. QED BY <2>1, <2>2 DEF SentFits
<1>8. ASSUME NotSent(tx', p), NEW m \in DOMAIN tx, m > 1 PROVE p \notin DOMAIN tx[m]
  <2>1. m - 1 \in DOMAIN tx' /\ tx'[m - 1] = tx[m]
    BY <1>3, <1>8
  <2>. QED BY <2>1, <1>8 DEF NotSent
<1>9. ASSUME NotSent(tx', p), SentFits(work, tx, p), NotSent(tx, p) => Latest(p) = work[p]
      PROVE  Newest(live'[p]) = work[p]
  <2>1. CASE p \in DOMAIN h
    <3>1. FitsIn(work, p, h[p])
      BY <1>3, <1>8, <1>9, <2>1 DEF SentFits
    <3>. QED BY <3>1, <2>1, <1>6, AppliedFits DEF Fits
  <2>2. CASE p \notin DOMAIN h
    <3>1. NotSent(tx, p)
      BY <1>3, <1>8, <1>9, <2>2 DEF NotSent
    <3>. QED BY <3>1, <2>2, <1>5, <1>9, LatestNewest
  <2>. QED BY <2>1, <2>2
<1>. QED BY <1>1, <1>4, <1>7, <1>9, LatestNewest DEF Heard

(* A user action that moves a path is reported by an event behind all others, or marks the
   path lost. *)
LEMMA UsersHeard ==
    ASSUME FeedType, ReportInv, phase = "live", NEW p \in Path \ lost', Users
    PROVE  Heard(p)'
<1>1. PICK moved, told, events : UserEffect(moved, told, events)
  BY UsersEffect, Zenon
<1>2. UNCHANGED <<disk, seen, wrx, tx>>
  BY UsersEffect
<1>3. win \in Seq(Event) /\ events \in Seq(Event) /\ win' = win \o events /\ lost' = lost \ told
  BY <1>1 DEF UserEffect, FeedType
<1>4. /\ Silent(win', p) <=> Silent(win, p) /\ Silent(events, p)
      /\ ~ Silent(events, p) => (LastFits(work', win', p) <=> LastFits(work', events, p))
      /\ Silent(events, p) => (LastFits(work', win', p) <=> LastFits(work', win, p))
  BY <1>3, ConcatLast
<1>5. CASE p \in told
  <2>1. ~ Silent(events, p) /\ LastFits(work', events, p)
    BY <1>1, <1>5 DEF UserEffect, LastFits
  <2>. QED BY <1>4, <2>1 DEF Heard
<1>6. CASE p \notin told
  <2>1. work'[p] = work[p] /\ Silent(events, p) /\ Heard(p)
    BY <1>1, <1>3, <1>6 DEF UserEffect, ReportInv
  <2>2. LastFits(work', win', p)
    BY <1>4, <2>1 DEF Heard, LastFits, FitsIn
  <2>3. Latest(p)' = Latest(p)
    BY <1>2 DEF Latest, disk
  <2>. QED BY <1>2, <1>4, <2>1, <2>2, <2>3, HeardFrame
<1>. QED BY <1>5, <1>6

\* The steps of a catch-up beside the live thread, and the other steps that send no report.
LEMMA BesideHeard ==
    ASSUME FeedType, NEW p \in Path \ lost', p \notin lost, phase = "live", Heard(p),
           \/ StartDaemon \/ StartWithoutCatchUp \/ Reindex
           \/ \E cmd \in Command : RunGit(cmd)
           \/ DetectByGit \/ DetectByHash \/ ApplyCatchUp \/ StampCatchUp \/ StampLive
           \/ FailGit \/ FailCatchUp \/ MissEvent \/ Poll \/ UNCHANGED vars
    PROVE  Heard(p)'
<1>1. UNCHANGED <<work, wrx, seen, tx>>
  BY DEF StartDaemon, StartWithoutCatchUp, Reindex, RunGit, DetectByGit, DetectByHash, Decide,
     ApplyCatchUp, StampCatchUp, StampLive, FailGit, FailCatchUp, MissEvent, Poll, vars, repo, detector
<1>2. \/ UNCHANGED win
      \/ OwnFilesWritten
      \/ MissEvent
  BY DEF StartDaemon, StartWithoutCatchUp, Reindex, RunGit, DetectByGit, DetectByHash, Decide,
     ApplyCatchUp, StampCatchUp, StampLive, WriteCheckpoint, FailGit, FailCatchUp, Poll, vars, detector
<1>3. /\ Silent(win', p) => Silent(win, p)
      /\ LastFits(work', win', p)
  <2>1. CASE UNCHANGED win
    BY <1>1, <2>1 DEF Heard
  <2>2. CASE OwnFilesWritten
    BY <1>1, <2>2, OwnSilent DEF Heard
  <2>3. CASE MissEvent
    <3>. DEFINE first == <<Head(win)>>
    <3>1. /\ win # <<>> /\ win' = Tail(win) /\ Head(win).path # p /\ win \in Seq(Event)
      BY <2>3 DEF MissEvent, FeedType
    <3>2. /\ first \in Seq(Event) /\ win' \in Seq(Event) /\ win = first \o win'
          /\ Len(first) = 1 /\ first[1] = Head(win)
      BY <3>1
    <3>3. Silent(first, p)
      BY <3>1, <3>2 DEF Silent
    <3>. HIDE DEF first
    <3>4. /\ Silent(win, p) <=> Silent(first, p) /\ Silent(win', p)
          /\ ~ Silent(win', p) => (LastFits(work, win, p) <=> LastFits(work, win', p))
      <4>1. \A t \in Seq(Event) :
               /\ Silent(first \o t, p) <=> Silent(first, p) /\ Silent(t, p)
               /\ ~ Silent(t, p) => (LastFits(work, first \o t, p) <=> LastFits(work, t, p))
        BY <3>2, ConcatLast
      <4>. QED BY <3>2, <4>1
    <3>5. Silent(win', p) => LastFits(work, win', p)
      BY DEF LastFits, Final, Silent
    <3>. QED BY <1>1, <3>3, <3>4, <3>5 DEF Heard
  <2>. QED BY <1>2, <2>1, <2>2, <2>3
<1>4. Latest(p) = work[p] => Latest(p)' = work[p]
  <2>1. CASE ApplyCatchUp
    <3>1. live' = Applied(plan) /\ plan \in Batch /\ p \notin Revived(plan)
      BY <2>1 DEF ApplyCatchUp, FeedType
    <3>2. live'[p] = IF p \in DOMAIN plan THEN AppliedTo(p, plan[p]) ELSE live[p]
      BY <3>1, AppliedFacts
    <3>3. p \in DOMAIN plan => plan[p] \in ChangeKind /\ ~ (plan[p] = "Deleted" /\ work[p] # {})
      BY <3>1, BatchFacts DEF Revived
    <3>. QED BY <3>2, <3>3, AppliedFits, LatestNewest
  <2>2. CASE FailCatchUp
    <3>1. p \notin DOMAIN plan /\ (live' = live \/ live' \in PartlyTombstoned(plan))
      BY <2>2 DEF FailCatchUp
    <3>2. live'[p] = live[p]
      BY <3>1, PartlyType
    <3>. QED BY <3>2, LatestNewest
  <2>3. CASE ~ ApplyCatchUp /\ ~ FailCatchUp
    <3>1. live' = live
      BY <2>3 DEF StartDaemon, StartWithoutCatchUp, Reindex, RunGit, DetectByGit, DetectByHash, Decide,
         StampCatchUp, StampLive, FailGit, MissEvent, Poll, vars, disk
    <3>. QED BY <3>1, LatestNewest
  <2>. QED BY <2>1, <2>2, <2>3
<1>. QED BY <1>1, <1>3, <1>4, HeardFrame

(* Every step keeps every path heard of: indexed as it is, or with a last report that
   agrees with it. *)
LEMMA ReportStep == ASSUME FeedType, QuietInv, ReportInv, [Next]_vars PROVE ReportInv'
<1>. SUFFICES ASSUME phase' = "live", NEW p \in Path \ lost' PROVE Heard(p)'
  BY DEF ReportInv
<1>1. CASE GoLive
  <2>1. /\ win' = <<>> /\ wrx' = <<>> /\ tx' = <<>> /\ seen' = NoBase
        /\ UNCHANGED <<work, live>> /\ Latest(p) = work[p]
    BY <1>1 DEF GoLive, QuietInv, repo, disk
  <2>2. Latest(p)' = Latest(p)
    BY <2>1 DEF Latest
  <2>3. /\ LastFits(work', win', p) /\ QueueFits(work', wrx', p) /\ SentFits(work', tx', p)
        /\ ScanFits(work', seen', p)
    BY <2>1, NoBaseFacts DEF LastFits, Final, QueueFits, SentFits, ScanFits
  <2>. QED BY <2>1, <2>2, <2>3 DEF Heard
<1>2. CASE ~ GoLive
  <2>1. phase = "live"
    BY <1>2 DEF Next, vars, Users, WriteFile, GitAdd, GitCommit, GitCheckout, Act, StartDaemon,
       StartWithoutCatchUp, Reindex, CatchUpStep, RunGit, DetectByGit, DetectByHash, Decide,
       ApplyCatchUp, StampCatchUp, Debounce, DetectorStep, ScanGit, SendScan, Forward, Poll,
       LiveStep, ApplyLive, StampLive, CompactLive, Fault, FailGit, FailCatchUp, FailGoLive, MissEvent, FailScan,
       FailLive, Kill
  <2>2. CASE Users
    BY <2>1, <2>2, UsersHeard
  <2>3. CASE ~ Users
    <3>1. p \notin lost /\ ~ FailGoLive /\ ~ Kill /\ ~ CompactLive
      BY <1>2, <2>1, <2>3 DEF Next, vars, StartDaemon,
         StartWithoutCatchUp, Reindex, CatchUpStep, RunGit, DetectByGit, DetectByHash, Decide,
         ApplyCatchUp, StampCatchUp, Debounce, DetectorStep, ScanGit, SendScan, Forward, Poll,
         LiveStep, ApplyLive, StampLive, CompactLive, Fault, FailGit, FailCatchUp, FailGoLive, MissEvent, FailScan,
         FailLive, Kill, history
    <3>2. Heard(p)
      BY <2>1, <3>1 DEF ReportInv
    <3>3. CASE \E n \in 1 .. Len(win) : Debounce(n)
      BY <3>2, <3>3, DebounceHeard
    <3>4. CASE \E cmd \in Command : ScanGit(cmd)
      BY <3>2, <3>4, ScanHeard
    <3>5. CASE SendScan \/ FailScan
      BY <3>2, <3>5, SendHeard
    <3>6. CASE Forward
      BY <3>2, <3>6, ForwardHeard
    <3>7. CASE ApplyLive \/ FailLive
      BY <3>2, <3>7, TakeHeard
    <3>8. CASE \/ StartDaemon \/ StartWithoutCatchUp \/ Reindex
               \/ \E cmd \in Command : RunGit(cmd)
               \/ DetectByGit \/ DetectByHash \/ ApplyCatchUp \/ StampCatchUp \/ StampLive
               \/ FailGit \/ FailCatchUp \/ MissEvent \/ Poll \/ UNCHANGED vars
      BY <2>1, <3>1, <3>2, <3>8, BesideHeard
    <3>. QED BY <1>2, <2>3, <3>1, <3>3, <3>4, <3>5, <3>6, <3>7, <3>8
             DEF Next, CatchUpStep, DetectorStep, LiveStep, Fault
  <2>. QED BY <2>2, <2>3
<1>. QED BY <1>1, <1>2

-----------------------------------------------------------------------------
\* The last batch that names p is the one LastIn looks at.
LEMMA LastInFacts ==
    ASSUME NEW n \in Nat, NEW f, DOMAIN f = 1 .. n, NEW p
    PROVE  /\ (\A k \in 1 .. n : p \notin DOMAIN f[k]) => LastIn(f, p) = {}
           /\ (\E k \in 1 .. n : p \in DOMAIN f[k]) =>
                \E k \in 1 .. n : /\ p \in DOMAIN f[k]
                                  /\ \A m \in 1 .. n : m > k => p \notin DOMAIN f[m]
                                  /\ LastIn(f, p) = {f[k][p]}
<1>. DEFINE naming == {i \in 1 .. n : p \in DOMAIN f[i]}
            last   == {k \in naming : \A m \in naming : m <= k}
<1>1. LastIn(f, p) = {f[i][p] : i \in last}
  BY DEF LastIn
<1>2. (\A k \in 1 .. n : p \notin DOMAIN f[k]) => last = {}
  OBVIOUS
<1>3. ASSUME \E k \in 1 .. n : p \in DOMAIN f[k]
      PROVE  \E k \in 1 .. n : /\ p \in DOMAIN f[k]
                               /\ \A m \in 1 .. n : m > k => p \notin DOMAIN f[m]
                               /\ LastIn(f, p) = {f[k][p]}
  <2>1. naming \in SUBSET (0 .. n) /\ naming # {}
    BY <1>3
  <2>2. PICK k \in naming : \A m \in naming : m <= k
    BY <2>1, LastExists
  <2>3. last = {k}
    BY <2>2
  <2>4. LastIn(f, p) = {f[k][p]}
    BY <1>1, <2>3
  <2>. QED BY <2>2, <2>4
<1>. QED BY <1>1, <1>2, <1>3

\* A report of kind k: the file is what NoChangeLost asks of it.
LEMMA ReportFits ==
    ASSUME FeedType, QuietInv, NEW p \in Path, Heard(p)
    PROVE  \/ LastReport(p) = {} /\ Latest(p) = work[p]
           \/ \E k \in ChangeKind : LastReport(p) = {k} /\ Fits(p, k)
<1>. DEFINE inWin == LastIn(<<Dedup(win)>>, p)
            inWrx == LastIn([i \in DOMAIN wrx |-> Dedup(wrx[i])], p)
            inTx  == LastIn(tx, p)
            dd    == [i \in DOMAIN wrx |-> Dedup(wrx[i])]
<1>0. /\ win \in Seq(Event) /\ wrx \in Seq(Seq(Event)) /\ tx \in Seq(Batch)
      /\ Len(wrx) \in Nat /\ Len(tx) \in Nat /\ DOMAIN wrx = 1 .. Len(wrx) /\ DOMAIN tx = 1 .. Len(tx)
      /\ \A k \in 1 .. Len(wrx) : wrx[k] \in Seq(Event)
      /\ \A k \in 1 .. Len(tx) : tx[k] \in Batch
  BY DEF FeedType
<1>1. LastReport(p) = IF inWin # {} THEN inWin
                      ELSE IF inWrx # {} THEN inWrx
                      ELSE IF Scanned(p) # {} THEN Scanned(p) ELSE inTx
  BY DEF LastReport
<1>2. ASSUME NEW s \in Seq(Event), ~ Silent(s, p), LastFits(work, s, p)
      PROVE  Dedup(s)[p] \in ChangeKind /\ Fits(p, Dedup(s)[p])
  <2>1. PICK i \in DOMAIN s : Final(s, p, i)
    BY <1>2, FinalExists
  <2>2. Dedup(s)[p] = s[i].kind /\ p \in DOMAIN Dedup(s) /\ Dedup(s) \in Batch
    BY <1>2, <2>1, DedupFacts
  <2>3. Dedup(s)[p] \in ChangeKind
    BY <2>2, BatchFacts
  <2>. QED BY <1>2, <2>1, <2>2, <2>3 DEF LastFits, Fits
<1>3. /\ Silent(win, p) => inWin = {}
      /\ ~ Silent(win, p) => inWin = {Dedup(win)[p]}
  <2>. DEFINE f == <<Dedup(win)>>
  <2>1. DOMAIN f = 1 .. 1 /\ f[1] = Dedup(win) /\ 1 \in Nat
    OBVIOUS
  <2>2. p \in DOMAIN Dedup(win) <=> ~ Silent(win, p)
    BY <1>0, DedupFacts
  <2>3. inWin = LastIn(f, p)
    OBVIOUS
  <2>. HIDE DEF f, inWin
  <2>4. /\ (\A k \in 1 .. 1 : p \notin DOMAIN f[k]) => LastIn(f, p) = {}
        /\ (\E k \in 1 .. 1 : p \in DOMAIN f[k]) => \E k \in 1 .. 1 : LastIn(f, p) = {f[k][p]}
    BY <2>1, LastInFacts
  <2>5. \A k \in 1 .. 1 : k = 1
    OBVIOUS
  <2>. QED BY <2>1, <2>2, <2>3, <2>4, <2>5
<1>4. /\ QueueSilent(wrx, p) => inWrx = {}
      /\ ~ QueueSilent(wrx, p) =>
            \E k \in 1 .. Len(wrx) : /\ ~ Silent(wrx[k], p)
                                     /\ \A m \in DOMAIN wrx : m > k => Silent(wrx[m], p)
                                     /\ inWrx = {Dedup(wrx[k])[p]}
  <2>1. DOMAIN dd = 1 .. Len(wrx) /\ \A k \in 1 .. Len(wrx) : dd[k] = Dedup(wrx[k])
    BY <1>0
  <2>2. \A k \in 1 .. Len(wrx) : p \in DOMAIN dd[k] <=> ~ Silent(wrx[k], p)
    BY <1>0, <2>1, DedupFacts
  <2>3. inWrx = LastIn(dd, p)
    OBVIOUS
  <2>. HIDE DEF dd, inWrx
  <2>4. (\A k \in 1 .. Len(wrx) : p \notin DOMAIN dd[k]) => LastIn(dd, p) = {}
    BY <1>0, <2>1, LastInFacts
  <2>5. QueueSilent(wrx, p) => inWrx = {}
    BY <1>0, <2>2, <2>3, <2>4 DEF QueueSilent
  <2>6. ASSUME ~ QueueSilent(wrx, p)
        PROVE  \E k \in 1 .. Len(wrx) : /\ ~ Silent(wrx[k], p)
                                        /\ \A m \in DOMAIN wrx : m > k => Silent(wrx[m], p)
                                        /\ inWrx = {Dedup(wrx[k])[p]}
    <3>1. \E k \in 1 .. Len(wrx) : p \in DOMAIN dd[k]
      BY <1>0, <2>2, <2>6 DEF QueueSilent
    <3>2. PICK k \in 1 .. Len(wrx) : /\ p \in DOMAIN dd[k]
                                     /\ \A m \in 1 .. Len(wrx) : m > k => p \notin DOMAIN dd[m]
                                     /\ LastIn(dd, p) = {dd[k][p]}
      BY <1>0, <2>1, <3>1, LastInFacts
    <3>3. dd[k] = Dedup(wrx[k]) /\ ~ Silent(wrx[k], p)
      BY <2>1, <2>2, <3>2
    <3>5. inWrx = {Dedup(wrx[k])[p]}
      BY <2>3, <3>2, <3>3, Zenon
    <3>4. \A m \in DOMAIN wrx : m > k => Silent(wrx[m], p)
      BY <1>0, <2>2, <3>2
    <3>. QED BY <3>3, <3>4, <3>5
  <2>. QED BY <2>5, <2>6
<1>5. /\ NotSent(tx, p) => inTx = {}
      /\ ~ NotSent(tx, p) =>
            \E k \in 1 .. Len(tx) : /\ p \in DOMAIN tx[k]
                                    /\ \A m \in DOMAIN tx : m > k => p \notin DOMAIN tx[m]
                                    /\ inTx = {tx[k][p]}
  BY <1>0, LastInFacts DEF NotSent
<1>6. \/ Scanned(p) = {}
      \/ \E cmd \in {"unstaged", "untracked"} : \E b \in seen[cmd] :
            p \in DOMAIN b /\ Scanned(p) = {b[p]} /\ b[p] \in ChangeKind
  <2>. DEFINE naming(cmd) == {b \in seen[cmd] : p \in DOMAIN b}
  <2>1. Scanned(p) = IF naming("untracked") # {} THEN {b[p] : b \in naming("untracked")}
                     ELSE {b[p] : b \in naming("unstaged")}
    BY DEF Scanned
  <2>2. ASSUME NEW cmd \in {"unstaged", "untracked"}, naming(cmd) # {}
        PROVE  \E b \in seen[cmd] : p \in DOMAIN b /\ naming(cmd) = {b} /\ b[p] \in ChangeKind
    <3>1. seen[cmd] \in Output /\ seen[cmd] # {}
      BY <2>2 DEF FeedType, Command
    <3>2. The(seen[cmd]) \in Batch /\ seen[cmd] = {The(seen[cmd])}
      BY <3>1, OutputFacts
    <3>3. PICK b : b \in Batch /\ seen[cmd] = {b}
      BY <3>2
    <3>. QED BY <2>2, <3>3, BatchFacts
  <2>. HIDE DEF naming
  <2>3. CASE naming("untracked") # {}
    <3>1. PICK b \in seen["untracked"] : p \in DOMAIN b /\ naming("untracked") = {b} /\ b[p] \in ChangeKind
      BY <2>2, <2>3
    <3>. QED BY <2>1, <2>3, <3>1
  <2>4. CASE naming("untracked") = {} /\ naming("unstaged") # {}
    <3>1. PICK b \in seen["unstaged"] : p \in DOMAIN b /\ naming("unstaged") = {b} /\ b[p] \in ChangeKind
      BY <2>2, <2>4
    <3>. QED BY <2>1, <2>4, <3>1
  <2>5. CASE naming("untracked") = {} /\ naming("unstaged") = {}
    BY <2>1, <2>5
  <2>. QED BY <2>3, <2>4, <2>5
<1>. HIDE DEF inWin, inWrx, inTx
<1>7. CASE ~ Silent(win, p)
  BY <1>0, <1>1, <1>2, <1>3, <1>7 DEF Heard
<1>8. CASE Silent(win, p) /\ ~ QueueSilent(wrx, p)
  <2>1. PICK k \in 1 .. Len(wrx) : /\ ~ Silent(wrx[k], p)
                                   /\ \A m \in DOMAIN wrx : m > k => Silent(wrx[m], p)
                                   /\ inWrx = {Dedup(wrx[k])[p]}
    BY <1>4, <1>8
  <2>2. LastFits(work, wrx[k], p)
    BY <1>0, <1>8, <2>1 DEF Heard, QueueFits
  <2>3. Dedup(wrx[k])[p] \in ChangeKind /\ Fits(p, Dedup(wrx[k])[p])
    BY <1>0, <1>2, <2>1, <2>2
  <2>4. LastReport(p) = inWrx
    BY <1>1, <1>3, <1>8, <2>1
  <2>. QED BY <2>1, <2>3, <2>4
<1>9. CASE Silent(win, p) /\ QueueSilent(wrx, p) /\ Scanned(p) # {}
  <2>1. ScanFits(work, seen, p)
    BY <1>9 DEF Heard
  <2>2. LastReport(p) = Scanned(p)
    BY <1>1, <1>3, <1>4, <1>9
  <2>. QED BY <1>6, <1>9, <2>1, <2>2 DEF ScanFits, Fits
<1>10. CASE Silent(win, p) /\ QueueSilent(wrx, p) /\ Scanned(p) = {}
  <2>1. SentFits(work, tx, p) /\ (NotSent(tx, p) => Latest(p) = work[p])
    BY <1>10 DEF Heard
  <2>2. LastReport(p) = inTx
    BY <1>1, <1>3, <1>4, <1>10
  <2>3. CASE NotSent(tx, p)
    BY <1>5, <2>1, <2>2, <2>3
  <2>4. CASE ~ NotSent(tx, p)
    <3>1. PICK k \in 1 .. Len(tx) : /\ p \in DOMAIN tx[k]
                                    /\ \A m \in DOMAIN tx : m > k => p \notin DOMAIN tx[m]
                                    /\ inTx = {tx[k][p]}
      BY <1>5, <2>4
    <3>2. Fits(p, tx[k][p])
      BY <1>0, <2>1, <3>1 DEF SentFits, Fits
    <3>3. tx[k][p] \in ChangeKind
      BY <1>0, <3>1, BatchFacts
    <3>. QED BY <2>2, <3>1, <3>2, <3>3
  <2>. QED BY <2>3, <2>4
<1>. QED BY <1>7, <1>8, <1>9, <1>10

ReportIndInv == FeedType /\ QuietInv /\ ReportInv

\* While the daemon is live, every file is indexed as it is or the last report on its way
\* agrees with it, in whatever order edits, branch switches, scans, the debouncer, the live
\* thread and a Reindex beside it take their steps.
THEOREM ChangesAreReported == Spec => []NoChangeLost
<1>1. Init => ReportIndInv
  BY TypeInit, QuietInit DEF ReportIndInv, ReportInv, Init
<1>2. ReportIndInv /\ [Next]_vars => ReportIndInv'
  BY TypeStep, QuietStep, ReportStep DEF ReportIndInv
<1>3. ReportIndInv => NoChangeLost
  <2>. SUFFICES ASSUME ReportIndInv, phase = "live", NEW p \in Path \ lost
                PROVE  \/ LastReport(p) = {} /\ Latest(p) = work[p]
                       \/ LastReport(p) = {"Deleted"} /\ work[p] = {}
                       \/ LastReport(p) = {"Created"} /\ work[p] # {}
                       \/ LastReport(p) \in {{"Modified"}, {"Renamed"}}
    BY DEF NoChangeLost
  <2>1. \/ LastReport(p) = {} /\ Latest(p) = work[p]
        \/ \E k \in ChangeKind : LastReport(p) = {k} /\ Fits(p, k)
    BY ReportFits DEF ReportIndInv, ReportInv
  <2>. QED BY <2>1 DEF ChangeKind, Fits, FitsIn
<1>. QED BY <1>1, <1>2, <1>3, PTL DEF Spec
=============================================================================
