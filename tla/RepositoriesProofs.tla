------------------------- MODULE RepositoriesProofs -------------------------
(***************************************************************************)
(* The index `ferret init` builds, the registry and the web server's map,  *)
(* for every number of repositories, files, processes, edits and kills.    *)
(*                                                                         *)
(* FilterInv follows a build that nobody disturbs from the removal of the  *)
(* old segments to its checkpoint.  SaveInv says that a save that does not *)
(* overlap another owns the temporary file and that a fresh copy is the    *)
(* registry with the command's change; MapInv, that at most one handler    *)
(* stands between its save and its update of the map.                      *)
(***************************************************************************)
EXTENDS Repositories, FiniteSetTheorems, SequenceTheorems, WellFoundedInduction, TLAPS

-----------------------------------------------------------------------------
(* Indices: the first, the last, and the ones `retain` keeps. *)

\* A set of numbers that is not empty has a least member.
LEMMA Least ==
  ASSUME NEW T \in SUBSET Nat, T # {}
  PROVE  \E x \in T : \A y \in T : x <= y
<1>. DEFINE R == {e \in Nat \X Nat : e[1] < e[2]}
<1>1. IsWellFoundedOn(R, Nat)
  BY NatLessThanWellFounded DEF OpToRel
<1>. HIDE DEF R
<1>2. PICK x \in T : \A y \in T : ~ (<<y, x>> \in R)
  BY <1>1, WFMin
<1>3. ASSUME NEW y \in T PROVE x <= y
  <2>1. <<y, x>> \in Nat \X Nat /\ ~ (<<y, x>> \in R)
    BY <1>2
  <2>2. ~ (y < x)
    BY <2>1 DEF R
  <2>. QED BY <2>2
<1>. QED BY <1>3

\* ... and, below a bound, a greatest one.
LEMMA Greatest ==
  ASSUME NEW n \in Nat, NEW T, T \subseteq 0 .. n, T # {}
  PROVE  \E x \in T : \A y \in T : x >= y
<1>. DEFINE U == {k \in Nat : \E x \in T : k = n - x}
<1>1. U \in SUBSET Nat
  OBVIOUS
<1>0. U # {}
  <2>1. PICK x \in T : TRUE
    OBVIOUS
  <2>2. n - x \in U
    BY <2>1
  <2>. QED BY <2>2
<1>. HIDE DEF U
<1>2. PICK k \in U : \A j \in U : k <= j
  BY <1>0, <1>1, Least
<1>3. PICK x \in T : k = n - x
  BY DEF U
<1>4. \A y \in T : n - y \in U
  BY DEF U
<1>5. \A y \in T : n - x <= n - y /\ x \in Nat /\ y \in Nat
  BY <1>2, <1>3, <1>4
<1>. QED BY <1>5

\* The first and the last of some indices of a sequence are among them.
LEMMA MinMaxIn ==
  ASSUME NEW n \in Nat, NEW T, T \subseteq 1 .. n, T # {}
  PROVE  Min(T) \in T /\ Max(T) \in T
<1>0. T \in SUBSET Nat /\ T \subseteq 0 .. n
  OBVIOUS
<1>1. \E x \in T : \A y \in T : x <= y
  BY <1>0, Least
<1>2. \E x \in T : \A y \in T : x >= y
  BY <1>0, Greatest
<1>. QED BY <1>1, <1>2 DEF Min, Max

\* Vec::retain keeps each chosen entry once and no other.
Placed(s, K, b) ==
  /\ \A k \in DOMAIN Retain(s, K) : b[k] \in K /\ Retain(s, K)[k] = s[b[k]]
  /\ \A k, l \in DOMAIN Retain(s, K) : b[k] = b[l] => k = l
  /\ \A i \in K : \E k \in DOMAIN Retain(s, K) : b[k] = i

(* Vec::retain keeps the elements at the positions kept, in their order. *)
LEMMA RetainKeeps ==
  ASSUME NEW S, NEW s \in Seq(S), NEW K, K \subseteq DOMAIN s
  PROVE  /\ Retain(s, K) \in Seq(S)
         /\ Len(Retain(s, K)) = Cardinality(K)
         /\ \E b : Placed(s, K, b)
<1>. DEFINE c == Cardinality(K)
            upto(i) == {j \in K : j <= i}
            rank == [i \in K |-> Cardinality(upto(i))]
            at == [k \in 1 .. c |-> CHOOSE i \in K : Cardinality({j \in K : j <= i}) = k]
<1>1. DOMAIN s = 1 .. Len(s) /\ Len(s) \in Nat
  OBVIOUS
<1>0. IsFiniteSet(1 .. Len(s))
  BY <1>1, FS_Interval
<1>2. IsFiniteSet(K) /\ c \in Nat
  BY <1>0, <1>1, FS_Subset, FS_CardinalityType
<1>3. ASSUME NEW i \in K
      PROVE  rank[i] \in 1 .. c
  <2>1. upto(i) \subseteq K /\ i \in upto(i)
    BY <1>1
  <2>2. IsFiniteSet(upto(i)) /\ Cardinality(upto(i)) <= c
    BY <1>2, <2>1, FS_Subset
  <2>3. Cardinality(upto(i)) \in Nat /\ Cardinality(upto(i)) # 0
    BY <2>1, <2>2, FS_CardinalityType, FS_EmptySet
  <2>. QED BY <1>2, <2>2, <2>3
<1>4. ASSUME NEW i \in K, NEW j \in K, i < j
      PROVE  rank[i] # rank[j]
  <2>1. upto(i) \subseteq upto(j) /\ j \in upto(j) /\ j \notin upto(i) /\ upto(j) \subseteq K
    BY <1>1, <1>4
  <2>2. IsFiniteSet(upto(j))
    BY <1>2, <2>1, FS_Subset
  <2>3. Cardinality(upto(i)) < Cardinality(upto(j))
    BY <2>1, <2>2, FS_Subset, FS_CardinalityType
  <2>4. Cardinality(upto(i)) \in Nat /\ Cardinality(upto(j)) \in Nat
    BY <2>1, <2>2, FS_Subset, FS_CardinalityType
  <2>. QED BY <2>3, <2>4
<1>. HIDE DEF upto
<1>5. ASSUME NEW i \in K, NEW j \in K, rank[i] = rank[j]
      PROVE  i = j
  <2>1. i \in Nat /\ j \in Nat /\ ~ (i < j) /\ ~ (j < i)
    <3>. HIDE DEF rank
    <3>. QED BY <1>1, <1>4, <1>5
  <2>. QED BY <2>1
<1>6. rank \in Injection(K, 1 .. c)
  BY <1>3, <1>5 DEF Injection, IsInjective
<1>7. IsFiniteSet(1 .. c) /\ Cardinality(1 .. c) = c
  BY <1>2, FS_Interval
<1>8. rank \in Surjection(K, 1 .. c)
  BY <1>2, <1>6, <1>7, FS_Injection
<1>9. \A k \in 1 .. c : \E i \in K : rank[i] = k
  BY <1>8 DEF Surjection
<1>10. Retain(s, K) = [k \in 1 .. c |-> s[at[k]]]
  BY DEF Retain
<1>11. \A k \in 1 .. c : at[k] \in K /\ rank[at[k]] = k
  <2>1. \A i \in K : rank[i] = Cardinality({j \in K : j <= i})
    BY DEF upto
  <2>2. \A k \in 1 .. c : \E i \in K : Cardinality({j \in K : j <= i}) = k
    BY <1>9, <2>1
  <2>3. ASSUME NEW k \in 1 .. c PROVE at[k] \in K /\ Cardinality({j \in K : j <= at[k]}) = k
    BY <2>2
  <2>. HIDE DEF at
  <2>. QED BY <2>1, <2>3
<1>. HIDE DEF rank
<1>12. \A i \in K : rank[i] \in 1 .. c /\ at[rank[i]] = i
  BY <1>3, <1>5, <1>11
<1>. HIDE DEF at, c
<1>13. Retain(s, K) \in [1 .. c -> S]
  BY <1>1, <1>10, <1>11
<1>14. Retain(s, K) \in Seq(S) /\ Len(Retain(s, K)) = c /\ DOMAIN Retain(s, K) = 1 .. c
  BY <1>2, <1>13
<1>15. \A k \in 1 .. c : Retain(s, K)[k] = s[at[k]]
  BY <1>10
<1>. HIDE DEF Retain
<1>16. \A k, l \in 1 .. c : at[k] = at[l] => k = l
  BY <1>11
<1>17. \A i \in K : \E k \in 1 .. c : at[k] = i
  BY <1>12
<1>18. \A k \in 1 .. c : at[k] \in K /\ Retain(s, K)[k] = s[at[k]]
  BY <1>11, <1>15
<1>19. DOMAIN Retain(s, K) = 1 .. c
  BY <1>14
<1>20. Placed(s, K, at)
  BY <1>16, <1>17, <1>18, <1>19 DEF Placed
<1>22. Retain(s, K) \in Seq(S) /\ Len(Retain(s, K)) = Cardinality(K)
  BY <1>14 DEF c
<1>. QED BY <1>20, <1>22

-----------------------------------------------------------------------------
(* The invariant.  First, what each variable and each process may hold. *)

EntrySet == [name : Names \cup {NoName}, path : Repos]
FileSet  == [is : {"missing", "toml", "broken"}, repo : Seq(EntrySet)]
Clean    == Paths \ (Hidden \cup BinaryExt)
Copies   == UNION {[D -> Texts] : D \in SUBSET Clean}
Removals == {"remove", "web remove"}
Commands == {"init", "add", "web add", "remove", "web remove"}

Starting == [pc : {"clear", "forget", "walk"}, kind : {"init"}, repo : Repos, name : {NoName},
             quiet : BOOLEAN]
Reading  == {x \in [pc : {"read", "index"}, kind : {"init"}, repo : Repos, name : {NoName},
                    quiet : BOOLEAN, left : SUBSET Clean, read : Copies] :
               x.pc = "index" => x.left \subseteq DOMAIN x.read}
Counting == [pc : {"checkpoint"}, kind : {"init"}, repo : Repos, name : {NoName},
             quiet : BOOLEAN, count : Nat]
Built    == [pc : {"load"}, kind : {"init"}, repo : Repos, name : {NoName}, quiet : BOOLEAN]
Asking   == [pc : {"load", "map"}, kind : Commands \ {"init"}, repo : Repos \cup {Missing},
             name : Names \cup {NoName}]
Saving   == [pc : {"save"}, kind : Commands, repo : Repos \cup {Missing},
             name : Names \cup {NoName}, config : Seq(EntrySet), fresh : BOOLEAN]
Writing  == [pc : {"write", "rename"}, kind : Commands, repo : Repos \cup {Missing},
             name : Names \cup {NoName}, config : Seq(EntrySet), fresh : BOOLEAN,
             handle : {"temporary", "registry", "unlinked"}]

Builders == Starting \cup Reading \cup Counting \cup Built
Sharers  == {x \in Asking \cup Saving \cup Writing :
               /\ x.kind \notin Removals => x.repo \in Repos
               /\ x.pc = "map" => x.kind \in {"web add", "web remove"}}
ProcSet  == {Idle} \cup Builders \cup Sharers

TypeInv ==
  /\ tree \in [Repos -> [Paths -> Contents \cup {Missing}]]
  /\ index \in [Repos -> [Paths -> Texts \cup {Missing}]]
  /\ \A r \in Repos, p \in Paths \ Clean : index[r][p] = Missing
  /\ segments \subseteq Repos
  /\ checkpoint \in [Repos -> SUBSET Nat]
  /\ registry \in FileSet /\ temporary \in FileSet
  /\ proc \in [Procs -> ProcSet]

(* What a build that nobody disturbed has done so far, from the tree t, the   *)
(* index ix and the checkpoint ck of its repository.                          *)
WholeIndex(t, ix) == \A p \in Paths : ix[p] = IF p \in Indexable(t) THEN t[p] ELSE Missing

Progress(x, t, ix, ck) ==
  /\ x.pc \in {"forget", "walk", "read"} => ix = NoIndex
  /\ x.pc \in {"read", "index"} => \A p \in DOMAIN x.read : x.read[p] = t[p]
  /\ x.pc = "read" => \A p \in Paths : p \in Indexable(t) <=>
                        p \in DOMAIN x.read \/ (p \in x.left /\ p \in Indexable(t))
  /\ x.pc = "index" => /\ \A p \in Paths : p \in Indexable(t) <=> p \in DOMAIN x.read
                       /\ \A p \in Paths : ix[p] = IF p \in DOMAIN x.read \ x.left THEN t[p] ELSE Missing
  /\ x.pc \in {"checkpoint", "load"} => WholeIndex(t, ix)
  /\ x.pc = "checkpoint" => x.count = Cardinality(Indexable(t))
  /\ x.pc = "load" => ck = {Cardinality(Indexable(t))}

(* A quiet build has its repository for itself, and has got somewhere.        *)
QuietBuild(q) ==
  proc[q] \in Builders /\ proc[q].quiet =>
    LET r == proc[q].repo
    IN  /\ \A o \in Procs \ {q} : ~(proc[o] \in Builders /\ proc[o].repo = r)
        /\ Progress(proc[q], tree[r], index[r], checkpoint[r])

FilterInv == TypeInv /\ \A q \in Procs : QuietBuild(q)

\* Names and paths are unique.
Unique(cfg) ==
  /\ \A i, j \in DOMAIN cfg : EffectiveName(cfg[i]) = EffectiveName(cfg[j]) => i = j
  /\ \A i, j \in DOMAIN cfg : cfg[i].path = cfg[j].path => i = j

Configured(q) == proc[q].pc \in {"save", "write", "rename"}

\* What a command makes of a registry.
Changed(x, cfg) ==
  IF x.kind \in Removals THEN RemoveRepo(cfg, x.name) ELSE AddRepo(cfg, x.repo, x.name)

(* One save at a time: its temporary file is its own.                         *)
SaveInv ==
  ~overlapped =>
    /\ registry.is # "broken" /\ Unique(registry.repo)
    /\ \A q \in Procs : Configured(q) => Unique(proc[q].config)
    /\ \A q, o \in Procs : Holding(q) /\ Holding(o) => q = o
    /\ \A q \in Procs : Holding(q) =>
         /\ proc[q].handle = "temporary"
         /\ temporary = Text(IF proc[q].pc = "write" THEN <<>> ELSE proc[q].config)
    /\ \A q \in Procs : Configured(q) /\ proc[q].fresh =>
         /\ proc[q].config = Changed(proc[q], registry.repo)
         /\ proc[q].kind \notin Removals => proc[q].config # registry.repo
    /\ ~crossed => Pairs(registry.repo) = added

\* What the server's map becomes when handler x has updated it.
Updated(x, pairs) ==
  IF x.kind \in Removals THEN {e \in pairs : e[1] # x.name}
  ELSE LET n == EffectiveName(Entry(x.name, x.repo))
       IN  {e \in pairs : e[1] # n} \cup {<<n, x.repo>>}

Served == {<<n, server.repos[n]>> : n \in DOMAIN server.repos}

(* One handler at a time between its save and the map.                        *)
MapInv ==
  /\ server = [up |-> server.up, repos |-> server.repos]
  /\ \A q \in Procs : ByServer(q) => server.up
  /\ server.up /\ ~apart /\ ~overlapped /\ ~crossed =>
       /\ \A q, o \in Procs : At(q, "map") /\ At(o, "map") => q = o
       /\ (\A q \in Procs : ~At(q, "map")) => Served = Pairs(registry.repo)
       /\ \A q \in Procs : At(q, "map") => Updated(proc[q], Served) = Pairs(registry.repo)

-----------------------------------------------------------------------------
(* The shape of a process. *)

\* Where a process is tells what it holds.
LEMMA Shapes ==
  ASSUME NEW x \in ProcSet
  PROVE  /\ x.pc \in {"clear", "forget", "walk"} => x \in Starting
         /\ x.pc \in {"read", "index"} => x \in Reading
         /\ x.pc = "checkpoint" => x \in Counting
         /\ x.pc = "load" => x \in Built \/ (x \in Asking /\ x \in Sharers)
         /\ x.pc = "map" => x \in Asking /\ x \in Sharers
         /\ x.pc = "save" => x \in Saving /\ x \in Sharers
         /\ x.pc \in {"write", "rename"} => x \in Writing /\ x \in Sharers
         /\ x.pc = "idle" => x = Idle
<1>1. CASE x = Idle
  BY <1>1 DEF Idle
<1>2. CASE x \in Builders
  BY <1>2 DEF Builders, Starting, Reading, Counting, Built
<1>3. CASE x \in Sharers
  BY <1>3 DEF Sharers, Asking, Saving, Writing
<1>. QED BY <1>1, <1>2, <1>3 DEF ProcSet

\* The builders are the processes that know whether they were disturbed.
LEMMA QuietDomain ==
  ASSUME NEW x \in ProcSet
  PROVE  /\ "quiet" \in DOMAIN x <=> x \in Builders
         /\ x \in Builders => x.repo \in Repos /\ x.quiet \in BOOLEAN /\ x.kind = "init"
         /\ x \in Builders => x.pc \in {"clear", "forget", "walk", "read", "index", "checkpoint", "load"}
<1>1. CASE x = Idle
  <2>1. DOMAIN x = {"pc"}
    BY <1>1 DEF Idle
  <2>. QED BY <2>1 DEF Builders, Starting, Reading, Counting, Built
<1>2. CASE x \in Builders
  BY <1>2 DEF Builders, Starting, Reading, Counting, Built
<1>3. CASE x \in Sharers
  <2>0. x \in Asking \cup Saving \cup Writing
    BY <1>3 DEF Sharers
  <2>1. "quiet" \notin DOMAIN x
    BY <2>0 DEF Asking, Saving, Writing
  <2>2. x \notin Builders
    BY <2>1 DEF Builders, Starting, Reading, Counting, Built
  <2>. QED BY <2>1, <2>2
<1>. QED BY <1>1, <1>2, <1>3 DEF ProcSet

\* A builder told that it was disturbed is still the builder it was.
LEMMA Disturbed ==
  ASSUME NEW x \in Builders, NEW b \in BOOLEAN
  PROVE  /\ [x EXCEPT !.quiet = b] \in Builders
         /\ [x EXCEPT !.quiet = b].quiet = b
         /\ [x EXCEPT !.quiet = b].pc = x.pc
         /\ [x EXCEPT !.quiet = b].repo = x.repo
  BY DEF Builders, Starting, Reading, Counting, Built

-----------------------------------------------------------------------------
(* The registry's operators. *)

(* An entry has a name and leads to a repository. *)
LEMMA EntryNames ==
  ASSUME NEW e \in EntrySet
  PROVE  EffectiveName(e) \in Names /\ e.path \in Repos
  BY RepositoriesAssumption DEF EntrySet, EffectiveName

(* The entry made for a repository is well typed and leads to it. *)
LEMMA EntryTyped ==
  ASSUME NEW r \in Repos, NEW n \in Names \cup {NoName}
  PROVE  Entry(n, r) \in EntrySet /\ Entry(n, r).path = r
  BY DEF EntrySet, Entry

(* A configuration written and read again is the same configuration. *)
LEMMA TextTyped == ASSUME NEW cfg \in Seq(EntrySet) PROVE Text(cfg) \in FileSet /\ Text(cfg).repo = cfg
  BY DEF FileSet, Text

\* add_repo appends one entry or changes nothing.
LEMMA AddTyped ==
  ASSUME NEW cfg \in Seq(EntrySet), NEW r \in Repos, NEW n \in Names \cup {NoName}
  PROVE  AddRepo(cfg, r, n) \in Seq(EntrySet)
<1>1. Entry(n, r) \in EntrySet
  BY EntryTyped
<1>2. Append(cfg, Entry(n, r)) \in Seq(EntrySet)
  BY <1>1, AppendProperties
<1>. QED BY <1>2 DEF AddRepo

(* Removing a name leaves a configuration. *)
LEMMA RemoveTyped ==
  ASSUME NEW cfg \in Seq(EntrySet), NEW n
  PROVE  RemoveRepo(cfg, n) \in Seq(EntrySet)
<1>1. DOMAIN cfg \ FindByName(cfg, n) \subseteq DOMAIN cfg
  OBVIOUS
<1>. QED BY <1>1, RetainKeeps DEF RemoveRepo

\* A write over another file's text leaves a registry of entries, or no TOML.
LEMMA OverwriteTyped ==
  ASSUME NEW old \in FileSet, NEW new \in Seq(EntrySet), NEW f \in Overwritten(old, new)
  PROVE  f \in FileSet
<1>1. old.repo \in Seq(EntrySet) /\ Len(old.repo) \in Nat /\ Len(new) \in Nat
  BY DEF FileSet
<1>2. Text(new) \in FileSet
  BY TextTyped
<1>3. Broken \in FileSet
  <2>1. <<>> \in Seq(EntrySet)
    OBVIOUS
  <2>. QED BY <2>1 DEF Broken, FileSet
<1>4. CASE Len(old.repo) > Len(new)
  <2>1. SubSeq(old.repo, Len(new) + 1, Len(old.repo)) \in Seq(EntrySet)
    BY <1>1, <1>4, SubSeqProperties
  <2>2. new \o SubSeq(old.repo, Len(new) + 1, Len(old.repo)) \in Seq(EntrySet)
    BY <2>1, ConcatProperties
  <2>3. Text(new \o SubSeq(old.repo, Len(new) + 1, Len(old.repo))) \in FileSet
    BY <2>2, TextTyped
  <2>. QED BY <1>2, <1>3, <2>3 DEF Overwritten
<1>5. CASE Len(old.repo) <= Len(new)
  <2>1. SubSeq(old.repo, Len(new) + 1, Len(old.repo)) = <<>>
    BY <1>1, <1>5, SubSeqProperties
  <2>2. new \o <<>> = new
    OBVIOUS
  <2>. QED BY <1>2, <1>3, <2>1, <2>2 DEF Overwritten
<1>. QED BY <1>1, <1>4, <1>5

\* Whatever a command names, it finds a repository or none.
LEMMA RootTyped ==
  ASSUME registry \in FileSet, NEW arg \in Dirs \cup Names
  PROVE  RootOf(arg) \in Repos \cup {Missing}
<1>1. CASE arg \in Names \cup Repos
  <2>. DEFINE named == FindByName(Parse(registry), arg)
  <2>1. Parse(registry) \in Seq(EntrySet)
    BY DEF FileSet, Parse
  <2>2. ASSUME named # {} PROVE Parse(registry)[Min(named)].path \in Repos
    <3>1. named \subseteq 1 .. Len(Parse(registry)) /\ Len(Parse(registry)) \in Nat
      BY <2>1 DEF FindByName
    <3>. HIDE DEF named
    <3>2. Min(named) \in 1 .. Len(Parse(registry))
      BY <2>2, <3>1, MinMaxIn
    <3>3. Parse(registry)[Min(named)] \in EntrySet
      BY <2>1, <3>2
    <3>. QED BY <3>3, EntryNames
  <2>. QED BY <1>1, <2>2 DEF RootOf, ResolveRepo
<1>2. CASE arg \notin Names \cup Repos
  <2>. DEFINE up == Ancestors[arg]
              roots == {i \in DOMAIN up : up[i] \in Repos}
  <2>1. up \in Seq(Dirs)
    BY <1>2, RepositoriesAssumption
  <2>2. ASSUME roots # {} PROVE up[Min(roots)] \in Repos
    <3>1. roots \subseteq 1 .. Len(up) /\ Len(up) \in Nat
      BY <2>1
    <3>2. \A i \in roots : up[i] \in Repos
      OBVIOUS
    <3>. HIDE DEF roots, up
    <3>3. Min(roots) \in roots
      BY <2>2, <3>1, MinMaxIn
    <3>. QED BY <3>2, <3>3
  <2>3. FindRepoRootFrom(arg) = IF roots = {} THEN Missing ELSE up[Min(roots)]
    BY DEF FindRepoRootFrom
  <2>. HIDE DEF roots, up
  <2>. QED BY <1>2, <2>2, <2>3 DEF RootOf
<1>. QED BY <1>1, <1>2

\* The registry of the start names every known repository once.
LEMMA FirstRegistry ==
  LET S == {Entry(NoName, r) : r \in Known}
  IN  /\ SetToSeq(S) \in Seq(EntrySet)
      /\ \A i \in DOMAIN SetToSeq(S) : SetToSeq(S)[i] \in S
      /\ \A e \in S : \E i \in DOMAIN SetToSeq(S) : SetToSeq(S)[i] = e
      /\ \A i, j \in DOMAIN SetToSeq(S) : SetToSeq(S)[i] = SetToSeq(S)[j] => i = j
<1>. DEFINE S == {Entry(NoName, r) : r \in Known}
            f == [r \in Known |-> Entry(NoName, r)]
            s == SetToSeq(S)
<1>1. S \subseteq EntrySet
  BY RepositoriesAssumption, EntryTyped
<1>2. f \in Surjection(Known, S)
  BY DEF Surjection
<1>3. IsFiniteSet(S)
  BY <1>2, RepositoriesAssumption, FS_Surjection
<1>. HIDE DEF S
<1>4. Cardinality(S) \in Nat /\ ExistsBijection(1 .. Cardinality(S), S)
  BY <1>3, FS_CardinalityType
<1>5. \E g \in [1 .. Cardinality(S) -> S] : IsInjective(g)
  BY <1>4 DEF ExistsBijection, Bijection, Injection, Surjection
<1>6. s \in [1 .. Cardinality(S) -> S] /\ IsInjective(s)
  BY <1>5 DEF SetToSeq
<1>. HIDE DEF s
<1>7. s \in Injection(1 .. Cardinality(S), S)
  BY <1>6 DEF Injection
<1>8. IsFiniteSet(1 .. Cardinality(S)) /\ Cardinality(1 .. Cardinality(S)) = Cardinality(S)
  BY <1>4, FS_Interval
<1>9. s \in Surjection(1 .. Cardinality(S), S)
  BY <1>3, <1>7, <1>8, FS_Injection
<1>10. s \in Seq(EntrySet)
  BY <1>1, <1>4, <1>6
<1>11. \A e \in S : \E i \in DOMAIN s : s[i] = e
  BY <1>6, <1>9 DEF Surjection
<1>12. \A i, j \in DOMAIN s : s[i] = s[j] => i = j
  BY <1>6 DEF IsInjective
<1>13. \A i \in DOMAIN s : s[i] \in S
  BY <1>6
<1>. QED BY <1>10, <1>11, <1>12, <1>13 DEF s, S

(* A tree has finitely many indexable files. *)
LEMMA IndexableFinite ==
  ASSUME NEW t PROVE IsFiniteSet(Indexable(t)) /\ Cardinality(Indexable(t)) \in Nat
<1>1. Indexable(t) \subseteq Paths
  BY DEF Indexable
<1>. QED BY <1>1, RepositoriesAssumption, FS_Subset, FS_CardinalityType

(* The variables have their types at the start. *)
LEMMA TypeInit == Init => TypeInv
<1>. SUFFICES ASSUME Init PROVE TypeInv
  OBVIOUS
<1>1. registry \in FileSet /\ temporary \in FileSet
  <2>1. <<>> \in Seq(EntrySet)
    OBVIOUS
  <2>2. temporary \in FileSet
    BY <2>1 DEF Init, FileSet, NoFile
  <2>. QED BY <2>2, FirstRegistry, TextTyped DEF Init
<1>2. \A r \in Repos : {Cardinality(Indexable(tree[r]))} \in SUBSET Nat
  BY IndexableFinite
<1>3. checkpoint \in [Repos -> SUBSET Nat]
  BY <1>2 DEF Init
<1>4. proc \in [Procs -> ProcSet]
  BY DEF Init, ProcSet
<1>5. tree \in [Repos -> [Paths -> Contents \cup {Missing}]] /\ segments \subseteq Repos
  BY RepositoriesAssumption DEF Init
<1>6. ASSUME NEW r \in Repos, NEW p \in Paths
      PROVE  /\ index[r][p] \in Texts \cup {Missing}
             /\ p \notin Clean => index[r][p] = Missing
  BY DEF Init, Indexable, Clean
<1>7. index \in [Repos -> [Paths -> Texts \cup {Missing}]]
  BY <1>6 DEF Init
<1>. QED BY <1>1, <1>3, <1>4, <1>5, <1>6, <1>7 DEF TypeInv

-----------------------------------------------------------------------------
(* Every step keeps the types. *)

(* A process that moves on leaves the other processes where they are. *)
LEMMA GotoTyped ==
  ASSUME TypeInv, NEW q \in Procs, NEW x \in ProcSet, Goto(q, x)
  PROVE  /\ proc' \in [Procs -> ProcSet]
         /\ proc'[q] = x
         /\ \A o \in Procs \ {q} : proc'[o] = proc[o]
  BY DEF Goto, TypeInv

\* What is read and kept is text, and no file the walk should not have brought.
LEMMA KeptTexts ==
  ASSUME TypeInv, NEW r \in Repos, NEW p \in Clean, NEW y \in Kept(p, tree[r][p])
  PROVE  y = p /\ tree[r][p] \in Texts
<1>1. tree[r][p] \in Contents \cup {Missing}
  BY DEF TypeInv, Clean
<1>. QED BY <1>1 DEF Kept, ShouldIndexFile, Contents

(* The walker's list only names paths the filter admits. *)
LEMMA ToReadClean ==
  ASSUME NEW t PROVE ToRead(t) \in SUBSET Clean
  BY DEF ToRead, Walked, Clean

(* The effect of a step of a build on everything outside it ...               *)
BuildsAt(q) ==
  /\ proc[q] \in Builders /\ proc'[q] \in Builders \cup {Idle}
  /\ proc' \in [Procs -> ProcSet] /\ \A o \in Procs \ {q} : proc'[o] = proc[o]
  /\ proc'[q] \in Builders => proc'[q].repo = proc[q].repo /\ proc'[q].quiet = proc[q].quiet
  /\ tree' = tree /\ segments' \subseteq Repos
  /\ index' \in [Repos -> [Paths -> Texts \cup {Missing}]]
  /\ \A r \in Repos, p \in Paths \ Clean : index'[r][p] = Missing
  /\ checkpoint' \in [Repos -> SUBSET Nat]
  /\ \A r \in Repos \ {proc[q].repo} : index'[r] = index[r] /\ checkpoint'[r] = checkpoint[r]
  /\ UNCHANGED <<registry, temporary, server, added, crossed, overlapped, apart>>

(* ... and on its own progress.                                               *)
Advances(q) ==
  LET r == proc[q].repo
  IN  proc'[q] \in Builders /\ Progress(proc[q], tree[r], index[r], checkpoint[r])
        => Progress(proc'[q], tree'[r], index'[r], checkpoint'[r])

\* A build that ends or fails leaves the disk as it is.
LEMMA EndsBuild ==
  ASSUME TypeInv, NEW q \in Procs, proc[q] \in Builders, End(q),
         UNCHANGED <<disk, files, server, told>>
  PROVE  BuildsAt(q) /\ Advances(q)
<1>1. Idle \in ProcSet
  BY DEF ProcSet
<1>2. Idle \notin Builders
  <2>1. "quiet" \notin DOMAIN Idle
    BY DEF Idle
  <2>. QED BY <1>1, <2>1, QuietDomain
<1>3. /\ proc' \in [Procs -> ProcSet] /\ proc'[q] = Idle
      /\ \A o \in Procs \ {q} : proc'[o] = proc[o]
  BY <1>1, GotoTyped DEF End
<1>. QED BY <1>2, <1>3 DEF BuildsAt, Advances, TypeInv, disk, files, told

(* init removes the old segments, which touches its own repository only. *)
LEMMA ClearStep ==
  ASSUME TypeInv, NEW q \in Procs, ClearSegments(q)
  PROVE  BuildsAt(q) /\ Advances(q)
<1>. DEFINE x == [proc[q] EXCEPT !.pc = "forget"]
<1>1. proc[q] \in Starting
  BY Shapes DEF ClearSegments, At, TypeInv
<1>2. x \in Starting /\ x.repo = proc[q].repo /\ x.quiet = proc[q].quiet /\ x.pc = "forget"
  BY <1>1 DEF Starting
<1>3. x \in ProcSet /\ x \in Builders /\ proc[q] \in Builders /\ proc[q].repo \in Repos
  BY <1>1, <1>2 DEF ProcSet, Builders, Starting
<1>4. proc' \in [Procs -> ProcSet] /\ proc'[q] = x /\ \A o \in Procs \ {q} : proc'[o] = proc[o]
  <2>. HIDE DEF x
  <2>. QED BY <1>3, GotoTyped DEF ClearSegments, x
<1>. HIDE DEF x
<1>5. NoIndex \in [Paths -> Texts \cup {Missing}] /\ \A p \in Paths : NoIndex[p] = Missing
  BY DEF NoIndex
<1>6. /\ index' = [index EXCEPT ![proc[q].repo] = NoIndex] /\ segments' = segments \ {proc[q].repo}
      /\ UNCHANGED <<tree, checkpoint, registry, temporary, server, added, crossed, overlapped, apart>>
  BY DEF ClearSegments, files, told
<1>7. index'[proc[q].repo] = NoIndex
  BY <1>3, <1>6 DEF TypeInv
<1>8. BuildsAt(q)
  BY <1>2, <1>3, <1>4, <1>5, <1>6 DEF BuildsAt, TypeInv
<1>9. Advances(q)
  BY <1>2, <1>4, <1>7 DEF Advances, Progress
<1>. QED BY <1>8, <1>9

(* init removes the old checkpoint, which touches its own repository only. *)
LEMMA ForgetStep ==
  ASSUME TypeInv, NEW q \in Procs, RemoveCheckpoint(q)
  PROVE  BuildsAt(q) /\ Advances(q)
<1>. DEFINE x == [proc[q] EXCEPT !.pc = "walk"]
<1>1. proc[q] \in Starting /\ proc[q].pc = "forget"
  BY Shapes DEF RemoveCheckpoint, At, TypeInv
<1>2. x \in Starting /\ x.repo = proc[q].repo /\ x.quiet = proc[q].quiet /\ x.pc = "walk"
  BY <1>1 DEF Starting
<1>3. x \in ProcSet /\ x \in Builders /\ proc[q] \in Builders /\ proc[q].repo \in Repos
  BY <1>1, <1>2 DEF ProcSet, Builders, Starting
<1>4. proc' \in [Procs -> ProcSet] /\ proc'[q] = x /\ \A o \in Procs \ {q} : proc'[o] = proc[o]
  <2>. HIDE DEF x
  <2>. QED BY <1>3, GotoTyped DEF RemoveCheckpoint, x
<1>. HIDE DEF x
<1>6. /\ checkpoint' = [checkpoint EXCEPT ![proc[q].repo] = {}]
      /\ UNCHANGED <<tree, index, segments, registry, temporary, server, added, crossed, overlapped, apart>>
  BY DEF RemoveCheckpoint, files, told
<1>8. BuildsAt(q)
  BY <1>2, <1>3, <1>4, <1>6 DEF BuildsAt, TypeInv
<1>9. Advances(q)
  BY <1>1, <1>2, <1>4, <1>6 DEF Advances, Progress
<1>. QED BY <1>8, <1>9

(* The walk lists what the filter admits at that moment. *)
LEMMA WalkStep ==
  ASSUME TypeInv, NEW q \in Procs, Walk(q)
  PROVE  BuildsAt(q) /\ Advances(q)
<1>. DEFINE r == proc[q].repo
            x == [pc |-> "read", kind |-> "init", repo |-> r, name |-> NoName,
                  quiet |-> proc[q].quiet, left |-> ToRead(tree[r]), read |-> <<>>]
<1>1. proc[q] \in Starting /\ proc[q].pc = "walk"
  BY Shapes DEF Walk, At, TypeInv
<1>2. r \in Repos /\ proc[q].quiet \in BOOLEAN /\ proc[q] \in Builders
  BY <1>1 DEF Starting, Builders
<1>3. <<>> \in Copies /\ DOMAIN <<>> = {}
  <2>1. <<>> \in [{} -> Texts]
    OBVIOUS
  <2>2. {} \in SUBSET Clean
    OBVIOUS
  <2>. QED BY <2>1, <2>2 DEF Copies
<1>4. x \in Reading
  BY <1>2, <1>3, ToReadClean DEF Reading
<1>5. x \in ProcSet /\ x \in Builders
  BY <1>4 DEF ProcSet, Builders
<1>6. proc' \in [Procs -> ProcSet] /\ proc'[q] = x /\ \A o \in Procs \ {q} : proc'[o] = proc[o]
  <2>1. Goto(q, x)
    BY DEF Walk
  <2>. HIDE DEF x
  <2>. QED BY <1>5, <2>1, GotoTyped
<1>7. UNCHANGED <<tree, index, segments, checkpoint, registry, temporary, server, added, crossed, overlapped, apart>>
  BY DEF Walk, files, told, disk
<1>8. BuildsAt(q)
  BY <1>2, <1>5, <1>6, <1>7 DEF BuildsAt, TypeInv
<1>9. \A p \in Paths : p \in Indexable(tree[r]) => p \in ToRead(tree[r])
  BY RepositoriesAssumption DEF Indexable, ToRead, Walked
<1>10. Advances(q)
  <2>1. x.left = ToRead(tree[r]) /\ x.read = <<>> /\ x.pc = "read"
    OBVIOUS
  <2>. HIDE DEF x
  <2>. QED BY <1>1, <1>3, <1>6, <1>7, <1>9, <2>1 DEF Advances, Progress
<1>. QED BY <1>8, <1>10

\* What a file that was read adds to what is to be indexed.
ReadInto(old, p, content) ==
  [x \in DOMAIN old \cup Kept(p, content) |-> IF x \in Kept(p, content) THEN content ELSE old[x]]

(* Reading one file adds its content if it is text and small, and nothing otherwise. *)
LEMMA ReadOne ==
  ASSUME TypeInv, NEW r \in Repos, NEW old \in Copies, NEW p \in Clean
  PROVE  /\ ReadInto(old, p, tree[r][p]) \in Copies
         /\ DOMAIN ReadInto(old, p, tree[r][p]) = DOMAIN old \cup Kept(p, tree[r][p])
         /\ (\A x \in DOMAIN old : old[x] = tree[r][x]) =>
               \A x \in DOMAIN ReadInto(old, p, tree[r][p]) : ReadInto(old, p, tree[r][p])[x] = tree[r][x]
         /\ p \in Indexable(tree[r]) <=> p \in Kept(p, tree[r][p])
<1>. DEFINE new == ReadInto(old, p, tree[r][p])
<1>1. PICK D \in SUBSET Clean : old \in [D -> Texts]
  BY DEF Copies
<1>2. \A y \in Kept(p, tree[r][p]) : y = p /\ tree[r][p] \in Texts
  BY KeptTexts
<1>3. D \cup Kept(p, tree[r][p]) \in SUBSET Clean
  BY <1>2
<1>4. new \in [D \cup Kept(p, tree[r][p]) -> Texts]
  BY <1>1, <1>2 DEF ReadInto
<1>5. new \in Copies
  BY <1>3, <1>4 DEF Copies
<1>6. p \in Indexable(tree[r]) <=> p \in Kept(p, tree[r][p])
  <2>1. tree[r][p] \in Contents \cup {Missing}
    BY DEF TypeInv, Clean
  <2>2. tree[r][p] \in Texts <=> tree[r][p] \notin {Missing, "denied", "large", "nul"}
    BY <2>1, RepositoriesAssumption DEF Contents
  <2>. QED BY <2>2 DEF Indexable, Kept, ShouldIndexFile, Clean
<1>7. DOMAIN new = DOMAIN old \cup Kept(p, tree[r][p])
  BY DEF ReadInto
<1>8. \A x \in DOMAIN new : new[x] = IF x \in Kept(p, tree[r][p]) THEN tree[r][p] ELSE old[x]
  BY DEF ReadInto
<1>. QED BY <1>2, <1>5, <1>6, <1>7, <1>8

(* Reading a file of the list, which an edit may have changed since the walk. *)
LEMMA ReadStep ==
  ASSUME TypeInv, NEW q \in Procs, ReadFile(q)
  PROVE  BuildsAt(q) /\ Advances(q)
<1>. DEFINE r == proc[q].repo
<1>1. proc[q] \in Reading /\ proc[q].pc = "read"
  BY Shapes DEF ReadFile, At, TypeInv
<1>2. /\ r \in Repos /\ proc[q].quiet \in BOOLEAN /\ proc[q] \in Builders
      /\ proc[q].left \in SUBSET Clean /\ proc[q].read \in Copies
  BY <1>1 DEF Reading, Builders
<1>3. PICK p \in proc[q].left :
        Goto(q, [proc[q] EXCEPT !.left = @ \ {p},
                                !.read = [y \in DOMAIN @ \cup Kept(p, tree[r][p]) |->
                                            IF y \in Kept(p, tree[r][p]) THEN tree[r][p] ELSE @[y]]])
  BY DEF ReadFile
<1>. DEFINE new == ReadInto(proc[q].read, p, tree[r][p])
            x == [proc[q] EXCEPT !.left = proc[q].left \ {p}, !.read = new]
<1>4. /\ new \in Copies
      /\ DOMAIN new = DOMAIN proc[q].read \cup Kept(p, tree[r][p])
      /\ (\A y \in DOMAIN proc[q].read : proc[q].read[y] = tree[r][y]) => \A y \in DOMAIN new : new[y] = tree[r][y]
      /\ p \in Indexable(tree[r]) <=> p \in Kept(p, tree[r][p])
  <2>1. p \in Clean
    BY <1>2
  <2>. QED BY <1>2, <2>1, ReadOne
<1>5. Goto(q, x)
  BY <1>1, <1>3 DEF Reading, ReadInto
<1>. HIDE DEF new
<1>6. /\ x \in Reading /\ x.repo = r /\ x.quiet = proc[q].quiet /\ x.pc = "read"
      /\ x.left = proc[q].left \ {p} /\ x.read = new
  BY <1>1, <1>2, <1>4 DEF Reading
<1>7. x \in ProcSet /\ x \in Builders
  BY <1>6 DEF ProcSet, Builders
<1>. HIDE DEF x
<1>8. proc' \in [Procs -> ProcSet] /\ proc'[q] = x /\ \A o \in Procs \ {q} : proc'[o] = proc[o]
  BY <1>5, <1>7, GotoTyped
<1>9. UNCHANGED <<tree, index, segments, checkpoint, registry, temporary, server, added, crossed, overlapped, apart>>
  BY DEF ReadFile, files, told, disk
<1>10. BuildsAt(q)
  BY <1>2, <1>6, <1>7, <1>8, <1>9 DEF BuildsAt, TypeInv
<1>11. \A y \in Kept(p, tree[r][p]) : y = p
  BY DEF Kept
<1>12. ASSUME Progress(proc[q], tree[r], index[r], checkpoint[r])
       PROVE  Progress(x, tree[r], index[r], checkpoint[r])
  <2>1. /\ index[r] = NoIndex
        /\ \A y \in DOMAIN proc[q].read : proc[q].read[y] = tree[r][y]
        /\ \A y \in Paths : y \in Indexable(tree[r]) <=>
              y \in DOMAIN proc[q].read \/ (y \in proc[q].left /\ y \in Indexable(tree[r]))
    BY <1>1, <1>12 DEF Progress
  <2>2. \A y \in DOMAIN x.read : x.read[y] = tree[r][y]
    BY <1>4, <1>6, <2>1
  <2>3. ASSUME NEW y \in Paths
        PROVE  y \in Indexable(tree[r]) <=> y \in DOMAIN x.read \/ (y \in x.left /\ y \in Indexable(tree[r]))
    BY <1>4, <1>6, <1>11, <2>1
  <2>. QED BY <1>6, <2>1, <2>2, <2>3 DEF Progress
<1>13. Advances(q)
  BY <1>8, <1>9, <1>12 DEF Advances
<1>. QED BY <1>10, <1>13

(* Opening the index keeps what was read. *)
LEMMA OpenStep ==
  ASSUME TypeInv, NEW q \in Procs, OpenIndex(q)
  PROVE  BuildsAt(q) /\ Advances(q)
<1>. DEFINE r == proc[q].repo
            x == [proc[q] EXCEPT !.pc = "index", !.left = DOMAIN proc[q].read]
<1>1. proc[q] \in Reading /\ proc[q].pc = "read" /\ proc[q].left = {}
  BY Shapes DEF OpenIndex, At, TypeInv
<1>2. /\ r \in Repos /\ proc[q].quiet \in BOOLEAN /\ proc[q] \in Builders
      /\ DOMAIN proc[q].read \in SUBSET Clean
  BY <1>1 DEF Reading, Builders, Copies
<1>3. /\ x \in Reading /\ x.repo = r /\ x.quiet = proc[q].quiet /\ x.pc = "index"
      /\ x.left = DOMAIN proc[q].read /\ x.read = proc[q].read
  BY <1>1, <1>2 DEF Reading
<1>4. x \in ProcSet /\ x \in Builders
  BY <1>3 DEF ProcSet, Builders
<1>5. Goto(q, x)
  BY DEF OpenIndex
<1>. HIDE DEF x
<1>6. proc' \in [Procs -> ProcSet] /\ proc'[q] = x /\ \A o \in Procs \ {q} : proc'[o] = proc[o]
  BY <1>4, <1>5, GotoTyped
<1>7. /\ segments' = segments \cup {r}
      /\ UNCHANGED <<tree, index, checkpoint, registry, temporary, server, added, crossed, overlapped, apart>>
  BY DEF OpenIndex, files, told
<1>8. BuildsAt(q)
  BY <1>2, <1>3, <1>4, <1>6, <1>7 DEF BuildsAt, TypeInv
<1>9. \A p \in Paths : NoIndex[p] = Missing
  BY DEF NoIndex
<1>10. Advances(q)
  BY <1>1, <1>3, <1>6, <1>7, <1>9 DEF Advances, Progress
<1>. QED BY <1>8, <1>10

(* Building the segments indexes exactly what was read. *)
LEMMA IndexStep ==
  ASSUME TypeInv, NEW q \in Procs, IndexFiles(q)
  PROVE  BuildsAt(q) /\ Advances(q)
<1>. DEFINE r == proc[q].repo
            read == proc[q].read
<1>1. proc[q] \in Reading /\ proc[q].pc = "index"
  BY Shapes DEF IndexFiles, At, TypeInv
<1>2. /\ r \in Repos /\ proc[q].quiet \in BOOLEAN /\ proc[q] \in Builders
      /\ proc[q].left \in SUBSET Clean /\ read \in Copies
  BY <1>1 DEF Reading, Builders
<1>3. PICK P \in SUBSET proc[q].left \ {{}} :
        /\ index' = [index EXCEPT ![r] = [p \in Paths |-> IF p \in P THEN read[p] ELSE @[p]]]
        /\ IF P = proc[q].left
           THEN Goto(q, [pc |-> "checkpoint", kind |-> "init", repo |-> r, name |-> NoName,
                         quiet |-> proc[q].quiet, count |-> Cardinality(DOMAIN read)])
           ELSE Goto(q, [proc[q] EXCEPT !.left = @ \ P])
  BY DEF IndexFiles
<1>. DEFINE ix == [p \in Paths |-> IF p \in P THEN read[p] ELSE index[r][p]]
<1>4. PICK D \in SUBSET Clean : read \in [D -> Texts]
  BY <1>2 DEF Copies
<1>5. P \subseteq proc[q].left /\ P \subseteq D /\ proc[q].left \subseteq D
  BY <1>1, <1>3, <1>4 DEF Reading
<1>6. D \subseteq Paths /\ Clean \subseteq Paths
  BY DEF Clean
<1>7. /\ ix \in [Paths -> Texts \cup {Missing}]
      /\ \A p \in Paths \ Clean : ix[p] = Missing
  BY <1>2, <1>4, <1>5, <1>6 DEF TypeInv
<1>8. index' = [index EXCEPT ![r] = ix]
  BY <1>2, <1>3 DEF TypeInv
<1>9. \A p \in Paths : ix[p] = IF p \in P THEN read[p] ELSE index[r][p]
  OBVIOUS
<1>. HIDE DEF ix
<1>10. /\ segments' = segments \cup {r}
       /\ UNCHANGED <<tree, checkpoint, registry, temporary, server, added, crossed, overlapped, apart>>
  BY DEF IndexFiles, files, told
<1>11. /\ index' \in [Repos -> [Paths -> Texts \cup {Missing}]]
       /\ \A y \in Repos, p \in Paths \ Clean : index'[y][p] = Missing
       /\ index'[r] = ix
       /\ \A y \in Repos \ {r} : index'[y] = index[y]
  BY <1>2, <1>7, <1>8 DEF TypeInv
<1>12. CASE P = proc[q].left
  <2>. DEFINE x == [pc |-> "checkpoint", kind |-> "init", repo |-> r, name |-> NoName,
                    quiet |-> proc[q].quiet, count |-> Cardinality(DOMAIN read)]
  <2>1. Goto(q, x)
    BY <1>3, <1>12
  <2>2. IsFiniteSet(DOMAIN read) /\ Cardinality(DOMAIN read) \in Nat
    BY <1>4, <1>6, RepositoriesAssumption, FS_Subset, FS_CardinalityType
  <2>3. x \in Counting
    BY <1>2, <2>2 DEF Counting
  <2>4. x \in ProcSet /\ x \in Builders
    BY <2>3 DEF ProcSet, Builders
  <2>5. x.repo = r /\ x.quiet = proc[q].quiet /\ x.pc = "checkpoint" /\ x.count = Cardinality(DOMAIN read)
    OBVIOUS
  <2>. HIDE DEF x
  <2>6. proc' \in [Procs -> ProcSet] /\ proc'[q] = x /\ \A o \in Procs \ {q} : proc'[o] = proc[o]
    BY <2>1, <2>4, GotoTyped
  <2>7. BuildsAt(q)
    BY <1>2, <1>10, <1>11, <2>4, <2>5, <2>6 DEF BuildsAt, TypeInv
  <2>8. ASSUME Progress(proc[q], tree[r], index[r], checkpoint[r])
        PROVE  Progress(x, tree[r], ix, checkpoint[r])
    <3>1. /\ \A p \in D : read[p] = tree[r][p]
          /\ \A p \in Paths : p \in Indexable(tree[r]) <=> p \in D
          /\ \A p \in Paths : index[r][p] = IF p \in D \ proc[q].left THEN tree[r][p] ELSE Missing
      BY <1>1, <1>4, <2>8 DEF Progress
    <3>2. WholeIndex(tree[r], ix)
      BY <1>5, <1>9, <1>12, <3>1 DEF WholeIndex
    <3>3. Indexable(tree[r]) = D /\ DOMAIN read = D
      BY <1>4, <1>6, <3>1 DEF Indexable
    <3>. QED BY <2>5, <3>2, <3>3 DEF Progress
  <2>9. Advances(q)
    BY <1>10, <1>11, <2>6, <2>8 DEF Advances
  <2>. QED BY <2>7, <2>9
<1>13. CASE P # proc[q].left
  <2>. DEFINE x == [proc[q] EXCEPT !.left = proc[q].left \ P]
  <2>1. Goto(q, x)
    BY <1>1, <1>3, <1>13 DEF Reading
  <2>2. /\ x \in Reading /\ x.repo = r /\ x.quiet = proc[q].quiet /\ x.pc = "index"
        /\ x.left = proc[q].left \ P /\ x.read = read
    BY <1>1, <1>2 DEF Reading
  <2>3. x \in ProcSet /\ x \in Builders
    BY <2>2 DEF ProcSet, Builders
  <2>. HIDE DEF x
  <2>4. proc' \in [Procs -> ProcSet] /\ proc'[q] = x /\ \A o \in Procs \ {q} : proc'[o] = proc[o]
    BY <2>1, <2>3, GotoTyped
  <2>5. BuildsAt(q)
    BY <1>2, <1>10, <1>11, <2>2, <2>3, <2>4 DEF BuildsAt, TypeInv
  <2>6. ASSUME Progress(proc[q], tree[r], index[r], checkpoint[r])
        PROVE  Progress(x, tree[r], ix, checkpoint[r])
    <3>1. /\ \A p \in D : read[p] = tree[r][p]
          /\ \A p \in Paths : p \in Indexable(tree[r]) <=> p \in D
          /\ \A p \in Paths : index[r][p] = IF p \in D \ proc[q].left THEN tree[r][p] ELSE Missing
      BY <1>1, <1>4, <2>6 DEF Progress
    <3>2. \A p \in Paths : ix[p] = IF p \in D \ x.left THEN tree[r][p] ELSE Missing
      BY <1>5, <1>9, <2>2, <3>1
    <3>. QED BY <1>4, <2>2, <3>1, <3>2 DEF Progress
  <2>7. Advances(q)
    BY <1>10, <1>11, <2>4, <2>6 DEF Advances
  <2>. QED BY <2>5, <2>7
<1>. QED BY <1>12, <1>13

(* The checkpoint counts the files of the index that was built. *)
LEMMA CheckpointStep ==
  ASSUME TypeInv, NEW q \in Procs, WriteCheckpoint(q)
  PROVE  BuildsAt(q) /\ Advances(q)
<1>. DEFINE r == proc[q].repo
            x == [pc |-> "load", kind |-> "init", repo |-> r, name |-> NoName, quiet |-> proc[q].quiet]
<1>1. proc[q] \in Counting /\ proc[q].pc = "checkpoint"
  BY Shapes DEF WriteCheckpoint, At, TypeInv
<1>2. r \in Repos /\ proc[q].quiet \in BOOLEAN /\ proc[q] \in Builders /\ proc[q].count \in Nat
  BY <1>1 DEF Counting, Builders
<1>3. x \in Built /\ x.repo = r /\ x.quiet = proc[q].quiet /\ x.pc = "load"
  BY <1>2 DEF Built
<1>4. x \in ProcSet /\ x \in Builders
  BY <1>3 DEF ProcSet, Builders
<1>5. Goto(q, x)
  BY DEF WriteCheckpoint
<1>. HIDE DEF x
<1>6. proc' \in [Procs -> ProcSet] /\ proc'[q] = x /\ \A o \in Procs \ {q} : proc'[o] = proc[o]
  BY <1>4, <1>5, GotoTyped
<1>7. /\ checkpoint' = [checkpoint EXCEPT ![r] = {proc[q].count}]
      /\ UNCHANGED <<tree, index, segments, registry, temporary, server, added, crossed, overlapped, apart>>
  BY DEF WriteCheckpoint, files, told
<1>8. BuildsAt(q)
  BY <1>2, <1>3, <1>4, <1>6, <1>7 DEF BuildsAt, TypeInv
<1>9. checkpoint'[r] = {proc[q].count}
  BY <1>2, <1>7 DEF TypeInv
<1>10. Advances(q)
  BY <1>1, <1>3, <1>6, <1>7, <1>9 DEF Advances, Progress
<1>. QED BY <1>8, <1>10

\* Every step of a build stays in its repository and advances it.
LEMMA BuildStep ==
  ASSUME TypeInv, NEW q \in Procs, InitStep(q)
  PROVE  BuildsAt(q) /\ Advances(q)
<1>1. ASSUME WalkFails(q) \/ NoFiles(q) \/ IndexFails(q) PROVE BuildsAt(q) /\ Advances(q)
  <2>1. proc[q].pc \in {"walk", "read", "index"}
    BY <1>1 DEF WalkFails, NoFiles, IndexFails, At
  <2>2. proc[q] \in Builders
    BY <2>1, Shapes DEF Builders, TypeInv
  <2>. QED BY <1>1, <2>2, EndsBuild DEF WalkFails, NoFiles, IndexFails
<1>. QED BY <1>1, ClearStep, ForgetStep, WalkStep, ReadStep, OpenStep, IndexStep, CheckpointStep DEF InitStep

-----------------------------------------------------------------------------
(* Steps outside a build: what they leave to the builds. *)

SharesAt ==
  /\ proc' \in [Procs -> ProcSet]
  /\ \A o \in Procs : proc'[o] \in Builders => proc'[o] = proc[o]
  /\ UNCHANGED <<tree, index, segments, checkpoint>>
  /\ registry' \in FileSet /\ temporary' \in FileSet

(* A process that works on the registry is not one that builds an index. *)
LEMMA Apart ==
  ASSUME NEW x PROVE x \in Sharers \cup {Idle} => x \notin Builders /\ x \in ProcSet
<1>1. x \in Sharers \cup {Idle} => x \in ProcSet
  BY DEF ProcSet
<1>2. x \in Sharers => "quiet" \notin DOMAIN x
  <2>1. x \in Sharers => x \in Asking \cup Saving \cup Writing
    BY DEF Sharers
  <2>. QED BY <2>1 DEF Asking, Saving, Writing
<1>3. x = Idle => "quiet" \notin DOMAIN x
  BY DEF Idle
<1>. QED BY <1>1, <1>2, <1>3, QuietDomain

(* A command that begins touches nothing shared. *)
LEMMA AskStep ==
  ASSUME TypeInv, NEW q \in Procs,
         \/ \E kind \in {"add", "web add"}, r \in Repos, name \in Names \cup {NoName} :
              StartAdd(q, kind, r, name)
         \/ \E kind \in {"remove", "web remove"}, name \in Names : StartRemove(q, kind, name)
  PROVE  /\ SharesAt /\ UNCHANGED <<registry, temporary, server, added, crossed, overlapped, apart>>
         /\ proc[q].pc = "idle" /\ proc'[q].pc = "load"
         /\ proc'[q].kind \in {"web add", "web remove"} => server.up
         /\ \A o \in Procs \ {q} : proc'[o] = proc[o]
<1>1. PICK kind \in Commands \ {"init"}, r \in Repos \cup {Missing}, name \in Names \cup {NoName} :
        /\ kind \notin Removals => r \in Repos
        /\ Goto(q, [pc |-> "load", kind |-> kind, repo |-> r, name |-> name])
        /\ Command(q) /\ (kind \in {"web add", "web remove"} => server.up)
        /\ UNCHANGED <<disk, files, server, edits, kills, told>>
  <2>1. CASE \E kind \in {"add", "web add"}, r \in Repos, name \in Names \cup {NoName} :
               StartAdd(q, kind, r, name)
    BY <2>1 DEF StartAdd, Commands, Removals
  <2>2. CASE \E kind \in {"remove", "web remove"}, name \in Names : StartRemove(q, kind, name)
    BY <2>2 DEF StartRemove, Commands, Removals
  <2>. QED BY <2>1, <2>2
<1>. DEFINE x == [pc |-> "load", kind |-> kind, repo |-> r, name |-> name]
<1>2. x \in Asking /\ x.kind = kind /\ x.pc = "load"
  BY DEF Asking
<1>3. x \in Sharers
  BY <1>1, <1>2 DEF Sharers
<1>. HIDE DEF x
<1>4. x \in ProcSet /\ x \notin Builders
  BY <1>3, Apart
<1>5. proc' \in [Procs -> ProcSet] /\ proc'[q] = x /\ \A o \in Procs \ {q} : proc'[o] = proc[o]
  BY <1>1, <1>4, GotoTyped DEF x
<1>. QED BY <1>1, <1>2, <1>4, <1>5 DEF SharesAt, Command, At, disk, files, told, TypeInv

\* load_config and the change to the copy.
LEMMA LoadStep ==
  ASSUME TypeInv, NEW q \in Procs, Load(q)
  PROVE  /\ SharesAt /\ UNCHANGED <<registry, temporary, server, added, crossed, overlapped, apart>>
         /\ \A o \in Procs \ {q} : proc'[o] = proc[o]
         /\ proc[q].pc = "load"
         /\ \/ proc'[q] = Idle
            \/ /\ proc'[q] \in Saving /\ proc'[q].pc = "save" /\ proc'[q].kind = proc[q].kind
               /\ proc'[q].config = Changed(proc'[q], registry.repo)
               /\ proc'[q].kind \notin Removals => proc'[q].config # registry.repo
               /\ proc'[q].kind \notin Removals => proc'[q].repo \in Repos
<1>1. proc[q].pc = "load" /\ registry \in FileSet /\ registry.repo \in Seq(EntrySet) /\ proc[q] \in ProcSet
  BY DEF Load, At, TypeInv, FileSet
<1>2. /\ proc[q].kind \in Commands /\ proc[q].repo \in Repos \cup {Missing}
      /\ proc[q].name \in Names \cup {NoName} /\ (proc[q].kind \notin Removals => proc[q].repo \in Repos)
  BY <1>1, Shapes DEF Built, Asking, Sharers, Commands
<1>. DEFINE new == IF proc[q].kind \in Removals THEN RemoveRepo(registry.repo, proc[q].name)
                   ELSE AddRepo(registry.repo, proc[q].repo, proc[q].name)
            x == [pc |-> "save", kind |-> proc[q].kind, repo |-> proc[q].repo,
                  name |-> proc[q].name, config |-> new, fresh |-> TRUE]
<1>3. new \in Seq(EntrySet)
  BY <1>1, <1>2, RemoveTyped, AddTyped
<1>4. \/ End(q)
      \/ Goto(q, x) /\ ~ (new = registry.repo /\ proc[q].kind # "web remove")
  BY DEF Load, Is, Parse, Removals
<1>5. /\ x \in Saving /\ x.pc = "save" /\ x.kind = proc[q].kind /\ x.repo = proc[q].repo
      /\ x.name = proc[q].name /\ x.config = new
  BY <1>2, <1>3 DEF Saving
<1>6. x \in Sharers
  BY <1>2, <1>5 DEF Sharers
<1>7. x.config = Changed(x, registry.repo)
  BY <1>5 DEF Changed
<1>. HIDE DEF x
<1>8. UNCHANGED <<tree, index, segments, checkpoint, registry, temporary, server, added, crossed, overlapped, apart>>
  BY DEF Load, disk, files, told
<1>9. CASE End(q)
  <2>1. Idle \in ProcSet /\ Idle \notin Builders
    BY Apart
  <2>2. proc' \in [Procs -> ProcSet] /\ proc'[q] = Idle /\ \A o \in Procs \ {q} : proc'[o] = proc[o]
    BY <1>9, <2>1, GotoTyped DEF End
  <2>. QED BY <1>1, <1>8, <2>1, <2>2 DEF SharesAt, TypeInv
<1>10. CASE Goto(q, x) /\ ~ (new = registry.repo /\ proc[q].kind # "web remove")
  <2>1. x \in ProcSet /\ x \notin Builders
    BY <1>6, Apart
  <2>2. proc' \in [Procs -> ProcSet] /\ proc'[q] = x /\ \A o \in Procs \ {q} : proc'[o] = proc[o]
    BY <1>10, <2>1, GotoTyped
  <2>3. x.kind \notin Removals => x.config # registry.repo
    BY <1>5, <1>10 DEF Removals
  <2>. HIDE DEF new
  <2>. QED BY <1>1, <1>2, <1>5, <1>7, <1>8, <2>1, <2>2, <2>3 DEF SharesAt, TypeInv
<1>. QED BY <1>4, <1>9, <1>10

\* The same command with the same copy of the registry.
SameSave(x, y) ==
  x.kind = y.kind /\ x.repo = y.repo /\ x.name = y.name /\ x.config = y.config

(* Opening the temporary file empties it, and overlaps with any other process that holds
   it. *)
LEMMA TruncateStep ==
  ASSUME TypeInv, NEW q \in Procs, OpenTemporary(q)
  PROVE  /\ SharesAt /\ UNCHANGED <<registry, server, added, crossed, apart>>
         /\ temporary' = Text(<<>>)
         /\ overlapped' = (overlapped \/ \E o \in Others(q) : Holding(o))
         /\ \A o \in Procs \ {q} : proc'[o] = proc[o]
         /\ proc[q].pc = "save" /\ proc'[q] \in Writing
         /\ proc'[q].pc = "write" /\ proc'[q].handle = "temporary" /\ proc'[q].fresh = proc[q].fresh
         /\ SameSave(proc'[q], proc[q])
<1>. DEFINE x == [pc |-> "write", kind |-> proc[q].kind, repo |-> proc[q].repo, name |-> proc[q].name,
                  config |-> proc[q].config, fresh |-> proc[q].fresh, handle |-> "temporary"]
<1>1. proc[q] \in Saving /\ proc[q] \in Sharers /\ proc[q].pc = "save"
  BY Shapes DEF OpenTemporary, At, TypeInv
<1>2. x \in Writing
  BY <1>1 DEF Saving, Writing
<1>3. x \in Sharers
  BY <1>1, <1>2 DEF Sharers
<1>4. x.pc = "write" /\ x.handle = "temporary" /\ x.fresh = proc[q].fresh /\ SameSave(x, proc[q])
  BY DEF SameSave
<1>5. proc' = [proc EXCEPT ![q] = x]
  BY DEF OpenTemporary
<1>. HIDE DEF x
<1>6. x \in ProcSet /\ x \notin Builders
  BY <1>3, Apart
<1>7. proc' \in [Procs -> ProcSet] /\ proc'[q] = x /\ \A o \in Procs \ {q} : proc'[o] = proc[o]
  BY <1>5, <1>6, GotoTyped DEF Goto
<1>8. /\ UNCHANGED <<tree, index, segments, checkpoint, registry, server, added, crossed, apart>>
      /\ temporary' = Text(<<>>)
      /\ overlapped' = (overlapped \/ \E o \in Others(q) : Holding(o))
  BY DEF OpenTemporary, disk
<1>9. temporary' \in FileSet
  <2>1. <<>> \in Seq(EntrySet)
    OBVIOUS
  <2>. QED BY <1>8, <2>1, TextTyped
<1>. QED BY <1>1, <1>2, <1>4, <1>6, <1>7, <1>8, <1>9 DEF SharesAt, TypeInv

(* Writing goes to the file the handle was opened for: the temporary file, or the registry
   after a rename by another process. *)
LEMMA WriteStep ==
  ASSUME TypeInv, NEW q \in Procs, WriteContents(q)
  PROVE  /\ SharesAt /\ UNCHANGED <<server, added, crossed, overlapped, apart>>
         /\ \A o \in Procs \ {q} : proc'[o] = proc[o]
         /\ proc[q].pc = "write" /\ proc'[q] \in Writing
         /\ proc'[q].pc = "rename" /\ proc'[q].handle = proc[q].handle /\ proc'[q].fresh = proc[q].fresh
         /\ SameSave(proc'[q], proc[q])
         /\ proc[q].handle = "temporary" =>
              registry' = registry /\ temporary' \in Overwritten(temporary, proc[q].config)
<1>. DEFINE x == [proc[q] EXCEPT !.pc = "rename"]
<1>1. proc[q] \in Writing /\ proc[q] \in Sharers /\ proc[q].pc = "write"
  BY Shapes DEF WriteContents, At, TypeInv
<1>2. x \in Writing /\ x.pc = "rename" /\ x.handle = proc[q].handle /\ x.fresh = proc[q].fresh /\ SameSave(x, proc[q])
  BY <1>1 DEF Writing, SameSave
<1>3. x \in Sharers
  BY <1>1, <1>2 DEF Sharers, SameSave
<1>4. Goto(q, x)
  BY DEF WriteContents
<1>. HIDE DEF x
<1>5. x \in ProcSet /\ x \notin Builders
  BY <1>3, Apart
<1>6. proc' \in [Procs -> ProcSet] /\ proc'[q] = x /\ \A o \in Procs \ {q} : proc'[o] = proc[o]
  BY <1>4, <1>5, GotoTyped
<1>7. UNCHANGED <<tree, index, segments, checkpoint, server, added, crossed, overlapped, apart>>
  BY DEF WriteContents, disk, told
<1>8. /\ proc[q].config \in Seq(EntrySet) /\ proc[q].handle \in {"temporary", "registry", "unlinked"}
      /\ registry \in FileSet /\ temporary \in FileSet
  BY <1>1 DEF Writing, TypeInv
<1>9. CASE proc[q].handle = "temporary"
  <2>1. temporary' \in Overwritten(temporary, proc[q].config) /\ registry' = registry
    BY <1>9 DEF WriteContents
  <2>2. temporary' \in FileSet
    BY <1>8, <2>1, OverwriteTyped
  <2>. QED BY <1>1, <1>2, <1>5, <1>6, <1>7, <1>8, <2>1, <2>2 DEF SharesAt
<1>10. CASE proc[q].handle = "registry"
  <2>1. registry' \in Overwritten(registry, proc[q].config) /\ temporary' = temporary
    BY <1>10 DEF WriteContents
  <2>2. registry' \in FileSet
    BY <1>8, <2>1, OverwriteTyped
  <2>. QED BY <1>1, <1>2, <1>5, <1>6, <1>7, <1>8, <1>10, <2>1, <2>2 DEF SharesAt
<1>11. CASE proc[q].handle = "unlinked"
  <2>1. registry' = registry /\ temporary' = temporary
    BY <1>11 DEF WriteContents, files
  <2>. QED BY <1>1, <1>2, <1>5, <1>6, <1>7, <1>8, <1>11, <2>1 DEF SharesAt
<1>. QED BY <1>8, <1>9, <1>10, <1>11

\* A command that is over: it failed, was killed, or has updated the server's map.
LEMMA EndStep ==
  ASSUME TypeInv, NEW q \in Procs, End(q), UNCHANGED <<disk, files>>
  PROVE  /\ SharesAt /\ UNCHANGED <<registry, temporary>>
         /\ proc'[q] = Idle /\ \A o \in Procs \ {q} : proc'[o] = proc[o]
<1>1. Idle \in ProcSet /\ Idle \notin Builders
  BY Apart
<1>2. proc' \in [Procs -> ProcSet] /\ proc'[q] = Idle /\ \A o \in Procs \ {q} : proc'[o] = proc[o]
  BY <1>1, GotoTyped DEF End
<1>. QED BY <1>1, <1>2 DEF SharesAt, disk, files, TypeInv

\* A rename that finds the file, with what it does to every handle.
LEMMA RenameStep ==
  ASSUME TypeInv, NEW q \in Procs, Rename(q)
  PROVE  /\ SharesAt /\ UNCHANGED <<server, overlapped>> /\ proc[q].pc = "rename"
         /\ proc[q] \in Writing /\ proc[q] \in Sharers
         /\ \/ /\ temporary = NoFile /\ proc'[q] = Idle
               /\ UNCHANGED <<registry, temporary, added, crossed, apart>>
               /\ \A o \in Procs \ {q} : proc'[o] = proc[o]
            \/ /\ temporary # NoFile /\ registry' = temporary
               /\ added' = Acknowledged(q) /\ crossed' = (crossed \/ ~ proc[q].fresh)
               /\ apart' = (apart \/ ~ByServer(q) \/ \E o \in Procs : At(o, "map"))
               /\ ~ByServer(q) => proc'[q] = Idle
               /\ ByServer(q) => proc'[q] = [pc |-> "map", kind |-> proc[q].kind, repo |-> proc[q].repo,
                                             name |-> proc[q].name]
               /\ \A o \in Procs \ {q} :
                    \/ proc'[o] = proc[o] /\ ~ Configured(o)
                    \/ /\ Configured(o) /\ proc'[o] \in Saving \cup Writing /\ proc'[o].pc = proc[o].pc
                       /\ SameSave(proc'[o], proc[o]) /\ proc'[o].fresh = FALSE
<1>1. proc[q] \in Writing /\ proc[q] \in Sharers /\ proc[q].pc = "rename"
  BY Shapes DEF Rename, At, TypeInv
<1>2. UNCHANGED <<tree, index, segments, checkpoint, server, overlapped>>
  BY DEF Rename, disk, told
<1>3. CASE temporary = NoFile
  <2>1. End(q) /\ UNCHANGED <<registry, temporary, added, crossed, apart>>
    BY <1>3 DEF Rename, files, told
  <2>2. UNCHANGED <<disk, files>>
    BY <1>2, <2>1 DEF disk, files
  <2>3. SharesAt /\ proc'[q] = Idle /\ \A o \in Procs \ {q} : proc'[o] = proc[o]
    BY <2>1, <2>2, EndStep
  <2>. QED BY <1>1, <1>2, <1>3, <2>1, <2>3
<1>4. CASE temporary # NoFile
  <2>. DEFINE m == [pc |-> "map", kind |-> proc[q].kind, repo |-> proc[q].repo, name |-> proc[q].name]
              y(o) == [proc[o] EXCEPT !.fresh = FALSE,
                         !.handle = IF @ = "temporary" THEN "registry" ELSE "unlinked"]
              z(o) == [proc[o] EXCEPT !.fresh = FALSE]
              x(o) == IF o = q THEN IF ByServer(q) THEN m ELSE Idle
                      ELSE IF Holding(o) THEN y(o)
                      ELSE IF proc[o].pc = "save" THEN z(o) ELSE proc[o]
  <2>1. /\ registry' = temporary /\ temporary' = NoFile
        /\ added' = Acknowledged(q) /\ crossed' = (crossed \/ ~proc[q].fresh)
        /\ apart' = (apart \/ ~ByServer(q) \/ \E o \in Procs : At(o, "map"))
        /\ proc' = [o \in Procs |-> x(o)]
    BY <1>4 DEF Rename
  <2>2. proc[q].kind # "init" => m \in Asking
    BY <1>1 DEF Asking, Writing, Sharers
  <2>3. ByServer(q) => m \in Sharers
    BY <1>1, <2>2 DEF ByServer, Sharers
  <2>4. ASSUME NEW o \in Procs \ {q}, Holding(o)
        PROVE  /\ y(o) \in Writing /\ y(o) \in Sharers /\ y(o).pc = proc[o].pc
               /\ SameSave(y(o), proc[o]) /\ y(o).fresh = FALSE
    <3>1. proc[o] \in Writing /\ proc[o] \in Sharers
      BY <2>4, Shapes DEF Holding, TypeInv
    <3>2. y(o) \in Writing /\ y(o).pc = proc[o].pc /\ SameSave(y(o), proc[o]) /\ y(o).fresh = FALSE
      BY <3>1 DEF Writing, SameSave
    <3>. HIDE DEF y
    <3>. QED BY <3>1, <3>2 DEF Sharers, SameSave
  <2>5. ASSUME NEW o \in Procs \ {q}, proc[o].pc = "save"
        PROVE  /\ z(o) \in Saving /\ z(o) \in Sharers /\ z(o).pc = proc[o].pc
               /\ SameSave(z(o), proc[o]) /\ z(o).fresh = FALSE
    <3>1. proc[o] \in Saving /\ proc[o] \in Sharers
      BY <2>5, Shapes DEF TypeInv
    <3>2. z(o) \in Saving /\ z(o).pc = proc[o].pc /\ SameSave(z(o), proc[o]) /\ z(o).fresh = FALSE
      BY <3>1 DEF Saving, SameSave
    <3>. HIDE DEF z
    <3>. QED BY <3>1, <3>2 DEF Sharers, SameSave
  <2>6. \A o \in Procs : proc[o] \in ProcSet
    BY DEF TypeInv
  <2>. HIDE DEF m, y, z
  <2>7. ASSUME NEW o \in Procs
        PROVE  x(o) \in ProcSet /\ (x(o) \in Builders => x(o) = proc[o])
    BY <2>3, <2>4, <2>5, <2>6, Apart
  <2>8. ASSUME NEW o \in Procs \ {q}
        PROVE  \/ x(o) = proc[o] /\ ~ Configured(o)
               \/ /\ Configured(o) /\ x(o) \in Saving \cup Writing /\ x(o).pc = proc[o].pc
                  /\ SameSave(x(o), proc[o]) /\ x(o).fresh = FALSE
    BY <2>4, <2>5 DEF Configured, Holding
  <2>9. (~ByServer(q) => x(q) = Idle) /\ (ByServer(q) => x(q) = m)
    OBVIOUS
  <2>. HIDE DEF x
  <2>10. proc' \in [Procs -> ProcSet] /\ \A o \in Procs : proc'[o] = x(o)
    BY <2>1, <2>7
  <2>11. temporary' \in FileSet
    <3>1. <<>> \in Seq(EntrySet)
      OBVIOUS
    <3>. QED BY <2>1, <3>1 DEF FileSet, NoFile
  <2>12. SharesAt
    BY <1>2, <2>1, <2>7, <2>10, <2>11 DEF SharesAt, TypeInv
  <2>. QED BY <1>1, <1>2, <1>4, <2>1, <2>8, <2>9, <2>10, <2>12 DEF m
<1>. QED BY <1>3, <1>4

(* A kill ends one command, or the server with all its handlers, and leaves the files. *)
LEMMA KillStep ==
  ASSUME TypeInv, NEW q \in Procs, Kill(q)
  PROVE  /\ SharesAt /\ UNCHANGED <<registry, temporary, added, crossed, overlapped, apart>>
         /\ \A o \in Procs : proc'[o] = proc[o] \/ proc'[o] = Idle
         /\ \/ /\ ~ByServer(q) /\ UNCHANGED server
               /\ \A o \in Procs : At(o, "map") => proc'[o] = proc[o]
            \/ /\ server' = Down
               /\ \A o \in Procs : ByServer(o) => proc'[o] = Idle
<1>1. UNCHANGED <<disk, files, told>>
  BY DEF Kill
<1>2. CASE ByServer(q)
  <2>1. server' = Down /\ proc' = [o \in Procs |-> IF ByServer(o) THEN Idle ELSE proc[o]]
    BY <1>2 DEF Kill
  <2>2. Idle \in ProcSet /\ Idle \notin Builders
    BY Apart
  <2>. QED BY <1>1, <2>1, <2>2 DEF SharesAt, disk, files, told, TypeInv
<1>3. CASE ~ByServer(q)
  <2>1. UNCHANGED server /\ End(q)
    BY <1>3 DEF Kill
  <2>2. SharesAt /\ proc'[q] = Idle /\ \A o \in Procs \ {q} : proc'[o] = proc[o]
    BY <1>1, <2>1, EndStep
  <2>3. ~ At(q, "map")
    <3>1. SUFFICES ASSUME At(q, "map") PROVE FALSE
      OBVIOUS
    <3>2. proc[q] \in Sharers /\ proc[q].pc = "map"
      BY <3>1, Shapes DEF At, TypeInv
    <3>. QED BY <1>3, <3>2 DEF ByServer, Sharers
  <2>. QED BY <1>1, <1>3, <2>1, <2>2, <2>3 DEF files, told
<1>. QED BY <1>2, <1>3

-----------------------------------------------------------------------------
(* The builds: every step keeps FilterInv. *)

\* A step of a build.
LEMMA FilterBuild ==
  ASSUME FilterInv, NEW q \in Procs, InitStep(q)
  PROVE  FilterInv'
<1>1. TypeInv /\ \A o \in Procs : QuietBuild(o)
  BY DEF FilterInv
<1>2. BuildsAt(q) /\ Advances(q)
  BY <1>1, BuildStep
<1>3. TypeInv'
  BY <1>1, <1>2 DEF BuildsAt, TypeInv
<1>4. ASSUME NEW o \in Procs, proc'[o] \in Builders, proc'[o].quiet
      PROVE  /\ \A k \in Procs \ {o} : ~(proc'[k] \in Builders /\ proc'[k].repo = proc'[o].repo)
             /\ Progress(proc'[o], tree'[proc'[o].repo], index'[proc'[o].repo], checkpoint'[proc'[o].repo])
  <2>1. /\ proc[o] \in Builders /\ proc[o].quiet /\ proc[o].repo = proc'[o].repo
        /\ \A k \in Procs : proc'[k] \in Builders => proc[k] \in Builders /\ proc[k].repo = proc'[k].repo
    BY <1>2, <1>4 DEF BuildsAt
  <2>2. /\ \A k \in Procs \ {o} : ~(proc[k] \in Builders /\ proc[k].repo = proc[o].repo)
        /\ Progress(proc[o], tree[proc[o].repo], index[proc[o].repo], checkpoint[proc[o].repo])
    BY <1>1, <2>1 DEF QuietBuild
  <2>3. \A k \in Procs \ {o} : ~(proc'[k] \in Builders /\ proc'[k].repo = proc'[o].repo)
    BY <2>1, <2>2
  <2>4. CASE o = q
    BY <1>2, <1>4, <2>1, <2>2, <2>3, <2>4 DEF Advances
  <2>5. CASE o # q
    <3>1. proc[q].repo # proc[o].repo /\ proc[o].repo \in Repos /\ proc'[o] = proc[o]
      <4>1. proc[q] \in Builders /\ proc'[o] = proc[o]
        BY <1>2, <2>5 DEF BuildsAt
      <4>2. proc[o].repo \in Repos
        BY <1>1, <2>1, QuietDomain DEF TypeInv
      <4>. QED BY <2>2, <2>5, <4>1, <4>2
    <3>2. /\ tree' = tree /\ index'[proc[o].repo] = index[proc[o].repo]
          /\ checkpoint'[proc[o].repo] = checkpoint[proc[o].repo]
      BY <1>2, <3>1 DEF BuildsAt
    <3>. QED BY <2>2, <2>3, <3>1, <3>2
  <2>. QED BY <2>4, <2>5
<1>. QED BY <1>3, <1>4 DEF FilterInv, QuietBuild

\* A step outside the builds.
LEMMA FilterShare ==
  ASSUME FilterInv, SharesAt
  PROVE  FilterInv'
<1>1. TypeInv /\ \A o \in Procs : QuietBuild(o)
  BY DEF FilterInv
<1>2. TypeInv'
  BY <1>1 DEF SharesAt, TypeInv
<1>3. ASSUME NEW o \in Procs, proc'[o] \in Builders, proc'[o].quiet
      PROVE  /\ \A k \in Procs \ {o} : ~(proc'[k] \in Builders /\ proc'[k].repo = proc'[o].repo)
             /\ Progress(proc'[o], tree'[proc'[o].repo], index'[proc'[o].repo], checkpoint'[proc'[o].repo])
  <2>1. /\ proc'[o] = proc[o]
        /\ \A k \in Procs : proc'[k] \in Builders => proc'[k] = proc[k]
        /\ UNCHANGED <<tree, index, checkpoint>>
    BY <1>3 DEF SharesAt
  <2>. QED BY <1>1, <1>3, <2>1 DEF QuietBuild
<1>. QED BY <1>2, <1>3 DEF FilterInv, QuietBuild

\* The user edits a file: nobody who builds an index of that tree is undisturbed any more.
LEMMA FilterEdit ==
  ASSUME FilterInv, NEW r \in Repos, NEW p \in Editable, NEW content \in Contents \cup {Missing},
         Edit(r, p, content)
  PROVE  FilterInv'
<1>1. TypeInv /\ \A o \in Procs : QuietBuild(o)
  BY DEF FilterInv
<1>2. /\ tree' = [tree EXCEPT ![r][p] = content]
      /\ proc' = [q \in Procs |-> IF Building(q, r) THEN [proc[q] EXCEPT !.quiet = FALSE] ELSE proc[q]]
      /\ UNCHANGED <<index, segments, checkpoint, registry, temporary>>
  BY DEF Edit, files
<1>3. \A q \in Procs : proc[q] \in ProcSet
  BY <1>1 DEF TypeInv
<1>4. ASSUME NEW q \in Procs
      PROVE  /\ proc'[q] \in ProcSet
             /\ proc'[q] \in Builders => proc[q] \in Builders /\ proc'[q].repo = proc[q].repo
             /\ proc'[q] \in Builders /\ proc'[q].quiet => proc'[q] = proc[q] /\ proc[q].repo # r
  <2>1. CASE Building(q, r)
    <3>1. proc[q] \in Builders
      BY <1>3, <2>1, QuietDomain DEF Building
    <3>2. /\ [proc[q] EXCEPT !.quiet = FALSE] \in Builders
          /\ ~ [proc[q] EXCEPT !.quiet = FALSE].quiet
          /\ [proc[q] EXCEPT !.quiet = FALSE].repo = proc[q].repo
      BY <3>1, Disturbed
    <3>3. proc'[q] = [proc[q] EXCEPT !.quiet = FALSE]
      BY <1>2, <2>1
    <3>. QED BY <3>1, <3>2, <3>3 DEF ProcSet
  <2>2. CASE ~ Building(q, r)
    <3>1. proc'[q] = proc[q]
      BY <1>2, <2>2
    <3>2. proc[q] \in Builders => proc[q].repo # r
      BY <1>3, <2>2, QuietDomain DEF Building
    <3>. QED BY <1>3, <3>1, <3>2
  <2>. QED BY <2>1, <2>2
<1>5. tree' \in [Repos -> [Paths -> Contents \cup {Missing}]] /\ \A s \in Repos : s # r => tree'[s] = tree[s]
  <2>1. p \in Paths
    BY RepositoriesAssumption
  <2>. QED BY <1>1, <1>2, <2>1 DEF TypeInv
<1>6. TypeInv'
  <2>1. proc' \in [Procs -> ProcSet]
    BY <1>2, <1>4
  <2>. QED BY <1>1, <1>2, <1>5, <2>1 DEF TypeInv
<1>7. ASSUME NEW o \in Procs, proc'[o] \in Builders, proc'[o].quiet
      PROVE  /\ \A k \in Procs \ {o} : ~(proc'[k] \in Builders /\ proc'[k].repo = proc'[o].repo)
             /\ Progress(proc'[o], tree'[proc'[o].repo], index'[proc'[o].repo], checkpoint'[proc'[o].repo])
  <2>1. proc'[o] = proc[o] /\ proc[o].repo # r /\ proc[o] \in Builders
    BY <1>4, <1>7
  <2>2. proc[o].repo \in Repos
    BY <1>3, <2>1, QuietDomain
  <2>3. tree'[proc[o].repo] = tree[proc[o].repo]
    BY <1>5, <2>1, <2>2
  <2>4. /\ \A k \in Procs \ {o} : ~(proc[k] \in Builders /\ proc[k].repo = proc[o].repo)
        /\ Progress(proc[o], tree[proc[o].repo], index[proc[o].repo], checkpoint[proc[o].repo])
    BY <1>1, <1>7, <2>1 DEF QuietBuild
  <2>. QED BY <1>2, <1>4, <2>1, <2>3, <2>4
<1>. QED BY <1>6, <1>7 DEF FilterInv, QuietBuild

\* A build begins: the builds of that repository disturb each other from here on.
LEMMA FilterStart ==
  ASSUME FilterInv, NEW q \in Procs, NEW arg \in Dirs \cup Names, NEW force \in BOOLEAN,
         StartInit(q, arg, force)
  PROVE  FilterInv'
<1>. DEFINE r == RootOf(arg)
            alone == ~\E o \in Procs : Building(o, r)
            x == [pc |-> IF force THEN "clear" ELSE "walk", kind |-> "init", repo |-> r,
                  name |-> NoName, quiet |-> alone /\ (force \/ index[r] = NoIndex)]
<1>1. TypeInv /\ \A o \in Procs : QuietBuild(o)
  BY DEF FilterInv
<1>2. r \in Repos
  <2>1. r \in Repos \cup {Missing} /\ r # Missing
    BY <1>1, RootTyped DEF StartInit, TypeInv
  <2>. QED BY <2>1
<1>3. /\ proc' = [o \in Procs |->
                    IF o = q THEN x
                    ELSE IF Building(o, r) THEN [proc[o] EXCEPT !.quiet = FALSE] ELSE proc[o]]
      /\ UNCHANGED <<tree, index, segments, checkpoint, registry, temporary>>
  BY DEF StartInit, disk, files
<1>4. \A o \in Procs : proc[o] \in ProcSet
  BY <1>1 DEF TypeInv
<1>5. \A o \in Procs : Building(o, r) <=> proc[o] \in Builders /\ proc[o].repo = r
  BY <1>4, QuietDomain DEF Building
<1>6. x \in Starting
  BY <1>2 DEF Starting
<1>7. /\ x \in Builders /\ x \in ProcSet /\ x.repo = r
      /\ x.quiet => \A o \in Procs : ~(proc[o] \in Builders /\ proc[o].repo = r)
      /\ x.quiet => (x.pc = "clear" \/ (x.pc = "walk" /\ index[r] = NoIndex))
  <2>1. x \in Builders /\ x \in ProcSet
    BY <1>6 DEF Builders, ProcSet
  <2>2. x.repo = r /\ x.quiet = (alone /\ (force \/ index[r] = NoIndex)) /\ x.pc = IF force THEN "clear" ELSE "walk"
    OBVIOUS
  <2>3. x.quiet => alone
    BY <2>2
  <2>. QED BY <1>5, <2>1, <2>2, <2>3
<1>. HIDE DEF x, r
<1>8. ASSUME NEW o \in Procs \ {q}
      PROVE  /\ proc'[o] \in ProcSet
             /\ proc'[o] \in Builders => proc[o] \in Builders /\ proc'[o].repo = proc[o].repo
             /\ proc'[o] \in Builders /\ proc'[o].quiet => proc'[o] = proc[o] /\ proc[o].repo # r
  <2>1. CASE Building(o, r)
    <3>1. proc[o] \in Builders
      BY <1>5, <2>1
    <3>2. /\ [proc[o] EXCEPT !.quiet = FALSE] \in Builders
          /\ ~ [proc[o] EXCEPT !.quiet = FALSE].quiet
          /\ [proc[o] EXCEPT !.quiet = FALSE].repo = proc[o].repo
      BY <3>1, Disturbed
    <3>3. proc'[o] = [proc[o] EXCEPT !.quiet = FALSE]
      BY <1>3, <2>1
    <3>. QED BY <3>1, <3>2, <3>3 DEF ProcSet
  <2>2. CASE ~ Building(o, r)
    <3>1. proc'[o] = proc[o]
      BY <1>3, <2>2
    <3>. QED BY <1>4, <1>5, <2>2, <3>1
  <2>. QED BY <2>1, <2>2
<1>9. proc'[q] = x
  BY <1>3
<1>10. TypeInv'
  <2>1. proc' \in [Procs -> ProcSet]
    <3>1. \A o \in Procs : proc'[o] \in ProcSet
      BY <1>7, <1>8, <1>9
    <3>. QED BY <1>3, <3>1
  <2>. QED BY <1>1, <1>3, <2>1 DEF TypeInv
<1>11. ASSUME NEW o \in Procs, proc'[o] \in Builders, proc'[o].quiet
       PROVE  /\ \A k \in Procs \ {o} : ~(proc'[k] \in Builders /\ proc'[k].repo = proc'[o].repo)
              /\ Progress(proc'[o], tree'[proc'[o].repo], index'[proc'[o].repo], checkpoint'[proc'[o].repo])
  <2>1. CASE o = q
    <3>1. \A k \in Procs \ {q} : ~(proc'[k] \in Builders /\ proc'[k].repo = r)
      BY <1>7, <1>8, <1>9, <1>11, <2>1
    <3>2. Progress(x, tree[r], index[r], checkpoint[r])
      BY <1>7, <1>9, <1>11, <2>1 DEF Progress
    <3>. QED BY <1>3, <1>7, <1>9, <2>1, <3>1, <3>2
  <2>2. CASE o # q
    <3>1. proc'[o] = proc[o] /\ proc[o].repo # r /\ proc[o] \in Builders
      BY <1>8, <1>11, <2>2
    <3>2. /\ \A k \in Procs \ {o} : ~(proc[k] \in Builders /\ proc[k].repo = proc[o].repo)
          /\ Progress(proc[o], tree[proc[o].repo], index[proc[o].repo], checkpoint[proc[o].repo])
      BY <1>1, <1>11, <3>1 DEF QuietBuild
    <3>3. \A k \in Procs \ {o} : ~(proc'[k] \in Builders /\ proc'[k].repo = proc'[o].repo)
      BY <1>7, <1>8, <1>9, <3>1, <3>2
    <3>. QED BY <1>3, <3>1, <3>2, <3>3
  <2>. QED BY <2>1, <2>2
<1>. QED BY <1>10, <1>11 DEF FilterInv, QuietBuild

(* Nothing is indexed at the start. *)
LEMMA FilterInit == Init => FilterInv
<1>. SUFFICES ASSUME Init PROVE FilterInv
  OBVIOUS
<1>1. TypeInv
  BY TypeInit
<1>2. \A q \in Procs : proc[q] = Idle
  BY DEF Init
<1>3. Idle \notin Builders
  BY Apart
<1>. QED BY <1>1, <1>2, <1>3 DEF FilterInv, QuietBuild

(* Every step keeps the types, and what the files read, the index and the checkpoint say
   of the tree. *)
LEMMA FilterStep == FilterInv /\ [Next]_vars => FilterInv'
<1>. SUFFICES ASSUME FilterInv, [Next]_vars PROVE FilterInv'
  OBVIOUS
<1>0. TypeInv
  BY DEF FilterInv
<1>1. ASSUME NEW q \in Procs, RegistryStep(q) PROVE SharesAt
  <2>1. ASSUME WriteFails(q) \/ UpdateMap(q) PROVE SharesAt
    BY <1>0, <2>1, EndStep DEF WriteFails, UpdateMap
  <2>. QED BY <1>0, <1>1, <2>1, LoadStep, TruncateStep, WriteStep, RenameStep DEF RegistryStep
<1>2. ASSUME StartServer PROVE SharesAt
  BY <1>0, <1>2 DEF StartServer, SharesAt, disk, files, TypeInv
<1>3. ASSUME UNCHANGED vars PROVE SharesAt
  BY <1>0, <1>3 DEF vars, SharesAt, disk, files, TypeInv
<1>. QED BY <1>0, <1>1, <1>2, <1>3, FilterShare, FilterBuild, FilterEdit, FilterStart, KillStep, AskStep DEF Next

(* The invariant gives the property of the filter. *)
LEMMA FilterHolds == FilterInv => IndexedAsFiltered
<1>. SUFFICES ASSUME FilterInv PROVE IndexedAsFiltered
  OBVIOUS
<1>0. TypeInv /\ \A q \in Procs : QuietBuild(q)
  BY DEF FilterInv
<1>1. ASSUME NEW r \in Repos, NEW p \in Paths, index[r][p] # Missing
      PROVE  p \notin Hidden \cup BinaryExt /\ index[r][p] \in Texts
  BY <1>0, <1>1 DEF TypeInv, Clean
<1>2. ASSUME NEW q \in Procs, proc[q].pc = "load", proc[q].kind = "init", proc[q].quiet
      PROVE  LET r == proc[q].repo
             IN  /\ \A p \in Paths : index[r][p] = IF p \in Indexable(tree[r]) THEN tree[r][p] ELSE Missing
                 /\ checkpoint[r] = {Cardinality(Indexable(tree[r]))}
  <2>1. proc[q] \in Built
    BY <1>0, <1>2, Shapes DEF TypeInv, Asking
  <2>2. proc[q] \in Builders
    BY <2>1 DEF Builders
  <2>. QED BY <1>0, <1>2, <2>2 DEF QuietBuild, Progress, WholeIndex
<1>3. ASSUME NEW r \in Repos PROVE EstimateFiles(tree[r]) = Indexable(tree[r])
  <2>1. \A p \in Paths : tree[r][p] \in Texts <=> tree[r][p] \notin {Missing, "denied", "large", "nul"}
    BY <1>0, RepositoriesAssumption DEF TypeInv, Contents
  <2>2. \A p : p \in ToRead(tree[r]) <=>
              p \in Paths \ Hidden /\ tree[r][p] \notin {Missing, "large"} /\ p \notin BinaryExt
    BY DEF ToRead, Walked
  <2>. QED BY <2>1, <2>2 DEF EstimateFiles, Indexable
<1>. QED BY <1>1, <1>2, <1>3 DEF IndexedAsFiltered

(* `ferret init` beside a user who edits, other inits, registry commands and  *)
(* kills: the index holds text files the walk may bring and nothing else, and *)
(* an undisturbed init has indexed exactly the indexable files, counted them  *)
(* in the checkpoint and agrees with the estimate.                            *)
THEOREM InitIndexesFiltered == Spec => []IndexedAsFiltered
<1>1. Init => FilterInv
  BY FilterInit
<1>2. FilterInv /\ [Next]_vars => FilterInv'
  BY FilterStep
<1>3. FilterInv => IndexedAsFiltered
  BY FilterHolds
<1>. QED BY <1>1, <1>2, <1>3, PTL DEF Spec

-----------------------------------------------------------------------------
(* What the operations do to a registry without doubles. *)

(* The pairs of a configuration are the name and the path of each entry. *)
LEMMA PairOf ==
  ASSUME NEW cfg, NEW e
  PROVE  e \in Pairs(cfg) <=> \E i \in DOMAIN cfg : e = <<EffectiveName(cfg[i]), cfg[i].path>>
  BY DEF Pairs

\* add_repo takes neither a name nor a path twice, and adds the one entry.
LEMMA AddKeeps ==
  ASSUME NEW cfg \in Seq(EntrySet), Unique(cfg), NEW r \in Repos, NEW n \in Names \cup {NoName}
  PROVE  LET new == AddRepo(cfg, r, n)
             m   == EffectiveName(Entry(n, r))
         IN  /\ Unique(new)
             /\ new # cfg => /\ Pairs(new) = Pairs(cfg) \cup {<<m, r>>}
                             /\ \A e \in Pairs(cfg) : e[1] # m
<1>. DEFINE x == Entry(n, r)
            m == EffectiveName(x)
            new == Append(cfg, x)
            len == Len(cfg)
<1>1. x \in EntrySet /\ x.path = r
  BY EntryTyped
<1>2. CASE FindByPath(cfg, r) = {} /\ FindByName(cfg, m) = {}
  <2>1. AddRepo(cfg, r, n) = new
    BY <1>2 DEF AddRepo
  <2>2. \A i \in DOMAIN cfg : cfg[i].path # r /\ EffectiveName(cfg[i]) # m
    BY <1>2 DEF FindByPath, FindByName
  <2>. HIDE DEF m
  <2>3. DOMAIN cfg = 1 .. len /\ len \in Nat
    OBVIOUS
  <2>4. /\ DOMAIN new = 1 .. len + 1 /\ new[len + 1] = x
        /\ \A i \in 1 .. len : new[i] = cfg[i]
    <3>. HIDE DEF x
    <3>. QED BY <1>1, AppendProperties
  <2>. HIDE DEF new, x, len
  <2>5. \A i \in DOMAIN new : i \in DOMAIN cfg \/ i = len + 1
    BY <2>3, <2>4
  <2>6. EffectiveName(new[len + 1]) = m /\ new[len + 1].path = r
    BY <1>1, <2>4 DEF m
  <2>7. Unique(new)
    BY <2>2, <2>3, <2>4, <2>5, <2>6 DEF Unique
  <2>8. Pairs(new) = Pairs(cfg) \cup {<<m, r>>}
    <3>1. ASSUME NEW e PROVE e \in Pairs(new) => e \in Pairs(cfg) \cup {<<m, r>>}
      BY <2>3, <2>4, <2>5, <2>6, PairOf
    <3>2. ASSUME NEW e \in Pairs(cfg) PROVE e \in Pairs(new)
      <4>1. PICK i \in DOMAIN cfg : e = <<EffectiveName(cfg[i]), cfg[i].path>>
        BY PairOf
      <4>2. i \in DOMAIN new /\ new[i] = cfg[i]
        BY <2>3, <2>4
      <4>. QED BY <4>1, <4>2, PairOf
    <3>3. <<m, r>> \in Pairs(new)
      <4>1. len + 1 \in DOMAIN new
        BY <2>3, <2>4
      <4>. QED BY <2>6, <4>1, PairOf
    <3>. QED BY <3>1, <3>2, <3>3
  <2>9. \A e \in Pairs(cfg) : e[1] # m
    BY <2>2, PairOf
  <2>. QED BY <2>1, <2>7, <2>8, <2>9 DEF m, x
<1>3. CASE ~ (FindByPath(cfg, r) = {} /\ FindByName(cfg, m) = {})
  <2>1. AddRepo(cfg, r, n) = cfg
    BY <1>3 DEF AddRepo
  <2>. QED BY <2>1
<1>. QED BY <1>2, <1>3

\* remove_repo takes out what has the name, and only that.
LEMMA RemoveKeeps ==
  ASSUME NEW cfg \in Seq(EntrySet), Unique(cfg), NEW n
  PROVE  /\ Unique(RemoveRepo(cfg, n))
         /\ Pairs(RemoveRepo(cfg, n)) = {e \in Pairs(cfg) : e[1] # n}
<1>. DEFINE K == DOMAIN cfg \ FindByName(cfg, n)
            new == Retain(cfg, K)
<1>1. K \subseteq DOMAIN cfg
  OBVIOUS
<1>2. \A i \in DOMAIN cfg : i \in K <=> EffectiveName(cfg[i]) # n
  BY DEF FindByName
<1>. HIDE DEF K
<1>0. PICK at : Placed(cfg, K, at)
  BY <1>1, RetainKeeps
<1>3. /\ \A k \in DOMAIN new : at[k] \in K /\ new[k] = cfg[at[k]]
      /\ \A k, l \in DOMAIN new : at[k] = at[l] => k = l
      /\ \A i \in K : \E k \in DOMAIN new : at[k] = i
  BY <1>0 DEF Placed
<1>. HIDE DEF new
<1>4. Unique(new)
  BY <1>1, <1>3 DEF Unique
<1>5. ASSUME NEW e PROVE e \in Pairs(new) <=> e \in Pairs(cfg) /\ e[1] # n
  <2>1. ASSUME e \in Pairs(new) PROVE e \in Pairs(cfg) /\ e[1] # n
    <3>1. PICK k \in DOMAIN new : e = <<EffectiveName(new[k]), new[k].path>>
      BY <2>1, PairOf
    <3>2. at[k] \in DOMAIN cfg /\ EffectiveName(cfg[at[k]]) # n /\ new[k] = cfg[at[k]]
      BY <1>1, <1>2, <1>3
    <3>. QED BY <3>1, <3>2, PairOf
  <2>2. ASSUME e \in Pairs(cfg), e[1] # n PROVE e \in Pairs(new)
    <3>1. PICK i \in DOMAIN cfg : e = <<EffectiveName(cfg[i]), cfg[i].path>>
      BY <2>2, PairOf
    <3>2. i \in K
      BY <1>2, <2>2, <3>1
    <3>3. PICK k \in DOMAIN new : at[k] = i
      BY <1>3, <3>2
    <3>4. new[k] = cfg[i]
      BY <1>3, <3>3
    <3>. QED BY <3>1, <3>4, PairOf
  <2>. QED BY <2>1, <2>2
<1>6. Pairs(new) = {e \in Pairs(cfg) : e[1] # n}
  BY <1>5
<1>. QED BY <1>4, <1>6 DEF RemoveRepo, K, new

\* The same for a command's change, as the server's map would see it.
LEMMA ChangeKeeps ==
  ASSUME NEW x, x.kind \notin Removals => x.repo \in Repos, x.name \in Names \cup {NoName},
         NEW cfg \in Seq(EntrySet), Unique(cfg)
  PROVE  /\ Unique(Changed(x, cfg))
         /\ x.kind \notin Removals /\ Changed(x, cfg) # cfg
              => Pairs(Changed(x, cfg)) = Pairs(cfg) \cup {<<EffectiveName(Entry(x.name, x.repo)), x.repo>>}
         /\ x.kind \in Removals => Pairs(Changed(x, cfg)) = {e \in Pairs(cfg) : e[1] # x.name}
         /\ (x.kind \notin Removals => Changed(x, cfg) # cfg)
              => Updated(x, Pairs(cfg)) = Pairs(Changed(x, cfg))
<1>1. CASE x.kind \in Removals
  BY <1>1, RemoveKeeps DEF Changed, Updated
<1>2. CASE x.kind \notin Removals
  <2>. DEFINE m == EffectiveName(Entry(x.name, x.repo))
              new == AddRepo(cfg, x.repo, x.name)
  <2>1. /\ Unique(new)
        /\ new # cfg => Pairs(new) = Pairs(cfg) \cup {<<m, x.repo>>} /\ \A e \in Pairs(cfg) : e[1] # m
    BY <1>2, AddKeeps
  <2>2. new # cfg => {e \in Pairs(cfg) : e[1] # m} = Pairs(cfg)
    BY <2>1
  <2>3. Changed(x, cfg) = new
    BY <1>2 DEF Changed
  <2>4. Updated(x, Pairs(cfg)) = {e \in Pairs(cfg) : e[1] # m} \cup {<<m, x.repo>>}
    BY <1>2 DEF Updated
  <2>. HIDE DEF new, m
  <2>. QED BY <1>2, <2>1, <2>2, <2>3, <2>4 DEF m
<1>. QED BY <1>1, <1>2

-----------------------------------------------------------------------------
(* The registry: every step keeps SaveInv and MapInv. *)

Late == {"save", "write", "rename", "map"}

\* Steps that touch neither the files, nor the server, nor a command that has loaded them.
LEMMA Untouched ==
  ASSUME SaveInv, MapInv,
         UNCHANGED <<registry, temporary, server, added, crossed, overlapped, apart>>,
         \A o \in Procs : \/ proc'[o] = proc[o]
                          \/ /\ proc'[o].pc \notin Late /\ ~ At(o, "map")
                             /\ ByServer(o)' => server.up
  PROVE  SaveInv' /\ MapInv'
<1>1. \A o \in Procs : proc'[o].pc \in Late \/ proc[o].pc = "map" => proc'[o] = proc[o]
  BY DEF At, Late
<1>2. \A o \in Procs : ByServer(o)' => server.up
  BY DEF MapInv, ByServer
<1>3. SaveInv'
  BY <1>1 DEF SaveInv, Configured, Holding, Late
<1>4. MapInv'
  BY <1>1, <1>2 DEF MapInv, At, Late, Served
<1>. QED BY <1>3, <1>4

(* A process that builds, or is idle, holds no save and is no handler of the server. *)
LEMMA BuilderPlace ==
  ASSUME NEW x \in ProcSet, x \in Builders \/ x = Idle
  PROVE  x.pc \notin Late /\ ~ (x.pc # "idle" /\ x.kind \in {"web add", "web remove"})
<1>1. CASE x = Idle
  BY <1>1 DEF Idle, Late
<1>2. CASE x \in Builders
  BY <1>2, QuietDomain DEF Late
<1>. QED BY <1>1, <1>2

\* The same for a step that only concerns builds.
LEMMA UntouchedByBuild ==
  ASSUME SaveInv, MapInv, proc' \in [Procs -> ProcSet],
         UNCHANGED <<registry, temporary, server, added, crossed, overlapped, apart>>,
         \A o \in Procs : proc'[o] = proc[o] \/ (~ At(o, "map") /\ proc'[o] \in Builders \cup {Idle})
  PROVE  SaveInv' /\ MapInv'
<1>1. \A o \in Procs : proc'[o] \in Builders \cup {Idle} => proc'[o].pc \notin Late /\ ~ ByServer(o)'
  BY BuilderPlace DEF ByServer
<1>. QED BY <1>1, Untouched

(* Loading the registry keeps the invariants of saves and map. *)
LEMMA SaveLoad ==
  ASSUME TypeInv, SaveInv, MapInv, NEW q \in Procs, Load(q)
  PROVE  SaveInv' /\ MapInv'
<1>0. /\ UNCHANGED <<registry, temporary, server, added, crossed, overlapped, apart>>
      /\ \A o \in Procs \ {q} : proc'[o] = proc[o]
      /\ proc[q].pc = "load" /\ proc' \in [Procs -> ProcSet]
      /\ registry.repo \in Seq(EntrySet)
  BY LoadStep DEF SharesAt, TypeInv, FileSet
<1>1. CASE proc'[q] = Idle
  BY <1>0, <1>1, UntouchedByBuild DEF At
<1>2. CASE /\ proc'[q] \in Saving /\ proc'[q].pc = "save" /\ proc'[q].kind = proc[q].kind
           /\ proc'[q].config = Changed(proc'[q], registry.repo)
           /\ proc'[q].kind \notin Removals => proc'[q].config # registry.repo
           /\ proc'[q].kind \notin Removals => proc'[q].repo \in Repos
  <2>1. ASSUME ~overlapped PROVE Unique(proc'[q].config)
    <3>1. Unique(registry.repo)
      BY <2>1 DEF SaveInv
    <3>2. proc'[q].name \in Names \cup {NoName}
      BY <1>2 DEF Saving
    <3>. QED BY <1>0, <1>2, <3>1, <3>2, ChangeKeeps
  <2>2. SaveInv'
    <3>. SUFFICES ASSUME ~overlapped' PROVE SaveInv'
      BY DEF SaveInv
    <3>1. ~overlapped /\ ~ Holding(q)' /\ ~ Holding(q)
      BY <1>0, <1>2 DEF Holding
    <3>2. \A o \in Procs : Configured(o)' => Unique(proc'[o].config)
      BY <1>0, <2>1, <3>1 DEF SaveInv, Configured
    <3>3. \A o, k \in Procs : Holding(o)' /\ Holding(k)' => o = k
      BY <1>0, <3>1 DEF SaveInv, Holding
    <3>4. \A o \in Procs : Holding(o)' =>
            /\ proc'[o].handle = "temporary"
            /\ temporary' = Text(IF proc'[o].pc = "write" THEN <<>> ELSE proc'[o].config)
      BY <1>0, <3>1 DEF SaveInv, Holding
    <3>5. \A o \in Procs : Configured(o)' /\ proc'[o].fresh =>
            /\ proc'[o].config = Changed(proc'[o], registry'.repo)
            /\ proc'[o].kind \notin Removals => proc'[o].config # registry'.repo
      BY <1>0, <1>2, <3>1 DEF SaveInv, Configured
    <3>6. registry'.is # "broken" /\ Unique(registry'.repo) /\ (~crossed' => Pairs(registry'.repo) = added')
      BY <1>0, <3>1 DEF SaveInv
    <3>. QED BY <3>2, <3>3, <3>4, <3>5, <3>6 DEF SaveInv
  <2>3. MapInv'
    <3>1. \A o \in Procs : At(o, "map")' <=> At(o, "map")
      BY <1>0, <1>2 DEF At
    <3>2. \A o \in Procs : At(o, "map") => proc'[o] = proc[o]
      BY <1>0 DEF At
    <3>3. \A o \in Procs : ByServer(o)' => server'.up
      BY <1>0, <1>2 DEF MapInv, ByServer
    <3>. QED BY <1>0, <3>1, <3>2, <3>3 DEF MapInv, Served
  <2>. QED BY <2>2, <2>3
<1>. QED BY <1>1, <1>2, LoadStep

(* Opening the temporary file keeps the invariants of saves and map. *)
LEMMA SaveTruncate ==
  ASSUME TypeInv, SaveInv, MapInv, NEW q \in Procs, OpenTemporary(q)
  PROVE  SaveInv' /\ MapInv'
<1>1. /\ SharesAt /\ UNCHANGED <<registry, server, added, crossed, apart>>
      /\ temporary' = Text(<<>>)
      /\ overlapped' = (overlapped \/ \E o \in Others(q) : Holding(o))
      /\ \A o \in Procs \ {q} : proc'[o] = proc[o]
      /\ proc[q].pc = "save" /\ proc'[q] \in Writing
      /\ proc'[q].pc = "write" /\ proc'[q].handle = "temporary" /\ proc'[q].fresh = proc[q].fresh
      /\ SameSave(proc'[q], proc[q])
  BY TruncateStep
<1>2. SaveInv'
  <2>. SUFFICES ASSUME ~overlapped' PROVE SaveInv'
    BY DEF SaveInv
  <2>1. ~overlapped
    BY <1>1
  <2>2. \A o \in Procs : Holding(o)' <=> o = q
    <3>1. \A o \in Procs \ {q} : ~ Holding(o)
      BY <1>1 DEF Others, Holding
    <3>. QED BY <1>1, <3>1 DEF Holding
  <2>3. \A o \in Procs : Configured(o)' => Configured(o) /\ SameSave(proc'[o], proc[o]) /\ proc'[o].fresh = proc[o].fresh
    BY <1>1 DEF Configured, SameSave
  <2>4. \A o \in Procs : Configured(o)' => Unique(proc'[o].config)
    BY <2>1, <2>3 DEF SaveInv, SameSave
  <2>5. \A o \in Procs : Configured(o)' /\ proc'[o].fresh =>
          /\ proc'[o].config = Changed(proc'[o], registry'.repo)
          /\ proc'[o].kind \notin Removals => proc'[o].config # registry'.repo
    BY <1>1, <2>1, <2>3 DEF SaveInv, SameSave, Changed
  <2>6. registry'.is # "broken" /\ Unique(registry'.repo) /\ (~crossed' => Pairs(registry'.repo) = added')
    BY <1>1, <2>1 DEF SaveInv
  <2>7. \A o \in Procs : Holding(o)' =>
          /\ proc'[o].handle = "temporary"
          /\ temporary' = Text(IF proc'[o].pc = "write" THEN <<>> ELSE proc'[o].config)
    BY <1>1, <2>2
  <2>. QED BY <2>2, <2>4, <2>5, <2>6, <2>7 DEF SaveInv
<1>3. MapInv'
  <2>1. \A o \in Procs : At(o, "map")' <=> At(o, "map")
    BY <1>1 DEF At
  <2>2. \A o \in Procs : At(o, "map") => proc'[o] = proc[o]
    BY <1>1 DEF At
  <2>3. \A o \in Procs : ByServer(o)' => server'.up
    BY <1>1 DEF MapInv, ByServer, SameSave
  <2>4. ~overlapped' => ~overlapped
    BY <1>1
  <2>. QED BY <1>1, <2>1, <2>2, <2>3, <2>4 DEF MapInv, Served
<1>. QED BY <1>2, <1>3

\* A write into an empty file writes the text and nothing else.
LEMMA WriteEmpty ==
  ASSUME NEW new \in Seq(EntrySet), NEW f \in Overwritten(Text(<<>>), new)
  PROVE  f = Text(new)
<1>1. Len(<<>>) <= Len(new)
  OBVIOUS
<1>. QED BY <1>1 DEF Overwritten, Text, Loads

(* Writing the temporary file keeps the invariants of saves and map. *)
LEMMA SaveWrite ==
  ASSUME TypeInv, SaveInv, MapInv, NEW q \in Procs, WriteContents(q)
  PROVE  SaveInv' /\ MapInv'
<1>1. /\ SharesAt /\ UNCHANGED <<server, added, crossed, overlapped, apart>>
      /\ \A o \in Procs \ {q} : proc'[o] = proc[o]
      /\ proc[q].pc = "write" /\ proc'[q] \in Writing
      /\ proc'[q].pc = "rename" /\ proc'[q].handle = proc[q].handle /\ proc'[q].fresh = proc[q].fresh
      /\ SameSave(proc'[q], proc[q])
      /\ proc[q].handle = "temporary" =>
           registry' = registry /\ temporary' \in Overwritten(temporary, proc[q].config)
  BY WriteStep
<1>2. ASSUME ~overlapped
      PROVE  registry' = registry /\ temporary' = Text(proc[q].config) /\ proc[q].handle = "temporary"
  <2>1. Holding(q)
    BY <1>1 DEF Holding
  <2>2. proc[q].handle = "temporary" /\ temporary = Text(<<>>)
    BY <1>1, <1>2, <2>1 DEF SaveInv
  <2>3. proc[q].config \in Seq(EntrySet)
    BY <1>1 DEF Writing, SameSave
  <2>. QED BY <1>1, <2>2, <2>3, WriteEmpty
<1>3. SaveInv'
  <2>. SUFFICES ASSUME ~overlapped' PROVE SaveInv'
    BY DEF SaveInv
  <2>1. ~overlapped
    BY <1>1
  <2>2. \A o \in Procs : Holding(o)' <=> o = q
    <3>1. \A o \in Procs \ {q} : ~ Holding(o)
      BY <1>1, <2>1 DEF SaveInv, Holding
    <3>. QED BY <1>1, <3>1 DEF Holding
  <2>3. \A o \in Procs : Configured(o)' => Configured(o) /\ SameSave(proc'[o], proc[o]) /\ proc'[o].fresh = proc[o].fresh
    BY <1>1 DEF Configured, SameSave
  <2>4. \A o \in Procs : Configured(o)' => Unique(proc'[o].config)
    BY <2>1, <2>3 DEF SaveInv, SameSave
  <2>5. \A o \in Procs : Configured(o)' /\ proc'[o].fresh =>
          /\ proc'[o].config = Changed(proc'[o], registry'.repo)
          /\ proc'[o].kind \notin Removals => proc'[o].config # registry'.repo
    BY <1>2, <2>1, <2>3 DEF SaveInv, SameSave, Changed
  <2>6. registry'.is # "broken" /\ Unique(registry'.repo) /\ (~crossed' => Pairs(registry'.repo) = added')
    BY <1>1, <1>2, <2>1 DEF SaveInv
  <2>7. \A o \in Procs : Holding(o)' =>
          /\ proc'[o].handle = "temporary"
          /\ temporary' = Text(IF proc'[o].pc = "write" THEN <<>> ELSE proc'[o].config)
    BY <1>1, <1>2, <2>1, <2>2 DEF SameSave
  <2>. QED BY <2>2, <2>4, <2>5, <2>6, <2>7 DEF SaveInv
<1>4. MapInv'
  <2>1. \A o \in Procs : At(o, "map")' <=> At(o, "map")
    BY <1>1 DEF At
  <2>2. \A o \in Procs : At(o, "map") => proc'[o] = proc[o]
    BY <1>1 DEF At
  <2>3. \A o \in Procs : ByServer(o)' => server'.up
    BY <1>1 DEF MapInv, ByServer, SameSave
  <2>. QED BY <1>1, <1>2, <2>1, <2>2, <2>3 DEF MapInv, Served
<1>. QED BY <1>3, <1>4

\* The rename takes the copy the command made of the registry it loaded.
LEMMA SaveRename ==
  ASSUME TypeInv, SaveInv, MapInv, NEW q \in Procs, Rename(q)
  PROVE  SaveInv' /\ MapInv'
<1>1. /\ SharesAt /\ UNCHANGED <<server, overlapped>> /\ proc[q].pc = "rename"
      /\ proc[q] \in Writing /\ proc[q] \in Sharers
  BY RenameStep
<1>2. ASSUME ~overlapped
      PROVE  /\ temporary = Text(proc[q].config) /\ temporary # NoFile
             /\ proc[q].config \in Seq(EntrySet) /\ Unique(proc[q].config)
             /\ proc[q].fresh => /\ proc[q].config = Changed(proc[q], registry.repo)
                                 /\ proc[q].kind \notin Removals => proc[q].config # registry.repo
             /\ \A o \in Procs \ {q} : ~ Holding(o)
  <2>1. Holding(q) /\ Configured(q)
    BY <1>1 DEF Holding, Configured
  <2>2. temporary = Text(proc[q].config)
    BY <1>1, <1>2, <2>1 DEF SaveInv
  <2>3. temporary # NoFile
    BY <2>2 DEF Text, NoFile
  <2>4. proc[q].config \in Seq(EntrySet)
    BY <1>1 DEF Writing
  <2>. QED BY <1>2, <2>1, <2>2, <2>3, <2>4 DEF SaveInv
<1>3. CASE /\ temporary = NoFile /\ proc'[q] = Idle
           /\ UNCHANGED <<registry, temporary, added, crossed, apart>>
           /\ \A o \in Procs \ {q} : proc'[o] = proc[o]
  BY <1>1, <1>3, UntouchedByBuild DEF At, SharesAt
<1>4. CASE /\ temporary # NoFile /\ registry' = temporary
           /\ added' = Acknowledged(q) /\ crossed' = (crossed \/ ~ proc[q].fresh)
           /\ apart' = (apart \/ ~ByServer(q) \/ \E o \in Procs : At(o, "map"))
           /\ ~ByServer(q) => proc'[q] = Idle
           /\ ByServer(q) => proc'[q] = [pc |-> "map", kind |-> proc[q].kind, repo |-> proc[q].repo,
                                         name |-> proc[q].name]
           /\ \A o \in Procs \ {q} :
                \/ proc'[o] = proc[o] /\ ~ Configured(o)
                \/ /\ Configured(o) /\ proc'[o] \in Saving \cup Writing /\ proc'[o].pc = proc[o].pc
                   /\ SameSave(proc'[o], proc[o]) /\ proc'[o].fresh = FALSE
  <2>1. /\ proc'[q].pc \in {"idle", "map"}
        /\ ByServer(q) => proc'[q].pc = "map" /\ proc'[q].kind = proc[q].kind /\ proc'[q].repo = proc[q].repo
                          /\ proc'[q].name = proc[q].name
        /\ ~ ByServer(q) => proc'[q].pc = "idle"
    BY <1>4 DEF Idle
  <2>2. ASSUME ~overlapped
        PROVE  registry'.is = "toml" /\ registry'.repo = proc[q].config
    BY <1>2, <1>4, <2>2 DEF Text
  <2>3. \A o \in Procs : Configured(o)' => /\ o # q /\ Configured(o) /\ SameSave(proc'[o], proc[o])
                                           /\ ~ proc'[o].fresh /\ proc'[o].pc = proc[o].pc
    BY <1>4, <2>1 DEF Configured
  <2>4. /\ proc[q].name \in Names \cup {NoName} /\ proc[q].kind \in Commands
        /\ proc[q].kind \notin Removals => proc[q].repo \in Repos
    BY <1>1 DEF Writing, Sharers
  <2>5. registry.repo \in Seq(EntrySet)
    BY DEF TypeInv, FileSet
  <2>6. SaveInv'
    <3>. SUFFICES ASSUME ~overlapped' PROVE SaveInv'
      BY DEF SaveInv
    <3>1. ~overlapped
      BY <1>1
    <3>2. \A o \in Procs : Configured(o)' => Unique(proc'[o].config)
      BY <2>3, <3>1 DEF SaveInv, SameSave
    <3>3. \A o \in Procs : ~ Holding(o)'
      BY <1>2, <2>3, <3>1 DEF Holding, Configured
    <3>4. registry'.is # "broken" /\ Unique(registry'.repo)
      BY <1>2, <2>2, <3>1
    <3>5. ASSUME ~crossed' PROVE Pairs(registry'.repo) = added'
      <4>1. ~crossed /\ proc[q].fresh /\ Pairs(registry.repo) = added /\ Unique(registry.repo)
        BY <1>4, <3>1, <3>5 DEF SaveInv
      <4>2. /\ registry'.repo = Changed(proc[q], registry.repo)
            /\ proc[q].kind \notin Removals => Changed(proc[q], registry.repo) # registry.repo
        BY <1>2, <2>2, <3>1, <4>1
      <4>3. added' = IF proc[q].kind \in Removals THEN {e \in added : e[1] # proc[q].name}
                     ELSE added \cup {<<EffectiveName(Entry(proc[q].name, proc[q].repo)), proc[q].repo>>}
        BY <1>4 DEF Acknowledged, Is, Removals
      <4>4. CASE proc[q].kind \in Removals
        <5>1. Pairs(Changed(proc[q], registry.repo)) = {e \in Pairs(registry.repo) : e[1] # proc[q].name}
          BY <2>4, <2>5, <4>1, <4>4, ChangeKeeps
        <5>. QED BY <4>1, <4>2, <4>3, <4>4, <5>1
      <4>5. CASE proc[q].kind \notin Removals
        <5>1. Pairs(Changed(proc[q], registry.repo))
                = Pairs(registry.repo) \cup {<<EffectiveName(Entry(proc[q].name, proc[q].repo)), proc[q].repo>>}
          BY <2>4, <2>5, <4>1, <4>2, <4>5, ChangeKeeps
        <5>. QED BY <4>1, <4>2, <4>3, <4>5, <5>1
      <4>. QED BY <4>4, <4>5
    <3>. QED BY <2>3, <3>2, <3>3, <3>4, <3>5 DEF SaveInv
  <2>7. MapInv'
    <3>1. \A o \in Procs : ByServer(o)' => server'.up
      <4>1. \A o \in Procs \ {q} : ByServer(o)' => ByServer(o)
        BY <1>4 DEF ByServer, SameSave
      <4>2. ByServer(q)' => ByServer(q)
        BY <2>1 DEF ByServer
      <4>. QED BY <1>1, <4>1, <4>2 DEF MapInv
    <3>2. ASSUME server'.up, ~apart', ~overlapped', ~crossed'
          PROVE  /\ \A o \in Procs : At(o, "map")' <=> o = q
                 /\ Updated(proc'[q], Served') = Pairs(registry'.repo)
      <4>1. /\ server.up /\ ~apart /\ ~overlapped /\ ~crossed /\ proc[q].fresh
            /\ ByServer(q) /\ \A o \in Procs : ~ At(o, "map")
        BY <1>1, <1>4, <3>2
      <4>2. Served = Pairs(registry.repo) /\ Served' = Served
        BY <1>1, <4>1 DEF MapInv, Served
      <4>3. \A o \in Procs : At(o, "map")' <=> o = q
        BY <1>4, <2>1, <4>1 DEF At
      <4>4. Unique(registry.repo)
        BY <4>1 DEF SaveInv
      <4>5. /\ registry'.repo = Changed(proc[q], registry.repo)
            /\ proc[q].kind \notin Removals => Changed(proc[q], registry.repo) # registry.repo
        BY <1>2, <2>2, <4>1
      <4>6. Updated(proc[q], Pairs(registry.repo)) = Pairs(Changed(proc[q], registry.repo))
        BY <2>4, <2>5, <4>4, <4>5, ChangeKeeps
      <4>7. Updated(proc'[q], Served) = Updated(proc[q], Served)
        BY <2>1, <4>1 DEF Updated
      <4>. QED BY <4>2, <4>3, <4>5, <4>6, <4>7
    <3>. QED BY <1>1, <3>1, <3>2 DEF MapInv
  <2>. QED BY <2>6, <2>7
<1>. QED BY <1>3, <1>4, RenameStep

\* The handler's last statement makes the map what the registry has become.
LEMMA SaveUpdate ==
  ASSUME TypeInv, SaveInv, MapInv, NEW q \in Procs, UpdateMap(q)
  PROVE  SaveInv' /\ MapInv'
<1>. DEFINE n == EffectiveName(Entry(proc[q].name, proc[q].repo))
<1>1. /\ SharesAt /\ UNCHANGED <<registry, temporary, added, crossed, overlapped, apart>>
      /\ proc'[q] = Idle /\ \A o \in Procs \ {q} : proc'[o] = proc[o]
  BY EndStep DEF UpdateMap, told
<1>2. proc[q].pc = "map" /\ proc[q] \in Asking /\ proc[q] \in Sharers
  BY Shapes DEF UpdateMap, At, TypeInv
<1>3. /\ proc[q].kind \in Removals \/ proc[q].kind = "web add"
      /\ ByServer(q)
  BY <1>2 DEF Sharers, Removals, ByServer
<1>4. server.up
  BY <1>3 DEF MapInv
<1>5. \A o \in Procs : proc'[o].pc \in {"save", "write", "rename", "map"} => o # q /\ proc'[o] = proc[o]
  BY <1>1 DEF Idle
<1>6. SaveInv'
  BY <1>1, <1>5 DEF SaveInv, Configured, Holding
<1>0. server = [up |-> server.up, repos |-> server.repos]
  BY DEF MapInv
<1>7. server' = [up |-> server.up, repos |-> server'.repos] /\ server'.up = server.up
  BY <1>0 DEF UpdateMap
<1>8. Served' = Updated(proc[q], Served)
  <2>1. CASE proc[q].kind \in Removals
    <3>. DEFINE f == [x \in DOMAIN server.repos \ {proc[q].name} |-> server.repos[x]]
    <3>1. server' = [server EXCEPT !.repos = f]
      <4>1. Is(q, {"web remove"})
        BY <1>3, <2>1, <1>2 DEF Is, Removals, Sharers
      <4>. QED BY <4>1 DEF UpdateMap
    <3>2. server'.repos = f
      BY <1>0, <3>1
    <3>3. ASSUME NEW e PROVE e \in Served' <=> e \in Served /\ e[1] # proc[q].name
      BY <3>2 DEF Served
    <3>. QED BY <2>1, <3>3 DEF Updated
  <2>2. CASE proc[q].kind \notin Removals
    <3>. DEFINE f == [x \in DOMAIN server.repos \cup {n} |-> IF x = n THEN proc[q].repo ELSE server.repos[x]]
    <3>1. server' = [server EXCEPT !.repos = f]
      BY <2>2 DEF UpdateMap, Is, Removals
    <3>2. server'.repos = f
      BY <1>0, <3>1
    <3>. HIDE DEF n
    <3>3. ASSUME NEW e PROVE e \in Served' <=> (e \in Served /\ e[1] # n) \/ e = <<n, proc[q].repo>>
      BY <3>2 DEF Served
    <3>. QED BY <2>2, <3>3 DEF Updated, n
  <2>. QED BY <2>1, <2>2
<1>9. \A o \in Procs : ByServer(o)' => server'.up
  BY <1>4, <1>7
<1>10. ASSUME server'.up, ~apart', ~overlapped', ~crossed'
       PROVE  (\A o \in Procs : ~ At(o, "map")') /\ Served' = Pairs(registry'.repo)
  <2>1. /\ \A o, k \in Procs : At(o, "map") /\ At(k, "map") => o = k
        /\ Updated(proc[q], Served) = Pairs(registry.repo)
    BY <1>1, <1>2, <1>4, <1>10 DEF MapInv, At
  <2>2. \A o \in Procs : ~ At(o, "map")'
    BY <1>2, <1>5, <2>1 DEF At
  <2>. QED BY <1>1, <1>8, <2>1, <2>2
<1>11. MapInv'
  BY <1>7, <1>9, <1>10 DEF MapInv
<1>. QED BY <1>6, <1>11

(* A kill keeps the invariants of saves and map. *)
LEMMA SaveKill ==
  ASSUME TypeInv, SaveInv, MapInv, NEW q \in Procs, Kill(q)
  PROVE  SaveInv' /\ MapInv'
<1>1. /\ SharesAt /\ UNCHANGED <<registry, temporary, added, crossed, overlapped, apart>>
      /\ \A o \in Procs : proc'[o] = proc[o] \/ proc'[o] = Idle
  BY KillStep
<1>2. CASE UNCHANGED server /\ \A o \in Procs : At(o, "map") => proc'[o] = proc[o]
  BY <1>1, <1>2, UntouchedByBuild DEF SharesAt
<1>3. CASE server' = Down /\ \A o \in Procs : ByServer(o) => proc'[o] = Idle
  <2>1. \A o \in Procs : proc'[o].pc # "idle" => proc'[o] = proc[o]
    BY <1>1 DEF Idle
  <2>2. SaveInv'
    BY <1>1, <2>1 DEF SaveInv, Configured, Holding
  <2>3. ASSUME NEW o \in Procs, ByServer(o)' PROVE FALSE
    <3>1. proc'[o] = proc[o] /\ proc'[o].pc # "idle" /\ ByServer(o)
      BY <2>1, <2>3 DEF ByServer
    <3>. QED BY <1>3, <3>1 DEF Idle
  <2>4. ~ server'.up /\ server' = [up |-> server'.up, repos |-> server'.repos]
    BY <1>3 DEF Down
  <2>. QED BY <2>2, <2>3, <2>4 DEF MapInv
<1>. QED BY <1>2, <1>3, KillStep

\* The map the server starts with is the registry.
LEMMA SaveServe ==
  ASSUME TypeInv, SaveInv, MapInv, StartServer
  PROVE  SaveInv' /\ MapInv'
<1>. DEFINE cfg == registry.repo
            named == {EffectiveName(cfg[i]) : i \in DOMAIN cfg}
<1>1. /\ ~server.up /\ UNCHANGED <<registry, temporary, proc, added, crossed, overlapped>>
      /\ server' = Up([n \in named |-> cfg[Max(FindByName(cfg, n))].path])
  BY DEF StartServer, files, Parse
<1>2. SaveInv'
  BY <1>1 DEF SaveInv, Configured, Holding
<1>3. server'.up /\ server'.repos = [n \in named |-> cfg[Max(FindByName(cfg, n))].path]
  BY <1>1 DEF Up
<1>4. \A o \in Procs : ~ ByServer(o)
  BY <1>1 DEF MapInv
<1>5. \A o \in Procs : ~ At(o, "map")'
  <2>1. ASSUME NEW o \in Procs PROVE proc[o].pc # "map"
    <3>1. proc[o].pc = "map" => proc[o] \in Sharers
      BY Shapes DEF TypeInv
    <3>. QED BY <1>4, <3>1 DEF ByServer, Sharers
  <2>. QED BY <1>1, <2>1 DEF At
<1>6. cfg \in Seq(EntrySet)
  BY DEF TypeInv, FileSet
<1>7. ASSUME ~overlapped PROVE Served' = Pairs(cfg)
  <2>1. Unique(cfg)
    BY <1>7 DEF SaveInv
  <2>2. ASSUME NEW i \in DOMAIN cfg
        PROVE  Max(FindByName(cfg, EffectiveName(cfg[i]))) = i
    <3>. DEFINE T == FindByName(cfg, EffectiveName(cfg[i]))
    <3>1. T \subseteq 1 .. Len(cfg) /\ Len(cfg) \in Nat /\ i \in T
      BY <1>6 DEF FindByName
    <3>2. \A j \in T : j = i
      BY <2>1 DEF Unique, FindByName
    <3>. HIDE DEF T
    <3>3. Max(T) \in T
      BY <3>1, MinMaxIn
    <3>. QED BY <3>2, <3>3 DEF T
  <2>. HIDE DEF cfg
  <2>3. ASSUME NEW e PROVE e \in Served' <=> \E n \in named : e = <<n, server'.repos[n]>>
    BY <1>3 DEF Served
  <2>4. ASSUME NEW i \in DOMAIN cfg
        PROVE  EffectiveName(cfg[i]) \in named /\ server'.repos[EffectiveName(cfg[i])] = cfg[i].path
    BY <1>3, <2>2
  <2>5. ASSUME NEW e PROVE e \in Served' <=> e \in Pairs(cfg)
    BY <2>3, <2>4, PairOf
  <2>. QED BY <2>5
<1>8. MapInv'
  <2>1. server' = [up |-> server'.up, repos |-> server'.repos]
    BY <1>1 DEF Up
  <2>. QED BY <1>1, <1>3, <1>5, <1>7, <2>1 DEF MapInv
<1>. QED BY <1>2, <1>8

FullInv == FilterInv /\ SaveInv /\ MapInv

(* The invariants of registry and map hold at the start. *)
LEMMA FullInit == Init => FullInv
<1>. SUFFICES ASSUME Init PROVE FullInv
  OBVIOUS
<1>. DEFINE S == {Entry(NoName, r) : r \in Known}
            s == SetToSeq(S)
<1>1. /\ s \in Seq(EntrySet)
      /\ \A i \in DOMAIN s : s[i] \in S
      /\ \A e \in S : \E i \in DOMAIN s : s[i] = e
      /\ \A i, j \in DOMAIN s : s[i] = s[j] => i = j
  BY FirstRegistry
<1>2. registry.repo = s /\ registry.is = "toml"
  BY DEF Init, Text
<1>. HIDE DEF s
<1>3. \A e : e \in S <=> \E r \in Known : e = Entry(NoName, r)
  OBVIOUS
<1>. HIDE DEF S
<1>4. ASSUME NEW r \in Known
      PROVE  Entry(NoName, r).path = r /\ EffectiveName(Entry(NoName, r)) = BaseName[r]
  BY DEF Entry, EffectiveName
<1>5. Unique(s)
  <2>1. ASSUME NEW i \in DOMAIN s, NEW j \in DOMAIN s,
               EffectiveName(s[i]) = EffectiveName(s[j]) \/ s[i].path = s[j].path
        PROVE  i = j
    <3>1. PICK a \in Known : s[i] = Entry(NoName, a)
      BY <1>1, <1>3
    <3>2. PICK b \in Known : s[j] = Entry(NoName, b)
      BY <1>1, <1>3
    <3>3. a = b
      BY <1>4, <2>1, <3>1, <3>2, RepositoriesAssumption
    <3>. QED BY <1>1, <3>1, <3>2, <3>3
  <2>. QED BY <2>1 DEF Unique
<1>6. Pairs(s) = added
  <2>1. ASSUME NEW e PROVE e \in Pairs(s) <=> \E r \in Known : e = <<BaseName[r], r>>
    <3>1. ASSUME e \in Pairs(s) PROVE \E r \in Known : e = <<BaseName[r], r>>
      <4>1. PICK i \in DOMAIN s : e = <<EffectiveName(s[i]), s[i].path>>
        BY <3>1, PairOf
      <4>2. PICK a \in Known : s[i] = Entry(NoName, a)
        BY <1>1, <1>3
      <4>. QED BY <1>4, <4>1, <4>2
    <3>2. ASSUME NEW r \in Known, e = <<BaseName[r], r>> PROVE e \in Pairs(s)
      <4>1. PICK i \in DOMAIN s : s[i] = Entry(NoName, r)
        BY <1>1, <1>3
      <4>. QED BY <1>4, <3>2, <4>1, PairOf
    <3>. QED BY <3>1, <3>2
  <2>2. \A e : e \in added <=> \E r \in Known : e = <<BaseName[r], r>>
    BY DEF Init
  <2>. QED BY <2>1, <2>2
<1>7. \A q \in Procs : proc[q].pc = "idle"
  BY DEF Init, Idle
<1>8. SaveInv
  BY <1>2, <1>5, <1>6, <1>7 DEF SaveInv, Configured, Holding
<1>9. MapInv
  <2>1. ~ server.up /\ server = [up |-> server.up, repos |-> server.repos]
    BY DEF Init, Down
  <2>. QED BY <1>7, <2>1 DEF MapInv, ByServer
<1>. QED BY <1>8, <1>9, FilterInit DEF FullInv

(* Every step keeps the invariants of registry and map. *)
LEMMA FullStep == FullInv /\ [Next]_vars => FullInv'
<1>. SUFFICES ASSUME FullInv, [Next]_vars PROVE FullInv'
  OBVIOUS
<1>0. FilterInv /\ SaveInv /\ MapInv /\ TypeInv
  BY DEF FullInv, FilterInv
<1>1. FilterInv'
  BY <1>0, FilterStep
<1>2. proc' \in [Procs -> ProcSet]
  BY <1>1 DEF FilterInv, TypeInv
<1>3. ASSUME NEW q \in Procs, InitStep(q) PROVE SaveInv' /\ MapInv'
  <2>1. BuildsAt(q)
    BY <1>0, <1>3, BuildStep
  <2>2. ~ At(q, "map")
    BY <1>0, <2>1, QuietDomain DEF BuildsAt, At, TypeInv
  <2>. QED BY <1>0, <1>2, <2>1, <2>2, UntouchedByBuild DEF BuildsAt
<1>4. ASSUME NEW q \in Procs, RegistryStep(q) PROVE SaveInv' /\ MapInv'
  <2>1. ASSUME WriteFails(q) PROVE SaveInv' /\ MapInv'
    <3>1. /\ UNCHANGED <<registry, temporary, server, added, crossed, overlapped, apart>>
          /\ proc'[q] = Idle /\ \A o \in Procs \ {q} : proc'[o] = proc[o]
      BY <1>0, <2>1, EndStep DEF WriteFails, files, told
    <3>2. ~ At(q, "map")
      BY <2>1 DEF WriteFails, At
    <3>. QED BY <1>0, <1>2, <3>1, <3>2, UntouchedByBuild
  <2>. QED BY <1>0, <1>4, <2>1, SaveLoad, SaveTruncate, SaveWrite, SaveRename, SaveUpdate DEF RegistryStep
<1>5. ASSUME NEW q \in Procs,
             \/ \E kind \in {"add", "web add"}, r \in Repos, name \in Names \cup {NoName} :
                  StartAdd(q, kind, r, name)
             \/ \E kind \in {"remove", "web remove"}, name \in Names : StartRemove(q, kind, name)
      PROVE  SaveInv' /\ MapInv'
  <2>1. /\ UNCHANGED <<registry, temporary, server, added, crossed, overlapped, apart>>
        /\ proc[q].pc = "idle" /\ proc'[q].pc = "load"
        /\ proc'[q].kind \in {"web add", "web remove"} => server.up
        /\ \A o \in Procs \ {q} : proc'[o] = proc[o]
    BY <1>0, <1>5, AskStep
  <2>2. ~ At(q, "map") /\ proc'[q].pc \notin Late /\ (ByServer(q)' => server.up)
    BY <2>1 DEF At, Late, ByServer
  <2>. QED BY <1>0, <2>1, <2>2, Untouched
<1>6. ASSUME NEW r \in Repos, NEW p \in Editable, NEW content \in Contents \cup {Missing}, Edit(r, p, content)
      PROVE  SaveInv' /\ MapInv'
  <2>1. UNCHANGED <<registry, temporary, server, added, crossed, overlapped, apart>>
    BY <1>6 DEF Edit, files, told
  <2>2. ASSUME NEW o \in Procs
        PROVE  proc'[o] = proc[o] \/ (~ At(o, "map") /\ proc'[o] \in Builders \cup {Idle})
    <3>1. CASE Building(o, r)
      <4>1. proc[o] \in Builders /\ proc[o].pc # "map"
        BY <1>0, <3>1, QuietDomain DEF Building, TypeInv
      <4>2. proc'[o] = [proc[o] EXCEPT !.quiet = FALSE]
        BY <1>6, <3>1 DEF Edit
      <4>. QED BY <4>1, <4>2, Disturbed DEF At
    <3>2. CASE ~ Building(o, r)
      BY <1>6, <3>2 DEF Edit
    <3>. QED BY <3>1, <3>2
  <2>. QED BY <1>0, <1>2, <2>1, <2>2, UntouchedByBuild
<1>7. ASSUME NEW q \in Procs, NEW arg \in Dirs \cup Names, NEW force \in BOOLEAN, StartInit(q, arg, force)
      PROVE  SaveInv' /\ MapInv'
  <2>1. UNCHANGED <<registry, temporary, server, added, crossed, overlapped, apart>>
    BY <1>7 DEF StartInit, files, told
  <2>2. ASSUME NEW o \in Procs \ {q}
        PROVE  proc'[o] = proc[o] \/ (~ At(o, "map") /\ proc'[o] \in Builders \cup {Idle})
    <3>1. CASE Building(o, RootOf(arg))
      <4>1. proc[o] \in Builders /\ proc[o].pc # "map"
        BY <1>0, <3>1, QuietDomain DEF Building, TypeInv
      <4>2. proc'[o] = [proc[o] EXCEPT !.quiet = FALSE]
        BY <1>7, <3>1 DEF StartInit
      <4>. QED BY <4>1, <4>2, Disturbed DEF At
    <3>2. CASE ~ Building(o, RootOf(arg))
      BY <1>7, <3>2 DEF StartInit
    <3>. QED BY <3>1, <3>2
  <2>3. ~ At(q, "map") /\ "quiet" \in DOMAIN proc'[q]
    BY <1>7 DEF StartInit, Command, At
  <2>4. proc'[q] \in Builders
    BY <1>2, <2>3, QuietDomain
  <2>. QED BY <1>0, <1>2, <2>1, <2>2, <2>3, <2>4, UntouchedByBuild
<1>8. ASSUME UNCHANGED vars PROVE SaveInv' /\ MapInv'
  <2>1. UNCHANGED <<registry, temporary, server, proc, added, crossed, overlapped, apart>>
    BY <1>8 DEF vars, files, told
  <2>. QED BY <1>0, <2>1, Untouched
<1>9. SaveInv' /\ MapInv'
  BY <1>0, <1>3, <1>4, <1>5, <1>6, <1>7, <1>8, SaveKill, SaveServe DEF Next
<1>. QED BY <1>1, <1>9 DEF FullInv

\* Without doubles there are as many entries as pairs, and a name and a path tell the same.
LEMMA UniquePairs ==
  ASSUME NEW cfg \in Seq(EntrySet), Unique(cfg)
  PROVE  /\ Cardinality(Pairs(cfg)) = Len(cfg)
         /\ \A x, y \in Pairs(cfg) : x[1] = y[1] <=> x[2] = y[2]
<1>. DEFINE f == [i \in 1 .. Len(cfg) |-> <<EffectiveName(cfg[i]), cfg[i].path>>]
<1>1. Len(cfg) \in Nat /\ DOMAIN cfg = 1 .. Len(cfg)
  OBVIOUS
<1>2. f \in [1 .. Len(cfg) -> Pairs(cfg)]
  BY <1>1, PairOf
<1>3. f \in Surjection(1 .. Len(cfg), Pairs(cfg))
  BY <1>1, <1>2, PairOf DEF Surjection
<1>4. \A i, j \in 1 .. Len(cfg) : f[i] = f[j] => i = j
  BY <1>1 DEF Unique
<1>5. f \in Injection(1 .. Len(cfg), Pairs(cfg))
  BY <1>2, <1>4 DEF Injection, IsInjective
<1>6. IsFiniteSet(1 .. Len(cfg)) /\ Cardinality(1 .. Len(cfg)) = Len(cfg)
  BY <1>1, FS_Interval
<1>7. Cardinality(Pairs(cfg)) = Len(cfg)
  <2>. HIDE DEF f
  <2>. QED BY <1>3, <1>5, <1>6, FS_Surjection
<1>8. ASSUME NEW x \in Pairs(cfg), NEW y \in Pairs(cfg) PROVE x[1] = y[1] <=> x[2] = y[2]
  <2>1. PICK i \in DOMAIN cfg : x = <<EffectiveName(cfg[i]), cfg[i].path>>
    BY PairOf
  <2>2. PICK j \in DOMAIN cfg : y = <<EffectiveName(cfg[j]), cfg[j].path>>
    BY PairOf
  <2>. QED BY <2>1, <2>2 DEF Unique
<1>. QED BY <1>7, <1>8

\* A registered name leads to its repository.
LEMMA NameLeads ==
  ASSUME registry \in FileSet, registry.is # "broken", Unique(registry.repo), NEW e \in Pairs(registry.repo)
  PROVE  RootOf(e[1]) = e[2] /\ e[2] \in Repos
<1>. DEFINE cfg == registry.repo
            T == FindByName(cfg, e[1])
<1>1. cfg \in Seq(EntrySet)
  BY DEF FileSet
<1>2. PICK i \in DOMAIN cfg : e = <<EffectiveName(cfg[i]), cfg[i].path>>
  BY PairOf
<1>3. e[1] = EffectiveName(cfg[i]) /\ e[2] = cfg[i].path /\ cfg[i] \in EntrySet
  BY <1>1, <1>2
<1>4. e[1] \in Names /\ e[2] \in Repos
  BY <1>3, EntryNames
<1>5. T \subseteq 1 .. Len(cfg) /\ Len(cfg) \in Nat /\ i \in T
  BY <1>1, <1>3 DEF FindByName
<1>6. \A j \in T : j = i
  BY <1>3 DEF Unique, FindByName
<1>7. Min(T) = i
  <2>. HIDE DEF T
  <2>1. Min(T) \in T
    BY <1>5, MinMaxIn
  <2>. QED BY <1>6, <2>1
<1>8. RootOf(e[1]) = ResolveRepo(e[1])
  BY <1>4 DEF RootOf
<1>9. ResolveRepo(e[1]) = cfg[Min(T)].path
  BY <1>5 DEF ResolveRepo, Loads, Parse
<1>. QED BY <1>3, <1>4, <1>7, <1>8, <1>9

(* The invariant gives the property of the registry. *)
LEMMA RegistryHolds == FullInv => RegistryKept
<1>. SUFFICES ASSUME FullInv PROVE RegistryKept
  OBVIOUS
<1>0. SaveInv /\ registry \in FileSet /\ registry.repo \in Seq(EntrySet)
  BY DEF FullInv, FilterInv, TypeInv, FileSet
<1>1. ASSUME ~overlapped
      PROVE  /\ Loads(registry) /\ Unique(Parse(registry))
             /\ Cardinality(Pairs(Parse(registry))) = Len(Parse(registry))
             /\ \A x, y \in Pairs(Parse(registry)) : x[1] = y[1] <=> x[2] = y[2]
  <2>1. registry.is # "broken" /\ Unique(registry.repo)
    BY <1>0, <1>1 DEF SaveInv
  <2>. QED BY <1>0, <2>1, UniquePairs DEF Loads, Parse
<1>2. ASSUME ~overlapped, ~crossed
      PROVE  /\ Pairs(Parse(registry)) = added
             /\ \A e \in added, c \in WellFormed :
                  Use(e[1], c) = [root |-> e[2], sends |-> IF e[2] \in segments THEN c.is ELSE "nothing"]
  <2>1. Pairs(registry.repo) = added /\ registry.is # "broken" /\ Unique(registry.repo)
    BY <1>0, <1>2 DEF SaveInv
  <2>2. ASSUME NEW e \in added, NEW c \in WellFormed
        PROVE  Use(e[1], c) = [root |-> e[2], sends |-> IF e[2] \in segments THEN c.is ELSE "nothing"]
    <3>1. RootOf(e[1]) = e[2]
      BY <1>0, <2>1, NameLeads
    <3>2. /\ ~ (c.is = "QuerySearch" /\ c.flags # {})
          /\ ~ (c.is = "Search" /\ "--regex" \notin c.flags /\ c.length < 3)
      BY DEF WellFormed
    <3>. QED BY <3>1, <3>2 DEF Use
  <2>. QED BY <2>1, <2>2 DEF Parse
<1>. QED BY <1>1, <1>2 DEF RegistryKept

(* The invariant gives the property of the server's map. *)
LEMMA ServerHolds == FullInv => ServerAgrees
<1>. SUFFICES ASSUME FullInv, server.up, ~apart, ~overlapped, ~crossed, ~(\E q \in Procs : At(q, "map"))
              PROVE  {<<n, server.repos[n]>> : n \in DOMAIN server.repos}
                       = {<<row[1], row[2]>> : row \in ToSet(Listing(Parse(registry)))}
  BY DEF ServerAgrees
<1>1. Served = Pairs(registry.repo)
  BY DEF FullInv, MapInv
<1>2. ASSUME NEW e
      PROVE  e \in {<<row[1], row[2]>> : row \in ToSet(Listing(registry.repo))} <=> e \in Pairs(registry.repo)
  <2>. DEFINE cfg == registry.repo
              row(i) == <<EffectiveName(cfg[i]), cfg[i].path, cfg[i].path \in segments>>
  <2>1. Listing(cfg) = [i \in DOMAIN cfg |-> row(i)]
    BY DEF Listing
  <2>2. \A y : y \in ToSet(Listing(cfg)) <=> \E i \in DOMAIN cfg : y = row(i)
    BY <2>1 DEF ToSet
  <2>3. \A i : row(i)[1] = EffectiveName(cfg[i]) /\ row(i)[2] = cfg[i].path
    OBVIOUS
  <2>. HIDE DEF row, cfg
  <2>4. e \in {<<y[1], y[2]>> : y \in ToSet(Listing(cfg))}
          <=> \E i \in DOMAIN cfg : e = <<EffectiveName(cfg[i]), cfg[i].path>>
    BY <2>2, <2>3
  <2>. QED BY <2>4, PairOf DEF cfg
<1>. QED BY <1>1, <1>2 DEF Served, Parse

(* The registry, shared without a lock by commands and web handlers that may  *)
(* fail or be killed anywhere: while no two saves overlap it is whole, and    *)
(* while none saves over a change it did not load it is what the finished     *)
(* commands made of it, each name leading where it was registered.            *)
THEOREM RegistryIsKept == Spec => []RegistryKept
<1>1. Init => FullInv
  BY FullInit
<1>2. FullInv /\ [Next]_vars => FullInv'
  BY FullStep
<1>3. FullInv => RegistryKept
  BY RegistryHolds
<1>. QED BY <1>1, <1>2, <1>3, PTL DEF Spec

(* The web server's map and the registry, updated by each handler one after   *)
(* the other, agree whenever no handler is between the two.                   *)
THEOREM ServerKnowsRegistry == Spec => []ServerAgrees
<1>1. Init => FullInv
  BY FullInit
<1>2. FullInv /\ [Next]_vars => FullInv'
  BY FullStep
<1>3. FullInv => ServerAgrees
  BY ServerHolds
<1>. QED BY <1>1, <1>2, <1>3, PTL DEF Spec
=============================================================================
