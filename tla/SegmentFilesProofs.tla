------------------------ MODULE SegmentFilesProofs --------------------------
(***************************************************************************)
(* The commit of a segment directory: built in a temporary directory of    *)
(* its own, renamed when it is whole, and never touched by a recovery that *)
(* started before or after the build.  For every list of files, and any    *)
(* number of builds, crashes, tombstones and recoveries.                   *)
(***************************************************************************)
EXTENDS SegmentFiles, FiniteSetTheorems, WellFoundedInduction, TLAPS

-----------------------------------------------------------------------------
(* The inductive invariant.                                                *)

Dirs == Nat \X Nat

TypeInv ==
  /\ crashes \in Nat /\ nextId \in Nat
  /\ job \in [stage : 0 .. 8, id : Nat, pid : Nat, files : {job.files}, old : {job.old}]
  /\ DOMAIN disk \subseteq Nat \cap DOMAIN truth /\ IsFiniteSet(DOMAIN disk)
  /\ DOMAIN temp \subseteq Dirs
  /\ mcp \in [at : {"idle", "removing"}, dirs : SUBSET Dirs, holding : SUBSET Dirs, seen : {mcp.seen}]

\* Directories that are, or once were, under a temporary name.
Known == DOMAIN temp \cup mcp.dirs \cup mcp.holding

\* A build's directory carries the process and an id below the counter: the next one is new.
FreshInv ==
  /\ job.stage # 0 => up = "up" /\ job.pid = crashes /\ job.id < nextId
  /\ \A d \in Known : d[2] <= crashes /\ (d[2] = crashes => up = "up" /\ d[1] < nextId)

\* A recovery that met no build never gets hold of a build's directory.
ApartInv ==
  ~raced =>
    /\ mcp.holding \subseteq DOMAIN temp
    /\ job.stage \in 1 .. 6 => JobDir \notin mcp.dirs /\ JobDir \notin mcp.holding

\* The stage that writes a file.
StageOf ==
  [content |-> 1, highlights |-> 1, trigrams |-> 2, meta |-> 3, paths |-> 3, tombstones |-> 4,
   symbols |-> 5]

\* The files of a build in progress are those of the stages before.
ProgressInv ==
  ~raced /\ job.stage \in 1 .. 6 /\ JobDir \in DOMAIN temp =>
    /\ DOMAIN temp[JobDir] = {f \in FileName : StageOf[f] < job.stage}
    /\ \A f \in DOMAIN temp[JobDir] : temp[JobDir][f] = Built(job.files)[f]

\* What a segment directory has is what was built, and it has all of it unless it is being removed.
CommitInv ==
  ~raced /\ ~torn =>
    \A id \in DOMAIN disk :
      /\ DOMAIN disk[id] \subseteq FileName
      /\ \A f \in DOMAIN disk[id] \ {"tombstones"} : disk[id][f] = Built(truth[id])[f]
      /\ DOMAIN disk[id] = FileName \/ (job.stage = 8 /\ id \in job.old)

CommitsInv == TypeInv /\ FreshInv /\ ApartInv /\ ProgressInv /\ CommitInv

-----------------------------------------------------------------------------
(* Numbers.                                                                *)

\* A finite set of numbers that is not empty has a greatest.
LEMMA Greatest ==
  ASSUME NEW S, IsFiniteSet(S), S \subseteq Nat, S # {}
  PROVE  \E m \in S : \A x \in S : x <= m
<1>. DEFINE bad == {T \in SUBSET S : T # {} /\ ~ \E m \in T : \A x \in T : x <= m}
            R == StrictSubsetOrdering(S)
<1>. SUFFICES ASSUME bad # {} PROVE FALSE
  OBVIOUS
<1>1. IsWellFoundedOn(R, SUBSET S)
  BY FS_StrictSubsetOrderingWellFounded, FS_FiniteSubsetsOfFinite
<1>2. bad \subseteq SUBSET S
  OBVIOUS
<1>. HIDE DEF bad, R
<1>3. PICK T \in bad : \A U \in bad : ~ (<<U, T>> \in R)
  BY <1>1, <1>2, WFMin
<1>4. T \in SUBSET S /\ T # {} /\ ~ \E m \in T : \A x \in T : x <= m
  BY <1>3 DEF bad
<1>5. PICK t \in T : TRUE
  BY <1>4
<1>6. T \ {t} # {}
  BY <1>4, <1>5
<1>7. T \ {t} \in SUBSET S /\ T \ {t} # T
  BY <1>4, <1>5
<1>8. <<T \ {t}, T>> \in R
  BY <1>4, <1>7 DEF R, StrictSubsetOrdering
<1>9. T \ {t} \notin bad
  BY <1>3, <1>8
<1>10. PICK m \in T \ {t} : \A x \in T \ {t} : x <= m
  BY <1>6, <1>7, <1>9 DEF bad
<1>11. t \in Nat /\ m \in Nat /\ \A x \in T : x \in Nat
  BY <1>4, <1>5, <1>10
<1>12. CASE t <= m
  BY <1>4, <1>10, <1>12
<1>13. CASE m <= t
  <2>1. ASSUME NEW x \in T PROVE x <= t
    <3>1. CASE x = t
      BY <1>11, <3>1
    <3>2. CASE x # t
      BY <1>10, <1>11, <1>13, <3>2
    <3>. QED BY <3>1, <3>2
  <2>. QED BY <1>4, <1>5, <2>1
<1>. QED BY <1>11, <1>12, <1>13

\* The id after the largest in use is a number.
LEMMA FirstFreeIsNumber ==
  ASSUME NEW S, IsFiniteSet(S), S \subseteq Nat
  PROVE  FirstFree(S) \in Nat
<1>1. CASE S = {}
  BY <1>1 DEF FirstFree
<1>2. CASE S # {}
  <2>1. \E m \in S : \A id \in S : id <= m
    BY <1>2, Greatest
  <2>2. (CHOOSE m \in S : \A id \in S : id <= m) \in S
    BY <2>1
  <2>. DEFINE top == CHOOSE m \in S : \A id \in S : id <= m
  <2>3. FirstFree(S) = top + 1
    BY <1>2 DEF FirstFree
  <2>4. top \in Nat
    BY <2>2
  <2>. HIDE DEF top
  <2>. QED BY <2>3, <2>4
<1>. QED BY <1>1, <1>2

-----------------------------------------------------------------------------
(* What the stages of a build write.                                       *)

\* Every stage writes its own files.
LEMMA StageWrites ==
  ASSUME NEW k \in 1 .. 5, NEW files
  PROVE  DOMAIN Written(Stages[k], files) = {f \in FileName : StageOf[f] = k}
<1>1. /\ Stages[1] = "content" /\ Stages[2] = "trigrams" /\ Stages[3] = "meta"
      /\ Stages[4] = "tombstones" /\ Stages[5] = "symbols"
  BY DEF Stages
<1>2. CASE k = 1
  BY <1>1, <1>2 DEF Written, FileName, StageOf
<1>3. CASE k = 2
  BY <1>1, <1>3 DEF Written, FileName, StageOf
<1>4. CASE k = 3
  BY <1>1, <1>4 DEF Written, WriteMeta, FileName, StageOf
<1>5. CASE k = 4
  BY <1>1, <1>5 DEF Written, FileName, StageOf
<1>6. CASE k = 5
  BY <1>1, <1>6 DEF Written, FileName, StageOf
<1>. QED BY <1>2, <1>3, <1>4, <1>5, <1>6

\* Adding files to a directory.
LEMMA WithFacts ==
  ASSUME NEW d, NEW files
  PROVE  /\ DOMAIN With(d, files) = DOMAIN d \cup DOMAIN files
         /\ \A f \in DOMAIN files : With(d, files)[f] = files[f]
         /\ \A f \in DOMAIN d \ DOMAIN files : With(d, files)[f] = d[f]
BY DEF With

\* The whole directory has every file, as its stage wrote it.
LEMMA BuiltFacts ==
  ASSUME NEW files
  PROVE  /\ DOMAIN Built(files) = FileName
         /\ \A k \in 1 .. 5 : \A f \in DOMAIN Written(Stages[k], files) :
              Built(files)[f] = Written(Stages[k], files)[f]
<1>. DEFINE w1 == Written("content", files)
            w2 == Written("trigrams", files)
            w3 == Written("meta", files)
            w4 == Written("tombstones", files)
            w5 == Written("symbols", files)
            front == With(w1, w2)
            middle == With(w3, w4)
            most == With(front, middle)
<1>1. /\ Stages[1] = "content" /\ Stages[2] = "trigrams" /\ Stages[3] = "meta"
      /\ Stages[4] = "tombstones" /\ Stages[5] = "symbols"
  BY DEF Stages
<1>2. Built(files) = With(most, w5)
  BY DEF Built
<1>3. /\ DOMAIN w1 = {"content", "highlights"} /\ DOMAIN w2 = {"trigrams"}
      /\ DOMAIN w3 = {"meta", "paths"} /\ DOMAIN w4 = {"tombstones"} /\ DOMAIN w5 = {"symbols"}
  BY DEF Written, WriteMeta
<1>. HIDE DEF w1, w2, w3, w4, w5
<1>4. /\ DOMAIN front = {"content", "highlights", "trigrams"}
      /\ \A f \in DOMAIN w1 : front[f] = w1[f]
      /\ \A f \in DOMAIN w2 : front[f] = w2[f]
  BY <1>3 DEF With
<1>5. /\ DOMAIN middle = {"meta", "paths", "tombstones"}
      /\ \A f \in DOMAIN w3 : middle[f] = w3[f]
      /\ \A f \in DOMAIN w4 : middle[f] = w4[f]
  BY <1>3 DEF With
<1>. HIDE DEF front, middle
<1>6. /\ DOMAIN most = FileName \ {"symbols"}
      /\ \A f \in DOMAIN front : most[f] = front[f]
      /\ \A f \in DOMAIN middle : most[f] = middle[f]
  BY <1>4, <1>5 DEF With, FileName
<1>. HIDE DEF most
<1>7. /\ DOMAIN Built(files) = FileName
      /\ \A f \in DOMAIN most : Built(files)[f] = most[f]
      /\ \A f \in DOMAIN w5 : Built(files)[f] = w5[f]
  BY <1>2, <1>3, <1>6 DEF With, FileName
<1>8. /\ \A f \in DOMAIN w1 : Built(files)[f] = w1[f]
      /\ \A f \in DOMAIN w2 : Built(files)[f] = w2[f]
      /\ \A f \in DOMAIN w3 : Built(files)[f] = w3[f]
      /\ \A f \in DOMAIN w4 : Built(files)[f] = w4[f]
  BY <1>3, <1>4, <1>5, <1>6, <1>7 DEF FileName
<1>9. ASSUME NEW k \in 1 .. 5
      PROVE  \A f \in DOMAIN Written(Stages[k], files) : Built(files)[f] = Written(Stages[k], files)[f]
  <2>2. CASE k = 1
    BY <1>1, <1>8, <2>2 DEF w1
  <2>3. CASE k = 2
    BY <1>1, <1>8, <2>3 DEF w2
  <2>4. CASE k = 3
    BY <1>1, <1>8, <2>4 DEF w3
  <2>5. CASE k = 4
    BY <1>1, <1>8, <2>5 DEF w4
  <2>6. CASE k = 5
    BY <1>1, <1>7, <2>6 DEF w5
  <2>. QED BY <2>2, <2>3, <2>4, <2>5, <2>6
<1>. QED BY <1>7, <1>9

-----------------------------------------------------------------------------
(* Functions.                                                              *)

\* Putting an entry.
LEMMA PutFacts ==
  ASSUME NEW g, NEW k, NEW v
  PROVE  /\ DOMAIN Put(g, k, v) = DOMAIN g \cup {k}
         /\ Put(g, k, v)[k] = v
         /\ \A x \in DOMAIN g : x # k => Put(g, k, v)[x] = g[x]
BY DEF Put

\* Dropping an entry.
LEMMA DropFacts ==
  ASSUME NEW g, NEW k
  PROVE  /\ DOMAIN Drop(g, k) = DOMAIN g \ {k}
         /\ \A x \in DOMAIN g \ {k} : Drop(g, k)[x] = g[x]
BY DEF Drop

-----------------------------------------------------------------------------
(* The steps.                                                              *)

\* Nothing is built, removed or recovered at first, and every directory is whole.
LEMMA InitCommits == Init => CommitsInv
<1>. SUFFICES ASSUME Init PROVE CommitsInv
  OBVIOUS
<1>1. PICK start \in Starts :
        /\ truth = [id \in DOMAIN start |-> Prepared(start[id])]
        /\ disk = [id \in DOMAIN start |-> Built(truth[id])]
        /\ nextId = FirstFree(DOMAIN start)
        /\ temp = <<>> /\ job = Idle /\ up = "up"
        /\ mcp = NoRecovery /\ crashes = 0
  BY DEF Init
<1>2. DOMAIN start \subseteq Nat /\ IsFiniteSet(DOMAIN start)
  BY FilesAssumption
<1>3. DOMAIN disk = DOMAIN start /\ DOMAIN truth = DOMAIN start /\ DOMAIN temp = {}
  BY <1>1
<1>4. TypeInv
  BY <1>1, <1>2, <1>3, FirstFreeIsNumber DEF TypeInv, Idle, NoRecovery, Dirs
<1>5. FreshInv /\ ApartInv /\ ProgressInv
  BY <1>1, <1>3 DEF FreshInv, ApartInv, ProgressInv, Known, Idle, NoRecovery
<1>6. CommitInv
  BY <1>1, <1>3, BuiltFacts DEF CommitInv
<1>. QED BY <1>4, <1>5, <1>6 DEF CommitsInv

\* A build starts in a directory nobody knows.
LEMMA StartJobCommits ==
  ASSUME CommitsInv, NEW files, NEW old, StartJob(files, old)
  PROVE  CommitsInv'
<1>. DEFINE d == <<nextId, crashes>>
<1>. USE DEF CommitsInv
<1>1. /\ up = "up" /\ job = Idle
      /\ job' = [stage |-> 1, id |-> nextId, pid |-> crashes, files |-> files, old |-> old]
      /\ temp' = Put(temp, d, <<>>) /\ nextId' = nextId + 1
      /\ UNCHANGED <<disk, up, mcp, crashes, truth, torn, raced>>
  BY DEF StartJob
<1>2. DOMAIN temp' = DOMAIN temp \cup {d} /\ temp'[d] = <<>> /\ d \in Dirs
  <2>1. DOMAIN temp' = DOMAIN temp \cup {d} /\ temp'[d] = <<>>
    <3>. HIDE DEF d
    <3>. QED BY <1>1 DEF Put
  <2>2. d \in Dirs
    BY DEF TypeInv, Dirs
  <2>. QED BY <2>1, <2>2
<1>3. d \notin Known
  BY <1>1 DEF TypeInv, FreshInv
<1>4. TypeInv'
  BY <1>1, <1>2 DEF TypeInv, Dirs
<1>5. JobDir' = d
  BY <1>1 DEF JobDir
<1>6. FreshInv'
  <2>1. job'.stage # 0 => up' = "up" /\ job'.pid = crashes' /\ job'.id < nextId'
    BY <1>1 DEF TypeInv
  <2>2. ASSUME NEW e \in Known' PROVE e[2] <= crashes' /\ (e[2] = crashes' => up' = "up" /\ e[1] < nextId')
    <3>1. CASE e = d
      BY <1>1, <3>1 DEF TypeInv
    <3>2. CASE e # d
      <4>1. e \in Known
        BY <1>1, <1>2, <3>2 DEF Known
      <4>2. e[1] \in Nat
        BY <4>1 DEF Known, TypeInv, Dirs
      <4>. QED BY <1>1, <4>1, <4>2 DEF FreshInv, TypeInv
    <3>. QED BY <3>1, <3>2
  <2>. QED BY <2>1, <2>2 DEF FreshInv
<1>7. ApartInv'
  BY <1>1, <1>2, <1>3, <1>5 DEF ApartInv, Known
<1>8. ProgressInv'
  <2>1. {f \in FileName : StageOf[f] < job'.stage} = {}
    BY <1>1 DEF FileName, StageOf
  <2>2. DOMAIN temp'[JobDir'] = {}
    BY <1>2, <1>5
  <2>. QED BY <2>1, <2>2 DEF ProgressInv
<1>9. CommitInv'
  BY <1>1 DEF CommitInv, Idle
<1>. QED BY <1>4, <1>6, <1>7, <1>8, <1>9

\* A stage adds its files to the build's directory, and to no other.
LEMMA WriteFileCommits ==
  ASSUME CommitsInv, WriteFile
  PROVE  CommitsInv'
<1>. DEFINE d == JobDir
            w == Written(Stages[job.stage], job.files)
<1>. USE DEF CommitsInv
<1>1. /\ job.stage \in 1 .. 5 /\ d \in DOMAIN temp
      /\ temp' = [temp EXCEPT ![d] = With(@, w)]
      /\ job' = [job EXCEPT !.stage = @ + 1]
      /\ UNCHANGED <<disk, up, nextId, mcp, crashes, truth, torn, raced>>
  BY DEF WriteFile
<1>2. /\ job'.stage = job.stage + 1 /\ job'.id = job.id /\ job'.pid = job.pid
      /\ job'.files = job.files /\ job'.old = job.old
      /\ job' \in [stage : 0 .. 8, id : Nat, pid : Nat, files : {job'.files}, old : {job'.old}]
  BY <1>1 DEF TypeInv
<1>3. DOMAIN temp' = DOMAIN temp /\ temp'[d] = With(temp[d], w) /\ JobDir' = d
  BY <1>1, <1>2 DEF JobDir
<1>4. TypeInv'
  BY <1>1, <1>2, <1>3 DEF TypeInv
<1>5. FreshInv'
  BY <1>1, <1>2, <1>3 DEF FreshInv, Known
<1>6. ApartInv'
  BY <1>1, <1>2, <1>3 DEF ApartInv
<1>7. ProgressInv'
  <2>. SUFFICES ASSUME ~raced PROVE /\ DOMAIN temp'[d] = {f \in FileName : StageOf[f] < job'.stage}
                                    /\ \A f \in DOMAIN temp'[d] : temp'[d][f] = Built(job'.files)[f]
    BY <1>1, <1>3 DEF ProgressInv
  <2>1. /\ DOMAIN temp[d] = {f \in FileName : StageOf[f] < job.stage}
        /\ \A f \in DOMAIN temp[d] : temp[d][f] = Built(job.files)[f]
    BY <1>1 DEF ProgressInv
  <2>2. DOMAIN w = {f \in FileName : StageOf[f] = job.stage}
    BY <1>1, StageWrites
  <2>3. \A f \in DOMAIN w : Built(job.files)[f] = w[f]
    BY <1>1, BuiltFacts
  <2>. HIDE DEF w
  <2>4. \A f \in FileName : StageOf[f] \in Nat
    BY DEF FileName, StageOf
  <2>9. temp'[d] = With(temp[d], w)
    BY <1>3 DEF w
  <2>5. /\ DOMAIN temp'[d] = DOMAIN temp[d] \cup DOMAIN w
        /\ \A f \in DOMAIN w : temp'[d][f] = w[f]
        /\ \A f \in DOMAIN temp[d] \ DOMAIN w : temp'[d][f] = temp[d][f]
    <3>. HIDE DEF d
    <3>. QED BY <2>9 DEF With
  <2>6. \A f \in FileName : (StageOf[f] < job.stage + 1) <=> (StageOf[f] < job.stage \/ StageOf[f] = job.stage)
    BY <1>1, <2>4
  <2>7. DOMAIN temp'[d] = {f \in FileName : StageOf[f] < job'.stage}
    BY <1>2, <2>1, <2>2, <2>5, <2>6
  <2>8. \A f \in DOMAIN temp'[d] : temp'[d][f] = Built(job'.files)[f]
    BY <1>2, <2>1, <2>3, <2>5
  <2>. QED BY <2>7, <2>8
<1>8. CommitInv'
  BY <1>1, <1>2 DEF CommitInv
<1>. QED BY <1>4, <1>5, <1>6, <1>7, <1>8

\* What is renamed is whole.
LEMMA RenameCommits ==
  ASSUME CommitsInv, Rename
  PROVE  CommitsInv'
<1>. DEFINE d == JobDir
<1>. USE DEF CommitsInv
<1>1. /\ job.stage = 6 /\ d \in DOMAIN temp
      /\ temp' = Drop(temp, d) /\ disk' = Put(disk, job.id, temp[d])
      /\ truth' = Put(truth, job.id, job.files)
      /\ job' = [job EXCEPT !.stage = 7]
      /\ UNCHANGED <<up, nextId, mcp, crashes, torn, raced>>
  BY DEF Rename
<1>2. /\ job'.stage = 7 /\ job'.id = job.id /\ job'.pid = job.pid
      /\ job'.files = job.files /\ job'.old = job.old /\ job.id \in Nat
      /\ job' \in [stage : 0 .. 8, id : Nat, pid : Nat, files : {job'.files}, old : {job'.old}]
  BY <1>1 DEF TypeInv
<1>3. /\ DOMAIN temp' = DOMAIN temp \ {d}
      /\ DOMAIN disk' = DOMAIN disk \cup {job.id} /\ disk'[job.id] = temp[d]
      /\ \A id \in DOMAIN disk : id # job.id => disk'[id] = disk[id]
      /\ truth'[job.id] = job.files /\ DOMAIN truth' = DOMAIN truth \cup {job.id}
  <2>1. DOMAIN temp' = DOMAIN temp \ {d}
    BY <1>1 DEF Drop
  <2>2. /\ DOMAIN disk' = DOMAIN disk \cup {job.id} /\ disk'[job.id] = temp[d]
        /\ \A id \in DOMAIN disk : id # job.id => disk'[id] = disk[id]
    <3>. HIDE DEF d
    <3>. QED BY <1>1 DEF Put
  <2>3. truth'[job.id] = job.files /\ DOMAIN truth' = DOMAIN truth \cup {job.id}
    BY <1>1 DEF Put
  <2>. QED BY <2>1, <2>2, <2>3
<1>4. TypeInv'
  <2>1. IsFiniteSet(DOMAIN disk')
    BY <1>3, FS_AddElement DEF TypeInv
  <2>. QED BY <1>1, <1>2, <1>3, <2>1 DEF TypeInv
<1>5. FreshInv'
  BY <1>1, <1>2, <1>3 DEF FreshInv, Known
<1>6. ApartInv'
  BY <1>1, <1>2, <1>3 DEF ApartInv
<1>7. ProgressInv'
  BY <1>2 DEF ProgressInv
<1>8. CommitInv'
  <2>. SUFFICES ASSUME ~raced, ~torn, NEW id \in DOMAIN disk'
                PROVE /\ DOMAIN disk'[id] \subseteq FileName
                      /\ \A f \in DOMAIN disk'[id] \ {"tombstones"} : disk'[id][f] = Built(truth'[id])[f]
                      /\ DOMAIN disk'[id] = FileName
    BY <1>1 DEF CommitInv
  <2>1. CASE id = job.id
    <3>1. \A f \in FileName : StageOf[f] < 6
      BY DEF FileName, StageOf
    <3>2. /\ DOMAIN temp[d] = {f \in FileName : StageOf[f] < job.stage}
          /\ \A f \in DOMAIN temp[d] : temp[d][f] = Built(job.files)[f]
      BY <1>1 DEF ProgressInv
    <3>. QED BY <1>1, <1>3, <2>1, <3>1, <3>2
  <2>2. CASE id # job.id
    <3>1. id \in DOMAIN disk /\ disk'[id] = disk[id]
      BY <1>3, <2>2
    <3>2. /\ DOMAIN disk[id] = FileName
          /\ \A f \in DOMAIN disk[id] \ {"tombstones"} : disk[id][f] = Built(truth[id])[f]
      BY <1>1, <3>1 DEF CommitInv
    <3>3. truth'[id] = truth[id]
      BY <1>1, <2>2, <3>1 DEF TypeInv, Put
    <3>. QED BY <3>1, <3>2, <3>3
  <2>. QED BY <2>1, <2>2
<1>. QED BY <1>4, <1>5, <1>6, <1>7, <1>8

\* A build that ends, well or not, leaves the directories of others alone.
LEMMA BuildFailsCommits ==
  ASSUME CommitsInv, BuildFails
  PROVE  CommitsInv'
<1>. USE DEF CommitsInv
<1>1. /\ job.stage \in 1 .. 6 /\ temp' = Drop(temp, JobDir) /\ job' = Idle
      /\ UNCHANGED <<disk, up, nextId, mcp, crashes, truth, torn, raced>>
  BY DEF BuildFails
<1>2. DOMAIN temp' = DOMAIN temp \ {JobDir}
  BY <1>1 DEF Drop
<1>3. job'.stage = 0
  BY <1>1 DEF Idle
<1>4. TypeInv'
  BY <1>1, <1>2 DEF TypeInv, Idle
<1>5. FreshInv'
  BY <1>1, <1>2, <1>3 DEF FreshInv, Known
<1>6. ApartInv'
  BY <1>1, <1>2, <1>3 DEF ApartInv
<1>7. ProgressInv'
  BY <1>3 DEF ProgressInv
<1>8. CommitInv'
  BY <1>1 DEF CommitInv
<1>. QED BY <1>4, <1>5, <1>6, <1>7, <1>8

\* Publishing a segment changes no directory.
LEMMA OpenBuiltCommits ==
  ASSUME CommitsInv, OpenBuilt
  PROVE  CommitsInv'
<1>. USE DEF CommitsInv
<1>1. /\ job.stage = 7 /\ (job' = Idle \/ job' = [job EXCEPT !.stage = 8])
      /\ UNCHANGED <<temp, disk, up, nextId, mcp, crashes, truth, torn, raced>>
  BY DEF OpenBuilt
<1>2. /\ job'.stage \in {0, 8}
      /\ job'.stage = 8 => job'.pid = job.pid /\ job'.id = job.id
      /\ job' \in [stage : 0 .. 8, id : Nat, pid : Nat, files : {job'.files}, old : {job'.old}]
  BY <1>1 DEF TypeInv, Idle
<1>3. TypeInv'
  BY <1>1, <1>2 DEF TypeInv
<1>4. FreshInv'
  BY <1>1, <1>2 DEF FreshInv, Known
<1>5. ApartInv'
  BY <1>1, <1>2 DEF ApartInv
<1>6. ProgressInv'
  BY <1>2 DEF ProgressInv
<1>7. CommitInv'
  BY <1>1 DEF CommitInv
<1>. QED BY <1>3, <1>4, <1>5, <1>6, <1>7

\* Only old directories lose files, one after the other, and each until it is gone.
LEMMA RemoveOldCommits ==
  ASSUME CommitsInv, RemoveOld
  PROVE  CommitsInv'
<1>. USE DEF CommitsInv
<1>1. /\ job.stage = 8
      /\ UNCHANGED <<temp, up, nextId, mcp, crashes, truth, torn, raced>>
  BY DEF RemoveOld
<1>2. PICK id \in job.old :
        \/ \E f \in NextOf(DOMAIN disk[id]) :
             disk' = [disk EXCEPT ![id] = Drop(@, f)] /\ job' = job
        \/ /\ DOMAIN disk[id] = {} /\ disk' = Drop(disk, id)
           /\ job' = IF job.old = {id} THEN Idle ELSE [job EXCEPT !.old = @ \ {id}]
  BY DEF RemoveOld
<1>3. CASE \E f \in NextOf(DOMAIN disk[id]) :
             disk' = [disk EXCEPT ![id] = Drop(@, f)] /\ job' = job
  <2>1. PICK f : disk' = [disk EXCEPT ![id] = Drop(@, f)] /\ job' = job
    BY <1>3
  <2>2. /\ DOMAIN disk' = DOMAIN disk
        /\ \A x \in DOMAIN disk : x # id => disk'[x] = disk[x]
        /\ id \in DOMAIN disk => disk'[id] = Drop(disk[id], f)
    BY <2>1
  <2>3. TypeInv' /\ FreshInv' /\ ApartInv' /\ ProgressInv'
    BY <1>1, <2>1, <2>2 DEF TypeInv, FreshInv, Known, ApartInv, ProgressInv, JobDir
  <2>4. CommitInv'
    <3>. SUFFICES ASSUME ~raced, ~torn, NEW x \in DOMAIN disk
                  PROVE /\ DOMAIN disk'[x] \subseteq FileName
                        /\ \A g \in DOMAIN disk'[x] \ {"tombstones"} : disk'[x][g] = Built(truth[x])[g]
                        /\ DOMAIN disk'[x] = FileName \/ (job.stage = 8 /\ x \in job.old)
      BY <1>1, <2>1, <2>2 DEF CommitInv
    <3>1. CASE x = id
      <4>1. /\ DOMAIN disk[id] \subseteq FileName
            /\ \A g \in DOMAIN disk[id] \ {"tombstones"} : disk[id][g] = Built(truth[id])[g]
        BY <3>1 DEF CommitInv
      <4>2. /\ DOMAIN disk'[id] = DOMAIN disk[id] \ {f}
            /\ \A g \in DOMAIN disk'[id] : disk'[id][g] = disk[id][g]
        BY <2>2, <3>1 DEF Drop
      <4>. QED BY <1>1, <1>2, <3>1, <4>1, <4>2
    <3>2. CASE x # id
      BY <2>2, <3>2 DEF CommitInv
    <3>. QED BY <3>1, <3>2
  <2>. QED BY <2>3, <2>4
<1>4. CASE /\ DOMAIN disk[id] = {} /\ disk' = Drop(disk, id)
           /\ job' = IF job.old = {id} THEN Idle ELSE [job EXCEPT !.old = @ \ {id}]
  <2>1. /\ DOMAIN disk' = DOMAIN disk \ {id}
        /\ \A x \in DOMAIN disk' : disk'[x] = disk[x]
    BY <1>4 DEF Drop
  <2>2. job'.stage \in {0, 8}
        /\ (job'.stage = 8 => job'.pid = job.pid /\ job'.id = job.id /\ job'.old = job.old \ {id})
        /\ (job'.stage = 0 => job.old = {id})
        /\ job' \in [stage : 0 .. 8, id : Nat, pid : Nat, files : {job'.files}, old : {job'.old}]
    BY <1>1, <1>4 DEF TypeInv, Idle
  <2>3. IsFiniteSet(DOMAIN disk')
    BY <2>1, FS_RemoveElement DEF TypeInv
  <2>4. TypeInv'
    BY <1>1, <2>1, <2>2, <2>3 DEF TypeInv
  <2>5. FreshInv' /\ ApartInv' /\ ProgressInv'
    BY <1>1, <2>2 DEF FreshInv, Known, ApartInv, ProgressInv
  <2>6. CommitInv'
    BY <1>1, <2>1, <2>2 DEF CommitInv
  <2>. QED BY <2>4, <2>5, <2>6
<1>. QED BY <1>2, <1>3, <1>4

\* A tombstone rewrites a file that is there.
LEMMA MarkDeletedCommits ==
  ASSUME CommitsInv, MarkDeleted
  PROVE  CommitsInv'
<1>. USE DEF CommitsInv
<1>1. /\ job = Idle
      /\ UNCHANGED <<temp, job, up, nextId, mcp, crashes, truth, torn, raced>>
  BY DEF MarkDeleted
<1>2. PICK id, file : disk' = [disk EXCEPT ![id] = Put(@, "tombstones", file)]
  BY DEF MarkDeleted
<1>3. /\ DOMAIN disk' = DOMAIN disk
      /\ \A x \in DOMAIN disk : x # id => disk'[x] = disk[x]
      /\ id \in DOMAIN disk => disk'[id] = Put(disk[id], "tombstones", file)
  BY <1>2
<1>4. TypeInv' /\ FreshInv' /\ ApartInv' /\ ProgressInv'
  BY <1>1, <1>3 DEF TypeInv, FreshInv, Known, ApartInv, ProgressInv, JobDir
<1>5. CommitInv'
  <2>. SUFFICES ASSUME ~raced, ~torn, NEW x \in DOMAIN disk
                PROVE /\ DOMAIN disk'[x] = FileName
                      /\ \A g \in FileName \ {"tombstones"} : disk'[x][g] = Built(truth[x])[g]
    BY <1>1, <1>3 DEF CommitInv
  <2>1. /\ DOMAIN disk[x] = FileName
        /\ \A g \in FileName \ {"tombstones"} : disk[x][g] = Built(truth[x])[g]
    BY <1>1 DEF CommitInv, Idle
  <2>2. CASE x = id
    <3>1. /\ DOMAIN disk'[x] = FileName \cup {"tombstones"}
          /\ \A g \in FileName \ {"tombstones"} : disk'[x][g] = disk[x][g]
      BY <1>3, <2>1, <2>2 DEF Put, FileName
    <3>. QED BY <2>1, <3>1 DEF FileName
  <2>3. CASE x # id
    BY <1>3, <2>1, <2>3
  <2>. QED BY <2>2, <2>3
<1>. QED BY <1>4, <1>5

\* A restart takes its ids from the directories; those of before carry an older process.
LEMMA OpenManagerCommits ==
  ASSUME CommitsInv, OpenManager
  PROVE  CommitsInv'
<1>. USE DEF CommitsInv
<1>1. /\ up = "down" /\ nextId' \in {nextId, FirstFree(DOMAIN disk)}
      /\ UNCHANGED <<temp, disk, job, mcp, crashes, truth, torn, raced>>
  BY DEF OpenManager
<1>2. nextId' \in Nat
  BY <1>1, FirstFreeIsNumber DEF TypeInv
<1>3. job.stage = 0 /\ \A d \in Known : d[2] <= crashes /\ d[2] # crashes
  BY <1>1 DEF FreshInv
<1>4. TypeInv'
  BY <1>1, <1>2 DEF TypeInv
<1>5. FreshInv'
  BY <1>1, <1>3 DEF FreshInv, Known
<1>6. ApartInv' /\ ProgressInv' /\ CommitInv'
  BY <1>1 DEF ApartInv, ProgressInv, CommitInv, JobDir
<1>. QED BY <1>4, <1>5, <1>6

\* What a recovery lists holds no build in progress, or it has met one.
LEMMA StartRecoveryCommits ==
  ASSUME CommitsInv, StartRecovery
  PROVE  CommitsInv'
<1>. USE DEF CommitsInv
<1>1. /\ mcp' = [NoRecovery EXCEPT !.at = "removing", !.dirs = DOMAIN temp]
      /\ raced' = (raced \/ (job.stage \in 1 .. 6 /\ JobDir \in DOMAIN temp))
      /\ UNCHANGED <<temp, disk, job, up, nextId, crashes, truth, torn>>
  BY DEF StartRecovery
<1>2. mcp' = [at |-> "removing", dirs |-> DOMAIN temp, holding |-> {}, seen |-> {}]
  BY <1>1 DEF NoRecovery
<1>3. /\ mcp'.dirs = DOMAIN temp /\ mcp'.holding = {}
      /\ mcp' \in [at : {"idle", "removing"}, dirs : SUBSET Dirs, holding : SUBSET Dirs, seen : {mcp'.seen}]
  BY <1>2 DEF TypeInv
<1>4. TypeInv'
  BY <1>1, <1>3 DEF TypeInv
<1>5. FreshInv'
  BY <1>1, <1>3 DEF FreshInv, Known
<1>6. ApartInv'
  <2>. SUFFICES ASSUME ~raced' PROVE job.stage \in 1 .. 6 => JobDir \notin DOMAIN temp
    BY <1>1, <1>3 DEF ApartInv, JobDir
  <2>. QED BY <1>1
<1>7. ProgressInv' /\ CommitInv'
  BY <1>1 DEF ProgressInv, CommitInv, JobDir
<1>. QED BY <1>4, <1>5, <1>6, <1>7

\* It opens what it listed.
LEMMA OpenTempCommits ==
  ASSUME CommitsInv, OpenTemp
  PROVE  CommitsInv'
<1>. USE DEF CommitsInv
<1>1. /\ mcp.holding = {}
      /\ UNCHANGED <<temp, disk, job, up, nextId, crashes, truth, torn, raced>>
  BY DEF OpenTemp
<1>2. PICK d \in mcp.dirs :
        mcp' = IF d \in DOMAIN temp
               THEN [mcp EXCEPT !.dirs = @ \ {d}, !.holding = {d}, !.seen = DOMAIN temp[d]]
               ELSE [mcp EXCEPT !.dirs = @ \ {d}]
  BY DEF OpenTemp
<1>3. /\ mcp'.dirs = mcp.dirs \ {d}
      /\ mcp'.holding = IF d \in DOMAIN temp THEN {d} ELSE {}
      /\ mcp' \in [at : {"idle", "removing"}, dirs : SUBSET Dirs, holding : SUBSET Dirs, seen : {mcp'.seen}]
  BY <1>1, <1>2 DEF TypeInv
<1>4. TypeInv'
  BY <1>1, <1>3 DEF TypeInv
<1>5. FreshInv'
  BY <1>1, <1>2, <1>3 DEF FreshInv, Known
<1>6. ApartInv'
  BY <1>1, <1>2, <1>3 DEF ApartInv, JobDir
<1>7. ProgressInv' /\ CommitInv'
  BY <1>1 DEF ProgressInv, CommitInv, JobDir
<1>. QED BY <1>4, <1>5, <1>6, <1>7

\* It empties a directory that is still under its temporary name and not the build's.
LEMMA UnlinkTempCommits ==
  ASSUME CommitsInv, UnlinkTemp
  PROVE  CommitsInv'
<1>. USE DEF CommitsInv
<1>1. UNCHANGED <<job, up, nextId, mcp, crashes, truth, torn, raced>>
  BY DEF UnlinkTemp
<1>2. PICK d \in mcp.holding :
        \/ /\ d \in DOMAIN temp
           /\ \E f \in NextOf(DOMAIN temp[d]) : temp' = [temp EXCEPT ![d] = Drop(@, f)]
           /\ disk' = disk
        \/ /\ d \notin DOMAIN temp
           /\ \E f \in NextOf(DOMAIN disk[d[1]] \cap mcp.seen) : disk' = [disk EXCEPT ![d[1]] = Drop(@, f)]
           /\ temp' = temp
  BY DEF UnlinkTemp
<1>3. CASE /\ d \in DOMAIN temp
           /\ \E f \in NextOf(DOMAIN temp[d]) : temp' = [temp EXCEPT ![d] = Drop(@, f)]
           /\ disk' = disk
  <2>1. DOMAIN temp' = DOMAIN temp /\ \A x \in DOMAIN temp : x # d => temp'[x] = temp[x]
    BY <1>3
  <2>2. TypeInv' /\ FreshInv' /\ ApartInv' /\ CommitInv'
    BY <1>1, <1>3, <2>1 DEF TypeInv, FreshInv, Known, ApartInv, CommitInv, JobDir
  <2>3. ProgressInv'
    <3>. SUFFICES ASSUME ~raced, job.stage \in 1 .. 6, JobDir \in DOMAIN temp
                  PROVE  temp'[JobDir] = temp[JobDir]
      BY <1>1, <2>1 DEF ProgressInv, JobDir
    <3>. QED BY <1>2, <2>1 DEF ApartInv
  <2>. QED BY <2>2, <2>3
<1>4. CASE /\ d \notin DOMAIN temp
           /\ \E f \in NextOf(DOMAIN disk[d[1]] \cap mcp.seen) : disk' = [disk EXCEPT ![d[1]] = Drop(@, f)]
           /\ temp' = temp
  <2>1. raced
    BY <1>2, <1>4 DEF ApartInv
  <2>2. DOMAIN disk' = DOMAIN disk
    BY <1>4
  <2>. QED BY <1>1, <1>4, <2>1, <2>2 DEF TypeInv, FreshInv, Known, ApartInv, ProgressInv, CommitInv, JobDir
<1>. QED BY <1>2, <1>3, <1>4

\* It removes the emptied directory.
LEMMA CloseTempCommits ==
  ASSUME CommitsInv, CloseTemp
  PROVE  CommitsInv'
<1>. USE DEF CommitsInv
<1>1. /\ mcp' = [mcp EXCEPT !.holding = {}, !.seen = {}]
      /\ UNCHANGED <<disk, job, up, nextId, crashes, truth, torn, raced>>
  BY DEF CloseTemp
<1>2. PICK d \in mcp.holding :
        temp' = IF d \in DOMAIN temp /\ DOMAIN temp[d] = {} THEN Drop(temp, d) ELSE temp
  BY DEF CloseTemp
<1>3. DOMAIN temp' \subseteq DOMAIN temp
      /\ \A x \in DOMAIN temp : x # d => x \in DOMAIN temp' /\ temp'[x] = temp[x]
  BY <1>2 DEF Drop
<1>4. /\ mcp'.dirs = mcp.dirs /\ mcp'.holding = {}
      /\ mcp' \in [at : {"idle", "removing"}, dirs : SUBSET Dirs, holding : SUBSET Dirs, seen : {mcp'.seen}]
  BY <1>1 DEF TypeInv
<1>5. TypeInv' /\ FreshInv' /\ ApartInv' /\ CommitInv'
  BY <1>1, <1>3, <1>4 DEF TypeInv, FreshInv, Known, ApartInv, CommitInv, JobDir
<1>6. ProgressInv'
  <2>. SUFFICES ASSUME ~raced, job.stage \in 1 .. 6, JobDir \in DOMAIN temp'
                PROVE  JobDir \in DOMAIN temp /\ temp'[JobDir] = temp[JobDir]
    BY <1>1 DEF ProgressInv, JobDir
  <2>. QED BY <1>2, <1>3 DEF ApartInv
<1>. QED BY <1>5, <1>6

\* Opening what is valid changes no directory.
LEMMA OpenRecoveredCommits ==
  ASSUME CommitsInv, OpenRecovered
  PROVE  CommitsInv'
<1>1. mcp' = NoRecovery /\ UNCHANGED <<temp, disk, job, up, nextId, crashes, truth, torn, raced>>
  BY DEF OpenRecovered
<1>. QED
  BY <1>1 DEF CommitsInv, TypeInv, FreshInv, Known, ApartInv, ProgressInv, CommitInv, JobDir, NoRecovery

\* A killed process takes its build with it; its directory belongs to a process of the past.
LEMMA KillCommits ==
  ASSUME CommitsInv, Kill
  PROVE  CommitsInv'
<1>. USE DEF CommitsInv
<1>1. /\ crashes' = crashes + 1 /\ job' = Idle
      /\ torn' = (torn \/ \E id \in DOMAIN disk : DOMAIN disk[id] # FileName)
      /\ UNCHANGED <<temp, disk, nextId, mcp, truth, raced>>
  BY DEF Kill
<1>2. job'.stage = 0
  BY <1>1 DEF Idle
<1>3. TypeInv'
  BY <1>1 DEF TypeInv, Idle
<1>4. FreshInv'
  <2>1. ASSUME NEW d \in Known PROVE d[2] <= crashes + 1 /\ d[2] # crashes + 1
    <3>1. d[2] \in Nat /\ d[2] <= crashes
      BY DEF FreshInv, TypeInv, Known, Dirs
    <3>. QED BY <3>1 DEF TypeInv
  <2>. QED BY <1>1, <1>2, <2>1 DEF FreshInv, Known
<1>5. ApartInv' /\ ProgressInv'
  BY <1>1, <1>2 DEF ApartInv, ProgressInv
<1>6. CommitInv'
  BY <1>1 DEF CommitInv
<1>. QED BY <1>3, <1>4, <1>5, <1>6

\* So does a power loss, which may take any directory with it.
LEMMA PowerLossCommits ==
  ASSUME CommitsInv, PowerLoss
  PROVE  CommitsInv'
<1>. USE DEF CommitsInv
<1>1. /\ crashes' = crashes + 1 /\ job' = Idle /\ torn' = TRUE /\ mcp' = NoRecovery
      /\ DOMAIN disk' = DOMAIN disk
      /\ UNCHANGED <<temp, nextId, truth, raced>>
  BY DEF PowerLoss
<1>2. job'.stage = 0
  BY <1>1 DEF Idle
<1>3. TypeInv'
  BY <1>1 DEF TypeInv, Idle, NoRecovery
<1>4. FreshInv'
  <2>1. ASSUME NEW d \in Known PROVE d[2] <= crashes + 1 /\ d[2] # crashes + 1
    <3>1. d[2] \in Nat /\ d[2] <= crashes
      BY DEF FreshInv, TypeInv, Known, Dirs
    <3>. QED BY <3>1 DEF TypeInv
  <2>2. Known' \subseteq Known
    BY <1>1 DEF Known, NoRecovery
  <2>. QED BY <1>1, <1>2, <2>1, <2>2 DEF FreshInv
<1>5. ApartInv' /\ ProgressInv' /\ CommitInv'
  BY <1>1, <1>2 DEF ApartInv, ProgressInv, CommitInv, NoRecovery
<1>. QED BY <1>3, <1>4, <1>5

\* Every step keeps the invariant.
LEMMA NextCommits == CommitsInv /\ [Next]_vars => CommitsInv'
<1>. SUFFICES ASSUME CommitsInv, [Next]_vars PROVE CommitsInv'
  OBVIOUS
<1>1. CASE StartBuild
  BY <1>1, StartJobCommits DEF StartBuild
<1>2. CASE StartCompact
  BY <1>2, StartJobCommits DEF StartCompact
<1>3. CASE UNCHANGED vars
  BY <1>3 DEF vars, CommitsInv, TypeInv, FreshInv, Known, ApartInv, ProgressInv, CommitInv, JobDir
<1>4. CASE WriteFile \/ Rename \/ BuildFails \/ OpenBuilt \/ RemoveOld
  BY <1>4, WriteFileCommits, RenameCommits, BuildFailsCommits, OpenBuiltCommits, RemoveOldCommits
<1>5. CASE MarkDeleted \/ OpenManager \/ StartRecovery \/ OpenTemp \/ UnlinkTemp
  BY <1>5, MarkDeletedCommits, OpenManagerCommits, StartRecoveryCommits, OpenTempCommits, UnlinkTempCommits
<1>6. CASE CloseTemp \/ OpenRecovered \/ Kill \/ PowerLoss
  BY <1>6, CloseTempCommits, OpenRecoveredCommits, KillCommits, PowerLossCommits
<1>. QED BY <1>1, <1>2, <1>3, <1>4, <1>5, <1>6 DEF Next

\* Every file of a segment but its tombstones is, byte for byte, what was built of its files.
CommittedAsBuilt ==
  ~raced /\ ~torn =>
    \A id \in DOMAIN disk \ BeingRemoved :
      /\ DOMAIN disk[id] = FileName
      /\ \A f \in FileName \ {"tombstones"} : disk[id][f] = Built(truth[id])[f]

\* The invariant says it of every directory that is not being removed.
LEMMA CommitsMeanBuilt == CommitsInv => CommittedAsBuilt
BY DEF CommitsInv, CommitInv, CommittedAsBuilt, BeingRemoved

\* The first stage writes the contents.
LEMMA BuiltContents ==
  ASSUME NEW files
  PROVE  Built(files).content = Contents(files)
<1>1. Stages[1] = "content" /\ 1 \in 1 .. 5
  BY DEF Stages
<1>2. "content" \in DOMAIN Written(Stages[1], files) /\ Written(Stages[1], files).content = Contents(files)
  BY <1>1 DEF Written
<1>. QED BY <1>1, <1>2, BuiltFacts

\* So its contents are those of the segment's files.
LEMMA BuiltMeansStay == CommittedAsBuilt => CommittedStay
<1>. SUFFICES ASSUME CommittedAsBuilt, ~raced, ~torn, NEW id \in DOMAIN disk \ BeingRemoved
              PROVE  DOMAIN disk[id] = FileName /\ disk[id].content = Contents(truth[id])
  BY DEF CommittedStay
<1>1. /\ DOMAIN disk[id] = FileName
      /\ \A f \in FileName \ {"tombstones"} : disk[id][f] = Built(truth[id])[f]
  BY DEF CommittedAsBuilt
<1>2. "content" \in FileName \ {"tombstones"}
  BY DEF FileName
<1>. QED BY <1>1, <1>2, BuiltContents

\* However builds, compactions, removals, kills, power losses and recoveries follow each other: a
\* segment under its name is, byte for byte, the whole of what was built of its files
\* (segment.rs build_inner, segment_manager.rs compact, recovery.rs recover_segments), until a
\* build meets a recovery or a removal is killed.
THEOREM CommitsAreAsBuilt == Spec => []CommittedAsBuilt
<1>. QED BY InitCommits, NextCommits, CommitsMeanBuilt, PTL DEF Spec

\* So no step leaves a part of a segment behind under its name (segment.rs build_inner,
\* recovery.rs recover_segments).
THEOREM CommitsAreWhole == Spec => []CommittedStay
<1>. QED BY CommitsAreAsBuilt, BuiltMeansStay, PTL

=============================================================================
