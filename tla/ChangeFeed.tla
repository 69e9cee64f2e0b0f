----------------------------- MODULE ChangeFeed -----------------------------
(***************************************************************************)
(* How the daemon learns what changed.  On start it catches up: git diff   *)
(* from the commit in checkpoint.json, or a comparison of hashes, decides  *)
(* which files to index again.  Then it goes live: a file watcher and a    *)
(* periodic git diff feed batches of change events to the indexing thread, *)
(* which applies them and writes the checkpoint.  A Reindex request runs a *)
(* second catch-up beside the live thread.  Meanwhile users edit, stage,   *)
(* commit and switch branches, and the daemon may be killed.               *)
(*                                                                         *)
(* The index is what SegmentIndex makes of it: per path, the list of its   *)
(* live entries, oldest first.  A commit is the tree it records, so a diff *)
(* of two commits is a comparison of two trees.                            *)
(***************************************************************************)
EXTENDS Naturals, Sequences, FiniteSets

CONSTANTS
    Path,             \* paths of the repository that are neither ignored nor binary
    Content,          \* file contents
    Own,              \* stands for the daemon's own files under .ferret_index/
    IndexDirIgnored,  \* does the root .gitignore name .ferret_index/?
    MaySkipCatchUp,   \* is the daemon also started with --skip-catchup?
    MayAct,           \* MayAct[ph]: what users may do while the daemon is in phase ph
    MaxEdits,         \* bound on user actions
    MaxFaults,        \* bound on I/O errors, failing git commands and missed events
    MaxCrashes,       \* bound on daemon deaths
    MaxReindexes,     \* bound on Reindex requests
    MaxQueue          \* bound on the batches waiting when a git poll starts

Phase == {"down", "starting", "live", "deaf"}

UserAct == {"write", "stage", "commit", "checkout"}

ASSUME FeedAssumption ==
    /\ IsFiniteSet(Path)
    /\ Own \notin Path
    /\ IndexDirIgnored \in BOOLEAN
    /\ MaySkipCatchUp \in BOOLEAN
    /\ MayAct \in [Phase -> SUBSET UserAct]
    /\ MaxEdits \in Nat
    /\ MaxFaults \in Nat
    /\ MaxCrashes \in Nat
    /\ MaxReindexes \in Nat
    /\ MaxQueue \in Nat \ {0}

\* A file is a set of at most one content: {} says "no such file".
Option == {{}} \cup {{c} : c \in Content}

Tree == [Path -> Option]

ChangeKind == {"Created", "Modified", "Deleted", "Renamed"}

Command == {"committed", "unstaged", "untracked"}

NoEvents == [p \in {} |-> "Deleted"]

VARIABLES
    (* The repository. *)
    work,       \* the working tree
    stage,      \* git's index
    head,       \* the tree of the HEAD commit
    (* The index on disk. *)
    live,       \* live[p]: the contents of p's live entries, oldest first
    cp,         \* the commit in checkpoint.json: a set of at most one tree
    (* The daemon. *)
    phase,      \* "down", "starting" (before the watcher runs), "live", or "deaf": serving,
                \* but the watcher could not be started, or the live thread has ended
    cpc,        \* the catch-up: "idle", "git", "hash", "apply", "stamp", and at start its
                \* outcome: "done", "failed" or "skipped"
    found,      \* found[cmd]: what its git command cmd printed, {} while it runs
    base,       \* the commit its git diff starts from
    plan,       \* the changes it is going to apply
    dpc,        \* the detector thread: "off", "scan" or "loop"
    seen,       \* seen[cmd]: the same for its scan
    win,        \* events in the debouncer
    wrx,        \* the watcher's channel: debounced batches
    tx,         \* the detector's channel: deduplicated batches
    lpc,        \* the live thread: "recv" or "stamp"
    (* Environment and history. *)
    lost,       \* paths whose last change nobody will report, or whose report was dropped
    steady,     \* paths a catch-up can be asked about: see Steady
    edits, faults, crashes, reindexes

repo     == <<work, stage, head>>
disk     == <<live, cp>>
catchup  == <<cpc, found, base, plan>>
detector == <<dpc, seen, win, wrx, tx>>
counters == <<edits, faults, crashes, reindexes>>
history  == <<lost, steady>>
vars == <<repo, disk, phase, catchup, detector, lpc, history, counters>>

-----------------------------------------------------------------------------
(* The index *)

Latest(p) == IF live[p] = <<>> THEN {} ELSE {live[p][Len(live[p])]}

NeedsTombstone(kind) == kind \in {"Modified", "Deleted", "Renamed"}

NeedsNewEntry(kind) == kind \in {"Created", "Modified", "Renamed"}

The(option) == CHOOSE x \in option : TRUE

\* The file, as it is now, gets a new entry; one that cannot be read gets none.
WithNew(p, old) == IF work[p] = {} THEN old ELSE Append(old, The(work[p]))

\* apply_changes on one path: the file is read when the batch is applied, not when it was
\* reported, and skipped if it is indexed as it is.
AppliedTo(p, kind) ==
    LET kept == IF NeedsTombstone(kind) THEN <<>> ELSE live[p]
    IN  IF NeedsNewEntry(kind) /\ (NeedsTombstone(kind) \/ Latest(p) # work[p])
        THEN WithNew(p, kept)
        ELSE kept

Applied(batch) ==
    [p \in Path |-> IF p \in DOMAIN batch THEN AppliedTo(p, batch[p]) ELSE live[p]]

\* What a restart finds when the process dies inside apply_changes: per path the old
\* entries, the old and the new one (built, not yet tombstoned), or the final state.
Torn(batch) ==
    LET outcomes(p) ==
            {live[p], Applied(batch)[p]}
              \cup (IF p \in DOMAIN batch /\ NeedsNewEntry(batch[p]) THEN {WithNew(p, live[p])}
                                                                      ELSE {})
    IN  {l \in [Path -> UNION {outcomes(p) : p \in Path}] : \A p \in Path : l[p] \in outcomes(p)}

-----------------------------------------------------------------------------
(* What the git commands and the hash comparison report *)

Kind(old, new) ==
    IF old = {} THEN "Created" ELSE IF new = {} THEN "Deleted" ELSE "Modified"

Diff(old, new, P) == [p \in {q \in P : old[q] # new[q]} |-> Kind(old[p], new[p])]

\* git diff --name-status base HEAD; git diff --name-status; git ls-files --others.
GitOutput(cmd, from) ==
    CASE cmd = "committed" -> IF from = {} THEN NoEvents
                              ELSE Diff(The(from), head, Path)
      [] cmd = "unstaged"  -> Diff(stage, work, {p \in Path : stage[p] # {}})
      [] cmd = "untracked" -> Diff(stage, work, {p \in Path : stage[p] = {}})

Override(f, g) == [p \in DOMAIN f \cup DOMAIN g |-> IF p \in DOMAIN g THEN g[p] ELSE f[p]]

\* detect_changes: committed < unstaged < untracked, the later source wins.
Merged(outputs) ==
    Override(Override(The(outputs["committed"]), The(outputs["unstaged"])),
             The(outputs["untracked"]))

AllRan(outputs) == \A cmd \in Command : outputs[cmd] # {}

NoneRan == [cmd \in Command |-> {}]

\* git status --porcelain prints nothing.
WorkingTreeClean == work = stage /\ stage = head

\* hash_diff compares the tree with the newest live entry of each path.
HashDiff == Diff([p \in Path |-> Latest(p)], work, Path)

\* A map that is only filled where it is empty: the first event wins.
DedupFirst(events) ==
    [p \in {events[i].path : i \in DOMAIN events} |->
        events[CHOOSE i \in DOMAIN events :
                 /\ events[i].path = p
                 /\ \A j \in DOMAIN events : events[j].path = p => i <= j].kind]

\* dedup_events: the last event of a path wins.
Dedup(events) ==
    [p \in {events[i].path : i \in DOMAIN events} |->
        events[CHOOSE i \in DOMAIN events :
                 /\ events[i].path = p
                 /\ \A j \in DOMAIN events : events[j].path = p => j <= i].kind]

-----------------------------------------------------------------------------
(* Users *)

\* What the watcher is told of a change of one file.  A file may be written in place, moved in
\* over an old one, or removed and written again; it may be removed or moved away.
Notices(p, old, new) ==
    LET one(kinds) == {<<[path |-> p, kind |-> k]>> : k \in kinds}
    IN  CASE old = {}  -> one({"Created", "Renamed"})
          [] new = {}  -> one({"Deleted", "Renamed"})
          [] OTHER     -> one({"Created", "Modified", "Renamed"})
                            \cup {<<[path |-> p, kind |-> "Deleted"],
                                    [path |-> p, kind |-> "Created"]>>}

Act(what) ==
    /\ what \in MayAct[phase]
    /\ edits < MaxEdits
    /\ edits' = edits + 1
    /\ UNCHANGED <<disk, phase, catchup, dpc, seen, wrx, tx, lpc, faults, crashes, reindexes>>

\* The watcher, once it runs, hears of the changes; a path it hears of is not lost.
Notify(events, changed) ==
    /\ steady' = steady \ changed
    /\ IF phase = "live" THEN win' = win \o events /\ lost' = lost \ changed
                         ELSE UNCHANGED <<win, lost>>

\* What git does to its own files is no event: the watcher drops paths under .git.
NotifyNothing(changed) ==
    /\ steady' = steady \ changed
    /\ UNCHANGED <<win, lost>>

WriteFile(p, new) ==
    /\ Act("write")
    /\ work[p] # new
    /\ work' = [work EXCEPT ![p] = new]
    /\ \E events \in Notices(p, work[p], new) : Notify(events, {p})
    /\ UNCHANGED <<stage, head>>

GitAdd(p) ==
    /\ Act("stage")
    /\ stage[p] # work[p]
    /\ stage' = [stage EXCEPT ![p] = work[p]]
    /\ NotifyNothing({p})
    /\ UNCHANGED <<work, head>>

GitCommit ==
    /\ Act("commit")
    /\ head # stage
    /\ head' = stage
    /\ NotifyNothing({p \in Path : head[p] # stage[p]})
    /\ UNCHANGED <<work, stage>>

\* Switching a clean tree to another commit rewrites the files that differ, in some order.
GitCheckout(new) ==
    LET changed == {p \in Path : head[p] # new[p]}
    IN  /\ Act("checkout")
        /\ WorkingTreeClean
        /\ changed # {}
        /\ work' = new /\ stage' = new /\ head' = new
        /\ \E order \in {q \in [1 .. Cardinality(changed) -> changed] :
                           \A p \in changed : \E i \in DOMAIN q : q[i] = p} :
             Notify([i \in DOMAIN order |->
                       [path |-> order[i], kind |-> Kind(work[order[i]], new[order[i]])]],
                    changed)

-----------------------------------------------------------------------------
(* Catch-up: at start, and for a Reindex request *)

CountFault ==
    /\ faults < MaxFaults
    /\ faults' = faults + 1
    /\ UNCHANGED <<edits, crashes, reindexes>>

\* Git can only compare with the checkpoint's commit: the paths whose indexed version is that
\* commit's, and that have no staged change waiting for a commit, are those it can answer for.
\* Hashes are compared with the index itself.
Steady ==
    IF cp = {} THEN Path
    ELSE {p \in Path : /\ Latest(p) = The(cp)[p]
                       /\ stage[p] = head[p] \/ stage[p] # work[p]}

\* A fast path that trusts the commit alone.
NothingCommitted == cp = {head}

\* try_git_catchup's fast path: the checkpoint's commit is HEAD and the tree is clean.
NothingChanged == cp = {head} /\ WorkingTreeClean

\* run_catchup: read the checkpoint; without a commit hashes are compared.
BeginCatchUp ==
    /\ found' = NoneRan
    /\ base' = cp
    /\ plan' = NoEvents
    /\ steady' = Steady
    /\ cpc' = IF cp = {} THEN "hash" ELSE IF NothingChanged THEN "stamp" ELSE "git"

StartDaemon ==
    /\ phase = "down"
    /\ phase' = "starting"
    /\ BeginCatchUp
    /\ UNCHANGED <<repo, disk, detector, lpc, lost, counters>>

\* start_daemon with --skip-catchup.
StartWithoutCatchUp ==
    /\ MaySkipCatchUp
    /\ phase = "down"
    /\ phase' = "starting"
    /\ cpc' = "skipped"
    /\ UNCHANGED <<repo, disk, found, base, plan, detector, lpc, history, counters>>

Reindex ==
    /\ phase \in {"live", "deaf"}
    /\ cpc = "idle"
    /\ reindexes < MaxReindexes
    /\ reindexes' = reindexes + 1
    /\ BeginCatchUp
    /\ UNCHANGED <<repo, disk, phase, detector, lpc, lost, edits, faults, crashes>>

\* The three git commands run in parallel, each looks at the repository at its own time.
RunGit(cmd) ==
    /\ cpc = "git"
    /\ found[cmd] = {}
    /\ found' = [found EXCEPT ![cmd] = {GitOutput(cmd, base)}]
    /\ UNCHANGED <<repo, disk, phase, cpc, base, plan, detector, lpc, history, counters>>

\* A failing git command makes the catch-up fall back to hashes.
FailGit ==
    /\ cpc = "git"
    /\ CountFault
    /\ cpc' = "hash"
    /\ UNCHANGED <<repo, disk, phase, found, base, plan, detector, lpc, history>>

Decide(changes) ==
    /\ plan' = changes
    /\ cpc' = IF changes = NoEvents THEN "stamp" ELSE "apply"
    /\ UNCHANGED <<repo, disk, phase, found, base, detector, lpc, history, counters>>

DetectByGit == cpc = "git" /\ AllRan(found) /\ Decide(Merged(found))

DetectByHash == cpc = "hash" /\ Decide(HashDiff)

\* Own files are written below the watched directory.
OwnFilesWritten ==
    win' = IF phase = "live" /\ ~IndexDirIgnored
           THEN Append(win, [path |-> Own, kind |-> "Modified"])
           ELSE win

\* A report that the file is gone, applied to a file that is there again, loses it.
Revived(batch) == {p \in DOMAIN batch \cap Path : batch[p] = "Deleted" /\ work[p] # {}}

ApplyCatchUp ==
    /\ cpc = "apply"
    /\ live' = Applied(plan)
    /\ lost' = IF phase = "live" THEN lost \cup Revived(plan) ELSE lost
    /\ cpc' = "stamp"
    /\ OwnFilesWritten
    /\ UNCHANGED <<repo, cp, phase, found, base, plan, dpc, seen, wrx, tx, lpc, steady, counters>>

EndCatchUp(outcome) == cpc' = IF phase = "starting" THEN outcome ELSE "idle"

\* The checkpoint records the commit that is HEAD now, or none when git cannot tell.
RecordHead ==
    \/ cp' = {head} /\ UNCHANGED counters
    \/ cp' = {}     /\ CountFault

WriteCheckpoint == RecordHead /\ OwnFilesWritten

StampCatchUp ==
    /\ cpc = "stamp"
    /\ WriteCheckpoint
    /\ EndCatchUp("done")
    /\ UNCHANGED <<repo, live, phase, found, base, plan, dpc, seen, wrx, tx, lpc, history>>

\* The entries tombstoned so far stay so when apply_changes returns an error.
PartlyTombstoned(batch) ==
    {[p \in Path |-> IF p \in gone THEN <<>> ELSE live[p]] :
        gone \in SUBSET {p \in DOMAIN batch \cap Path : NeedsTombstone(batch[p])}}

\* Reading the checkpoint, comparing hashes, applying, compacting or writing fails: no checkpoint is written, and the
\* daemon goes on all the same.
FailCatchUp ==
    /\ \/ cpc = "apply" /\ live' \in PartlyTombstoned(plan)
       \/ cpc \in {"git", "hash", "stamp"} /\ UNCHANGED live
    /\ CountFault
    /\ lost' = IF phase = "live" THEN lost \cup (DOMAIN plan \cap Path) ELSE lost
    /\ EndCatchUp("failed")
    /\ UNCHANGED <<repo, cp, phase, found, base, plan, detector, lpc, steady>>

-----------------------------------------------------------------------------
(* Going live: watcher, detector thread and live thread *)

\* run_live_indexing: the watcher hears of every later change, the detector starts with a
\* git diff that has no commit to start from.
NoBase == [NoneRan EXCEPT !["committed"] = {NoEvents}]

GoLive ==
    /\ phase = "starting"
    /\ cpc \in {"done", "failed", "skipped"}
    /\ phase' = "live"
    /\ cpc' = "idle"
    /\ dpc' = "scan"
    /\ seen' = NoBase
    /\ lpc' = "recv"
    /\ lost' = {p \in Path : Latest(p) # work[p]}
    /\ UNCHANGED <<repo, disk, found, base, plan, win, wrx, tx, steady, counters>>

\* The watcher cannot be started: the daemon serves on, and nobody looks for changes.
FailGoLive ==
    /\ phase = "starting"
    /\ cpc \in {"done", "failed", "skipped"}
    /\ CountFault
    /\ phase' = "deaf"
    /\ cpc' = "idle"
    /\ UNCHANGED <<repo, disk, found, base, plan, detector, lpc, history>>

\* The debouncer hands over the events that have been quiet long enough.
Debounce(n) ==
    /\ phase = "live"
    /\ wrx' = Append(wrx, SubSeq(win, 1, n))
    /\ win' = SubSeq(win, n + 1, Len(win))
    /\ UNCHANGED <<repo, disk, phase, catchup, dpc, seen, tx, lpc, history, counters>>

\* The watcher misses an event, or reports an error that is only logged.
MissEvent ==
    /\ win # <<>>
    /\ CountFault
    /\ win' = Tail(win)
    /\ lost' = lost \cup ({Head(win).path} \cap Path)
    /\ UNCHANGED <<repo, disk, phase, catchup, dpc, seen, wrx, tx, lpc, steady>>

\* One command of the detector's git diff.
ScanGit(cmd) ==
    /\ dpc = "scan"
    /\ seen[cmd] = {}
    /\ seen' = [seen EXCEPT ![cmd] = {GitOutput(cmd, {})}]
    /\ UNCHANGED <<repo, disk, phase, catchup, dpc, win, wrx, tx, lpc, history, counters>>

SendScan ==
    /\ dpc = "scan"
    /\ AllRan(seen)
    /\ tx' = IF Merged(seen) = NoEvents THEN tx ELSE Append(tx, Merged(seen))
    /\ dpc' = "loop"
    /\ seen' = NoBase
    /\ UNCHANGED <<repo, disk, phase, catchup, win, wrx, lpc, history, counters>>

FailScan ==
    /\ dpc = "scan"
    /\ CountFault
    /\ dpc' = "loop"
    /\ seen' = NoBase
    /\ UNCHANGED <<repo, disk, phase, catchup, win, wrx, tx, lpc, history>>

\* Forwarding does not wait for a scan under way.
ForwardAnytime ==
    /\ dpc # "off"
    /\ wrx # <<>>
    /\ tx' = Append(tx, Dedup(Head(wrx)))
    /\ wrx' = Tail(wrx)
    /\ UNCHANGED <<repo, disk, phase, catchup, dpc, seen, win, lpc, history, counters>>

\* The detector forwards every waiting batch of the watcher before it scans again.
Forward ==
    /\ dpc = "loop"
    /\ wrx # <<>>
    /\ tx' = Append(tx, Dedup(Head(wrx)))
    /\ wrx' = Tail(wrx)
    /\ UNCHANGED <<repo, disk, phase, catchup, dpc, seen, win, lpc, history, counters>>

Poll ==
    /\ dpc = "loop"
    /\ wrx = <<>>
    /\ Len(tx) < MaxQueue
    /\ dpc' = "scan"
    /\ UNCHANGED <<repo, disk, phase, catchup, seen, win, wrx, tx, lpc, history, counters>>

ApplyLive ==
    /\ phase = "live" /\ lpc = "recv"
    /\ tx # <<>>
    /\ live' = Applied(Head(tx))
    /\ tx' = Tail(tx)
    /\ lpc' = "stamp"
    /\ OwnFilesWritten
    /\ UNCHANGED <<repo, cp, phase, catchup, dpc, seen, wrx, history, counters>>

\* A batch that cannot be applied is dropped.
FailLive ==
    /\ phase = "live" /\ lpc = "recv"
    /\ tx # <<>>
    /\ CountFault
    /\ live' \in PartlyTombstoned(Head(tx))
    /\ tx' = Tail(tx)
    /\ lost' = lost \cup (DOMAIN Head(tx) \cap Path)
    /\ UNCHANGED <<repo, cp, phase, catchup, dpc, seen, win, wrx, lpc, steady>>

\* After every batch the checkpoint becomes the current HEAD, unless it cannot be written.
\* should_compact then finds nothing to do.
StampLive ==
    /\ lpc = "stamp"
    /\ \/ WriteCheckpoint
       \/ CountFault /\ UNCHANGED <<cp, win>>
    /\ lpc' = "recv"
    /\ UNCHANGED <<repo, live, phase, catchup, dpc, seen, wrx, tx, history>>

\* Or should_compact, which looks at how many segments there are and how much of one is
\* tombstoned, asks for a compaction.  compact_background spawns a task of the runtime, and
\* this thread has none: it panics, the detector and the watcher are dropped with it, and the
\* daemon serves on.
CompactLive ==
    /\ lpc = "stamp"
    /\ \/ RecordHead
       \/ CountFault /\ UNCHANGED cp
    /\ phase' = "deaf"
    /\ dpc' = "off" /\ seen' = NoBase
    /\ win' = <<>> /\ wrx' = <<>> /\ tx' = <<>>
    /\ lpc' = "recv"
    /\ UNCHANGED <<repo, live, catchup, history>>

\* The daemon is killed, possibly inside apply_changes, or stops when it has been idle.
Kill ==
    /\ phase # "down"
    /\ crashes < MaxCrashes
    /\ crashes' = crashes + 1
    /\ live' \in {live} \cup (IF cpc = "apply" THEN Torn(plan) ELSE {})
                        \cup (IF lpc = "recv" /\ tx # <<>> THEN Torn(Head(tx)) ELSE {})
    /\ phase' = "down"
    /\ cpc' = "idle" /\ found' = NoneRan /\ base' = {} /\ plan' = NoEvents
    /\ dpc' = "off" /\ seen' = NoBase
    /\ win' = <<>> /\ wrx' = <<>> /\ tx' = <<>>
    /\ lpc' = "recv"
    /\ lost' = {} /\ steady' = {}
    /\ UNCHANGED <<repo, cp, edits, faults, reindexes>>

-----------------------------------------------------------------------------
\* A clean working tree, indexed by ferret init; or ferret init died before the checkpoint.
Init ==
    /\ head \in Tree
    /\ work = head /\ stage = head
    /\ \/ cp = {head} /\ live = [p \in Path |-> IF head[p] = {} THEN <<>> ELSE <<The(head[p])>>]
       \/ cp = {}     /\ live = [p \in Path |-> <<>>]
    /\ phase = "down"
    /\ cpc = "idle" /\ found = NoneRan /\ base = {} /\ plan = NoEvents
    /\ dpc = "off" /\ seen = NoBase
    /\ win = <<>> /\ wrx = <<>> /\ tx = <<>>
    /\ lpc = "recv"
    /\ lost = {} /\ steady = {}
    /\ edits = 0 /\ faults = 0 /\ crashes = 0 /\ reindexes = 0

Users ==
    \/ \E p \in Path, new \in Option : WriteFile(p, new)
    \/ \E p \in Path : GitAdd(p)
    \/ GitCommit
    \/ \E new \in Tree : GitCheckout(new)

CatchUpStep ==
    \/ \E cmd \in Command : RunGit(cmd)
    \/ DetectByGit
    \/ DetectByHash
    \/ ApplyCatchUp
    \/ StampCatchUp
    \/ GoLive

DetectorStep == (\E cmd \in Command : ScanGit(cmd)) \/ SendScan \/ Forward

LiveStep == ApplyLive \/ StampLive \/ CompactLive

Fault == FailGit \/ FailCatchUp \/ FailGoLive \/ MissEvent \/ FailScan \/ FailLive

Next ==
    \/ Users
    \/ StartDaemon
    \/ StartWithoutCatchUp
    \/ Reindex
    \/ CatchUpStep
    \/ \E n \in 1 .. Len(win) : Debounce(n)
    \/ DetectorStep
    \/ Poll
    \/ LiveStep
    \/ Fault
    \/ Kill

Spec == Init /\ [][Next]_vars

\* Threads that can run do, and the debouncer's and the poll's timers fire.
FairSpec ==
    /\ Spec
    /\ WF_vars(CatchUpStep)
    /\ WF_vars(win # <<>> /\ Debounce(Len(win)))
    /\ WF_vars(DetectorStep)
    /\ WF_vars(Poll)
    /\ WF_vars(LiveStep)

-----------------------------------------------------------------------------
(* Properties *)

\* The reports on their way to the live thread, in the order in which they will be applied:
\* its channel, the detector's scan, the watcher's channel, the debouncer.  The last one that
\* names p, as a set of at most one kind.
LastIn(batches, p) ==
    LET naming == {i \in DOMAIN batches : p \in DOMAIN batches[i]}
    IN  {batches[i][p] : i \in {k \in naming : \A m \in naming : m <= k}}

Scanned(p) ==
    LET naming(cmd) == {b \in seen[cmd] : p \in DOMAIN b}
    IN  IF naming("untracked") # {} THEN {b[p] : b \in naming("untracked")}
                                    ELSE {b[p] : b \in naming("unstaged")}

LastReport(p) ==
    LET inWin  == LastIn(<<Dedup(win)>>, p)
        inWrx  == LastIn([i \in DOMAIN wrx |-> Dedup(wrx[i])], p)
    IN  IF inWin # {} THEN inWin
        ELSE IF inWrx # {} THEN inWrx
        ELSE IF Scanned(p) # {} THEN Scanned(p)
        ELSE LastIn(tx, p)

\* While the live thread runs, which it does until a batch makes a compaction due, every file
\* is indexed as it is, or a report on its way will make it so when it is applied: no order of
\* edits, git scans, debouncing and batches ends in a report that disagrees with the file.  Exempt are the paths of which the watcher was never
\* told, whose report a fault dropped, or that a Reindex deleted while they came back.
NoChangeLost ==
    phase = "live" =>
        \A p \in Path \ lost :
            \/ LastReport(p) = {} /\ Latest(p) = work[p]
            \/ LastReport(p) = {"Deleted"} /\ work[p] = {}
            \/ LastReport(p) = {"Created"} /\ work[p] # {}
            \/ LastReport(p) \in {{"Modified"}, {"Renamed"}}

\* The same as a promise: the index agrees with every file again and again, for as long as
\* the live thread runs.
EventuallyIndexed ==
    \A p \in Path : []<>(phase = "live" /\ p \notin lost => Latest(p) = work[p])

\* A catch-up at start that reports success has indexed every file it could know of: git's
\* three commands together, with the checkpoint as their base, miss no path whose entry was the
\* checkpoint's, and the fast path skips none.
CaughtUp ==
    phase = "starting" /\ cpc = "done" => \A p \in steady : Latest(p) = work[p]
=============================================================================
