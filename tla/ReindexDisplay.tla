--------------------------- MODULE ReindexDisplay ---------------------------
(***************************************************************************)
(* What `ferret reindex` shows while the daemon works (ferret-cli/src/     *)
(* reindex_display.rs; the events of catchup.rs and segment_manager.rs).   *)
(*                                                                         *)
(* The catch-up thread sends events into an unbounded channel; the daemon  *)
(* writes them to the socket and the command shows a spinner or a bar.     *)
(* Files are read and built by parallel workers: each takes the next       *)
(* number of a shared counter and then sends it, so numbers overtake each  *)
(* other.                                                                  *)
(***************************************************************************)
EXTENDS Naturals, Sequences, FiniteSets

CONSTANT Files   \* files with changes

ASSUME ReindexDisplayAssumption == Files \in Nat \ {0}

VARIABLES
  phase,     \* how far run_catchup_with_progress is
  counter,   \* files_read, files_done or written_files
  taken,     \* numbers taken and not yet sent
  channel,   \* events and the final frame, on their way to the command
  spinner,   \* the spinner's message, or "none"
  bar,       \* the bar's title, or "none"
  position,  \* of the bar
  built,     \* the largest number of built files the bar was told
  result     \* "none" while the command runs

displayVars == <<phase, counter, taken, channel, spinner, bar, position, built, result>>

Event(is)       == [is |-> is, n |-> 0]
Counted(is, n)  == [is |-> is, n |-> n]

DisplayInit ==
  /\ phase = "start" /\ counter = 0 /\ taken = {} /\ channel = <<>>
  /\ spinner = "none" /\ bar = "none" /\ position = 0 /\ built = 0 /\ result = "none"

-----------------------------------------------------------------------------
(* The catch-up. *)

\* Sends an event and goes on to the next phase, with a counter of its own.
Progress(from, event, to) ==
  /\ phase = from
  /\ phase' = to /\ channel' = Append(channel, event) /\ counter' = 0
  /\ UNCHANGED <<taken, spinner, bar, position, built, result>>

\* Goes on without an event.
Quietly(from, to) ==
  /\ phase = from
  /\ phase' = to /\ counter' = 0
  /\ UNCHANGED <<taken, channel, spinner, bar, position, built, result>>

DetectingChanges == Progress("start", Event("detecting"), "detecting")
ScanningFallback == Progress("detecting", Event("scanning"), "scanned")
ChangesDetected  == \E p \in {"detecting", "scanned"} : Progress(p, Event("changes"), "locking")
\* Without changes nothing is applied; a forced compaction may still follow.
NoChanges ==
  \E p \in {"detecting", "scanned"}, to \in {"done", "compacting"} : Progress(p, Event("no changes"), to)

WaitingForLock == Progress("locking", Event("waiting"), "preparing")
LockFree       == Quietly("locking", "preparing")

Kind == CASE phase = "preparing" -> "preparing" [] phase = "building" -> "building"
          [] phase = "decompressing" -> "decompressing" [] phase = "writing" -> "writing"

\* fetch_add
TakeNumber ==
  /\ phase \in {"preparing", "building", "decompressing", "writing"} /\ counter < Files
  /\ counter' = counter + 1 /\ taken' = taken \cup {counter'}
  /\ UNCHANGED <<phase, channel, spinner, bar, position, built, result>>

\* on_progress, after the number was taken
SendNumber(n) ==
  /\ n \in taken
  /\ taken' = taken \ {n} /\ channel' = Append(channel, Counted(Kind, n))
  /\ UNCHANGED <<phase, counter, spinner, bar, position, built, result>>

\* The parallel iterator ends; files that could not be read were never counted.
WorkersEnd ==
  /\ taken = {}
  /\ \/ Quietly("preparing", "building")
     \/ Quietly("building", "burying")
     \/ Quietly("decompressing", "writing")
     \/ Progress("writing", Event("compacted"), "completing")

Tombstoning        == Progress("burying", Event("tombstoning"), "applied") \/ Quietly("burying", "applied")
ShouldNotCompact   == Quietly("applied", "completing")
ShouldCompact      == Quietly("applied", "compacting")
CompactingSegments == Progress("compacting", Event("compacting"), "collecting")
CompactingCollected == Progress("collecting", Event("collected"), "decompressing")
\* One segment without tombstones is left as it is.
NothingToCompact   == Quietly("collecting", "completing")
Complete           == Progress("completing", Event("complete"), "done")

\* The daemon's last frame, or the end of the connection.
LastFrame ==
  \/ Progress("done", Event("Done"), "over")
  \/ /\ phase # "over" /\ taken = {}
     /\ \E e \in {"Error", "EOF"} : Progress(phase, Event(e), "over")

-----------------------------------------------------------------------------
(* ProgressRenderer. *)

\* Spinner, bar, position.
Shows(s, b, p) == spinner' = s /\ bar' = b /\ position' = p

\* A build that is shown as it is numbered.
ShowBuildingAsTold(n) == Shows(spinner, bar, IF bar = "none" THEN position ELSE n)

\* bar.position().max(files_done)
ShowBuilding(n) == Shows(spinner, bar, IF bar # "none" /\ n > position THEN n ELSE position)

Handle(event) ==
  CASE event.is \in {"detecting", "waiting"} -> Shows(event.is, "none", 0)
    [] event.is = "scanning"   -> Shows(IF spinner = "none" THEN "none" ELSE "scanning", bar, position)
    [] event.is = "changes"    -> Shows("none", "indexing", 0)
    [] event.is = "no changes" -> Shows("none", bar, position)
    [] event.is \in {"preparing", "decompressing", "writing"}
         -> Shows(spinner, bar, IF bar = "none" THEN position ELSE event.n)
    [] event.is = "building"   -> ShowBuilding(event.n)
    [] event.is = "tombstoning" -> UNCHANGED <<spinner, bar, position>>
    [] event.is = "compacting" -> Shows("compacting", "none", 0)
    [] event.is = "collected"  -> Shows("none", "compacting", 0)
    [] event.is = "compacted"  -> Shows(spinner, "none", 0)
    [] event.is \in {"complete", "Done", "Error", "EOF"} -> Shows("none", "none", 0)

\* run_reindex_with_progress reads the next frame.
ReadFrame ==
  /\ channel # <<>> /\ result = "none"
  /\ LET event == Head(channel)
     IN  /\ Handle(event)
         /\ result' = IF event.is \in {"Done", "Error", "EOF"} THEN event.is ELSE "none"
         /\ built' = IF event.is = "building" /\ bar # "none" /\ event.n > built THEN event.n
                     ELSE IF bar' = "none" \/ event.is \in {"changes", "collected"} THEN 0 ELSE built
  /\ channel' = Tail(channel)
  /\ UNCHANGED <<phase, counter, taken>>

DisplayNext ==
  \/ DetectingChanges \/ ScanningFallback \/ ChangesDetected \/ NoChanges
  \/ WaitingForLock \/ LockFree \/ TakeNumber \/ WorkersEnd
  \/ Tombstoning \/ ShouldCompact \/ ShouldNotCompact
  \/ CompactingSegments \/ CompactingCollected \/ NothingToCompact \/ Complete \/ LastFrame
  \/ \E n \in 1 .. Files : SendNumber(n)
  \/ ReadFrame

DisplaySpec == DisplayInit /\ [][DisplayNext]_displayVars

-----------------------------------------------------------------------------
(* Properties. *)

\* A spinner and a bar never share the terminal, nothing is left on it when the command ends, and
\* the bar is never below a number of built files it was told, in whatever order the workers'
\* numbers arrive (reindex_display.rs:53-72, 165-185, 256-285).
OneIndicator ==
  /\ spinner = "none" \/ bar = "none"
  /\ result # "none" => spinner = "none" /\ bar = "none"
  /\ bar # "none" => position >= built
=============================================================================
