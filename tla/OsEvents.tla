------------------------------ MODULE OsEvents ------------------------------
(***************************************************************************)
(* The collector of crash reports and of unified-log entries               *)
(* (app/capture/os_events.py), next to the operating system that writes    *)
(* both.                                                                   *)
(*                                                                         *)
(* One thread does both in turn.  Reports are files of a directory; the    *)
(* collector keeps the names it has seen and reads a file once.  The log   *)
(* is queried from a watermark on, which the query sees in whole seconds.  *)
(***************************************************************************)
EXTENDS Integers, Sequences, FiniteSets

CONSTANTS
  Reports,       \* the crash reports that may be written
  Entries,       \* the log entries the predicate selects
  OsMalformed,   \* entries that may be records the payload does not accept
  Unparsable,    \* entries whose line may not be read as a record
  Second,        \* ticks per second
  PollInterval,  \* poll_interval_seconds, in ticks
  OsLag,         \* bound: ticks a step of a thread that is due may take
  QueryTimeout,  \* bound: ticks "log show" may take
  QueryMayFail,  \* whether "log show" may fail or run into its timeout
  DirMayFail,    \* whether the directory of the reports may be missing for a
                 \* while, or not be listable
  OsMaxTime,     \* bound: last tick
  OsMaxRuns,     \* bound: restarts of the process
  OsNever        \* no time

ASSUME OsEventsAssumption ==
  /\ IsFiniteSet(Reports)
  /\ OsMalformed \subseteq Entries /\ Unparsable \subseteq Entries
  /\ Second \in Nat \ {0} /\ PollInterval \in Nat
  /\ OsLag \in Nat \ {0} /\ QueryTimeout \in Nat \ {0}
  /\ QueryMayFail \in BOOLEAN /\ DirMayFail \in BOOLEAN
  /\ OsMaxTime \in Nat /\ OsMaxRuns \in Nat
  /\ OsNever \notin Nat

VARIABLES
  osNow,       \* the clock
  osRun,       \* how often the process was restarted
  disk,        \* the state of each report file
  entryStamp,  \* the timestamp of each log entry
  osPc,        \* what the thread is about to do
  osDue,       \* since when it could, or from when it can
  seen,        \* _seen_reports
  todo,        \* the files of the last listing not looked at yet
  watermark,   \* _log_watermark
  start,       \* the local variable start
  result,      \* the entries "log show" printed
  announced,   \* history: what was published of each report
  delivered,   \* history: how often each entry was published
  missed,      \* history: entries in the window of a query that failed
  skipped,     \* history: entries whose line was skipped
  since,       \* history: the first watermark of this run
  waitsSince,  \* history: when each report was created, or a listing that
               \* should have found it last failed
  unseeded     \* history: reports that were hidden from a start

system == <<osNow, osRun, disk, entryStamp>>
osThread == <<osPc, osDue, seen, todo, watermark, start, result>>
osHistory == <<announced, delivered, missed, skipped, since, waitsSince, unseeded>>
osVars == <<system, osThread, osHistory>>

-----------------------------------------------------------------------------
OsInit ==
  /\ osNow = 0 /\ osRun = 0
  /\ disk = [r \in Reports |-> "absent"]
  /\ entryStamp = [e \in Entries |-> OsNever]
  /\ osPc = "built" /\ osDue = 0
  /\ seen = {} /\ todo = {}
  /\ watermark = 0 /\ start = 0 /\ result = {}
  /\ announced = [r \in Reports |-> <<>>]
  /\ delivered = [e \in Entries |-> 0]
  /\ missed = {} /\ skipped = {} /\ since = 0
  /\ waitsSince = [r \in Reports |-> OsNever] /\ unseeded = {}

(* Time passes; a thread that is due is scheduled within Lag, and "log     *)
(* show" is given up after its timeout.                                    *)
OsTick ==
  /\ osNow < OsMaxTime
  /\ osPc = "dead" \/ osNow < osDue + (IF osPc = "query" THEN QueryTimeout ELSE OsLag)
  /\ osNow' = osNow + 1
  /\ UNCHANGED <<osRun, disk, entryStamp, osThread, osHistory>>

(* The crash reporter creates a file ... *)
WriteReport(r) ==
  /\ disk[r] = "absent"
  /\ disk' = [disk EXCEPT ![r] = "partial"]
  /\ waitsSince' = [waitsSince EXCEPT ![r] = osNow]
  /\ UNCHANGED <<osNow, osRun, entryStamp, osThread, announced, delivered, missed, skipped,
                 since, unseeded>>

(* ... and completes it later. *)
CompleteReport(r) ==
  /\ disk[r] = "partial"
  /\ disk' = [disk EXCEPT ![r] = "complete"]
  /\ UNCHANGED <<osNow, osRun, entryStamp, osThread, osHistory>>

LogEntry(e) ==
  /\ entryStamp[e] = OsNever
  /\ entryStamp' = [entryStamp EXCEPT ![e] = osNow]
  /\ UNCHANGED <<osNow, osRun, disk, osThread, osHistory>>

Files == {r \in Reports : disk[r] # "absent"}

(* The reports wait from now on for the next listing. *)
MissedBy == [r \in Reports |-> IF r \in Files THEN osNow ELSE waitsSince[r]]

(* Mutant: the reports of earlier runs are not recorded. *)
StartUnseeded ==
  /\ osPc = "built"
  /\ osPc' = "wait" /\ osDue' = osNow + PollInterval
  /\ UNCHANGED <<system, seen, todo, watermark, start, result, osHistory>>

(* start: seed the known reports, then run the thread, which waits first. *)
Start ==
  /\ osPc = "built"
  /\ seen' = Files
  /\ osPc' = "wait" /\ osDue' = osNow + PollInterval
  /\ UNCHANGED <<system, todo, watermark, start, result, osHistory>>

(* The directory is missing at the start: nothing is known, ...            *)
StartMissing ==
  /\ DirMayFail
  /\ osPc = "built"
  /\ unseeded' = unseeded \cup Files
  /\ waitsSince' = MissedBy
  /\ osPc' = "wait" /\ osDue' = osNow + PollInterval
  /\ UNCHANGED <<system, seen, todo, watermark, start, result, announced, delivered, missed,
                 skipped, since>>

(* ... or it cannot be listed: start raises, and there is no thread.       *)
StartRaises ==
  /\ DirMayFail
  /\ osPc = "built"
  /\ osPc' = "dead" /\ osDue' = osNow
  /\ UNCHANGED <<system, seen, todo, watermark, start, result, osHistory>>

(* Mutant: a report that is still being written is left for later. *)
ListComplete ==
  /\ osPc = "wait" /\ osNow >= osDue
  /\ todo' = {r \in Files \ seen : disk[r] = "complete"}
  /\ osPc' = "reports" /\ osDue' = osNow
  /\ UNCHANGED <<system, seen, watermark, start, result, osHistory>>

(* The wait is over: list the directory and drop what was seen before. *)
List ==
  /\ osPc = "wait" /\ osNow >= osDue
  /\ todo' = Files \ seen
  /\ osPc' = "reports" /\ osDue' = osNow
  /\ UNCHANGED <<system, seen, watermark, start, result, osHistory>>

(* The directory is missing, or cannot be listed: no reports in this poll. *)
ListFails ==
  /\ DirMayFail
  /\ osPc = "wait" /\ osNow >= osDue
  /\ waitsSince' = MissedBy
  /\ osPc' = "reports" /\ osDue' = osNow
  /\ UNCHANGED <<system, seen, todo, watermark, start, result, announced, delivered, missed,
                 skipped, since, unseeded>>

(* Mark the report as seen, read it and publish what it has by now. *)
EmitReport(r) ==
  /\ osPc = "reports" /\ r \in todo
  /\ todo' = todo \ {r}
  /\ seen' = seen \cup {r}
  /\ announced' = [announced EXCEPT ![r] = Append(@, disk[r])]
  /\ osDue' = osNow
  /\ UNCHANGED <<system, osPc, watermark, start, result, delivered, missed, skipped, since,
                 waitsSince, unseeded>>

(* Mutant: the watermark stays where it is. *)
AskFromStart ==
  /\ osPc = "reports" /\ todo = {}
  /\ start' = watermark
  /\ osPc' = "query" /\ osDue' = osNow
  /\ UNCHANGED <<system, seen, todo, watermark, result, osHistory>>

(* All reports are done: the watermark advances, and the query starts from *)
(* where it was.                                                           *)
Ask ==
  /\ osPc = "reports" /\ todo = {}
  /\ start' = watermark
  /\ watermark' = osNow
  /\ osPc' = "query" /\ osDue' = osNow
  /\ UNCHANGED <<system, seen, todo, result, osHistory>>

(* The argument of --start has no fraction of a second. *)
FromSecond(t) == (t \div Second) * Second

(* "log show" prints all entries from the start to the present. *)
Query ==
  /\ osPc = "query"
  /\ result' = {e \in Entries : entryStamp[e] # OsNever /\ entryStamp[e] >= FromSecond(start)}
  /\ osPc' = "publish" /\ osDue' = osNow
  /\ UNCHANGED <<system, seen, todo, watermark, start, osHistory>>

(* It could not be started, failed, or timed out. *)
QueryFails ==
  /\ QueryMayFail
  /\ osPc = "query"
  /\ missed' = missed \cup {e \in Entries : entryStamp[e] # OsNever /\ entryStamp[e] \in start..watermark}
  /\ osPc' = "wait" /\ osDue' = osNow + PollInterval
  /\ UNCHANGED <<system, seen, todo, watermark, start, result, announced, delivered,
                 skipped, since, waitsSince, unseeded>>

(* The lines of these entries are published, and of those that cannot be   *)
(* read as a record some are skipped.                                      *)
Emit(entries) ==
  \E skip \in SUBSET (entries \cap Unparsable) :
    /\ delivered' = [e \in Entries |-> delivered[e] + (IF e \in entries \ skip THEN 1 ELSE 0)]
    /\ skipped' = skipped \cup skip

(* Mutant: the watermark is moved once more, to the end of the poll. *)
PublishMarks ==
  /\ osPc = "publish"
  /\ Emit(result)
  /\ watermark' = osNow
  /\ osPc' = "wait" /\ osDue' = osNow + PollInterval
  /\ result' = {}
  /\ UNCHANGED <<system, seen, todo, start, announced, missed, since, waitsSince, unseeded>>

(* All entries are published, or skipped: a line that does not begin like  *)
(* a record, or that the parser refuses.                                   *)
Publish ==
  /\ osPc = "publish"
  /\ Emit(result)
  /\ osPc' = "wait" /\ osDue' = osNow + PollInterval
  /\ result' = {}
  /\ UNCHANGED <<system, seen, todo, watermark, start, announced, missed, since, waitsSince, unseeded>>

(* A record the payload does not accept (a null message, say) raises in    *)
(* the thread's function, which nothing catches: the entries before it are *)
(* done with, and the thread is gone.                                      *)
PublishRaises(b) ==
  /\ osPc = "publish" /\ b \in result
  /\ Emit({e \in result : entryStamp[e] < entryStamp[b]})
  /\ osPc' = "dead" /\ osDue' = osNow
  /\ result' = {}
  /\ UNCHANGED <<system, seen, todo, watermark, start, announced, missed, since, waitsSince, unseeded>>

(* The process ends and is started again: the new collector's watermark is *)
(* the time of its construction.                                           *)
OsRestart ==
  /\ osRun < OsMaxRuns
  /\ osRun' = osRun + 1
  /\ osPc' = "built" /\ osDue' = osNow
  /\ seen' = {} /\ todo' = {} /\ result' = {}
  /\ watermark' = osNow /\ start' = osNow /\ since' = osNow
  /\ UNCHANGED <<osNow, disk, entryStamp, announced, delivered, missed, skipped, waitsSince, unseeded>>

OsCollector ==
  \/ Start \/ StartMissing \/ StartRaises \/ List \/ ListFails \/ Ask \/ Query \/ QueryFails \/ Publish
  \/ \E r \in Reports : EmitReport(r)
  \/ \E b \in OsMalformed : PublishRaises(b)

Environment ==
  \/ OsTick \/ OsRestart
  \/ \E r \in Reports : WriteReport(r) \/ CompleteReport(r)
  \/ \E e \in Entries : LogEntry(e)

OsNext == OsCollector \/ Environment

OsSpec == OsInit /\ [][OsNext]_osVars

-----------------------------------------------------------------------------
(***************************************************************************)
(* Properties.                                                             *)
(***************************************************************************)

(* "Don't replay crash reports that predate this run": a report, hence its *)
(* crash, is announced once, however often the process starts again, and   *)
(* also when it was not complete at the time; unless the directory was     *)
(* missing when the process started, and came back with the report.        *)
ReportsOnce == \A r \in Reports \ unseeded : Len(announced[r]) <= 1

(* From the listing that just missed a report to the one that finds it,    *)
(* and through the files found with it.                                    *)
Deadline == PollInterval + QueryTimeout + (2 * Cardinality(Reports) + 2) * OsLag

(* A report is announced within a poll, a query of the log and what the    *)
(* steps of the thread take: the log, which the same thread queries, can   *)
(* hold up a crash for as long as its timeout and no longer.  A listing    *)
(* that fails holds it up for as long again.                               *)
ReportsPrompt ==
  \A r \in Files \ seen :
    osPc \notin {"built", "dead"} => osNow <= waitsSince[r] + Deadline

(* Up to here the thread is done with the log: up to the watermark, or to  *)
(* the start of the query it is at, or that it died in.                    *)
DoneWith == IF osPc \in {"query", "publish", "dead"} THEN start ELSE watermark

(* Behind that nothing is lost: an older entry of this run has been        *)
(* published, or its line was skipped, or it lay in the window of a query  *)
(* that failed, and that window is never asked for again.                  *)
LogCovered ==
  \A e \in Entries :
    entryStamp[e] # OsNever /\ entryStamp[e] >= since /\ entryStamp[e] < DoneWith
      => delivered[e] >= 1 \/ e \in missed \cup skipped

(* Consecutive queries overlap, by the time the query took and by the part *)
(* of a second that was cut off, but no more than two of them do, across   *)
(* restarts too, when a poll waits for a second or longer.                 *)
DeliveredAtMostTwice == \A e \in Entries : delivered[e] <= 2
=============================================================================
