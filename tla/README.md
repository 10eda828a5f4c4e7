# Black Box in TLA+

A TLA+ development for Black Box, the local computer recorder in `src/app`:
collectors publish events into a time-windowed buffer, a failure signal opens an
incident, and the incident is turned into a snapshot, evidence, an analysis and a
report. The modules here model the program from its source, TLC checks them on
small instances, and TLAPS proves every safety and action property the passing runs check
for every instance.

- [The system](#the-system)
- [Modules](#modules)
- [Runs and bounds](#runs-and-bounds)
- [Proofs](#proofs)
- [Where code and documentation disagree](#where-code-and-documentation-disagree)
- [What is not modelled](#what-is-not-modelled)
- [Plan](#plan)

## The system

One Python process. Each collector has a daemon thread; the triggers run on the
threads that publish; each incident has a thread of its own; the dashboard is
served by one more thread that handles its requests one at a time.

| Part | State | Operations | Hard behaviour | What makes it correct |
|---|---|---|---|---|
| Circular buffer (`buffer/`) | deque of events, lock | `add`, `snapshot`, both evict | publishers race between stamping and appending; eviction looks at the head only | never forgets an event inside the window, never keeps one much longer, no duplicates |
| Event bus (`events/bus.py`) | subscriber lists | `subscribe` (at start), `publish` | handlers run on the publishing thread, exceptions are logged | the buffer has an event before any trigger sees it |
| Incident manager (`incident/manager.py`) | slot counter, lock | `handle_trigger`, `_finish_incident` | slot taken on one thread, freed on another; two snapshots with a wait between | limit respected, every slot freed, complete window |
| Snapshot (`incident/snapshot.py`) | incident directory | `persist_snapshot` | copies files the buffer is deleting meanwhile | durable copies; the buffer's own events untouched |
| Screen collector (`capture/screen.py`) | thread, stop event, image files | `start`, `stop`, `set_enabled`, `delete_image` | stop gives up after 5 s; start fails half-way; a deletion fails; files outlive the process | at most one thread, and the ways in which an image is left without its event |
| System metrics (`capture/system.py`) | child process, reader thread, stop event | `start`, `stop`, the read loop | a child that crashes, hangs or is stopped between its last line and its return code | samples are the load; stop ends both |
| Process collector (`capture/processes.py`) | known pids | one poll | processes come, go and hand on pids while the table is read | nothing that runs is reported as ended; the events add up to the table |
| OS events (`capture/os_events.py`) | seen reports, log watermark | one poll | half-written reports, failing listings, failing, slow and overlapping queries, lines that are no record, restarts | each report announced once and promptly, no entry lost behind the watermark |
| Terminal collector (`capture/terminal.py`) | log position, toggle | one line | torn and mixed lines, lines that end the thread, the toggle | no command that ended while capture is off is published; only broken lines are lost |
| Detectors (`triggers/`) | breach start, armed flag | `_handle` | the detector disarms whether or not the trigger was accepted | one incident per spike, one trigger per failure event |
| Manual trigger (`triggers/manual_trigger.py`) | signal file, thread | poll | file read and deleted in two steps | a request is not lost |
| Evidence (`evidence/`) | none (pure) | `build_timeline`, `_downsample`, correlations | budgets and sampling steps at their limits | the signal survives, the rest is thinned evenly, order is kept |
| Graph (`webapp/graph_builder.py`) | none (pure) | `build_incident_graph` | the subject leaves the chain, the list is cut at 25 | one connected piece, one chronological chain |
| Pipeline (`main.py`, `agent/`, `llm/`, `report/`, `storage/`) | evidence, report and database row of each incident | `_on_incident_ready` | five steps, any of which may fail or be cut off | what the dashboard lists is backed by files |
| Dashboard (`webapp/`) | none of its own | status, incidents, settings | reads what other threads write | status agrees with buffer and store |
| Native sysmon (`native/`) | previous counters | one sample per interval | counters wrap, readings fail, interfaces come and go | loads are true, rates are believable |

How they interact: a collector builds an `Event` (the timestamp is taken there),
`EventBus.publish` calls the buffer and then the detectors of the event's source on
the same thread; a detector calls `IncidentManager.handle_trigger`, which takes a
slot, snapshots the buffer and starts the incident thread; that thread snapshots the
buffer again after the tail and copies the screenshots while the buffer's eviction
hook deletes the originals; then it runs the pipeline and frees the slot. The
dashboard's status request snapshots the buffer too, so it also evicts.

`PROJECT.json` lists every component with its status and every hazard at the line
where it bites.

## Modules

| Module | Models | Correspondence |
|---|---|---|
| `CircularBuffer` | `app/buffer`, `Event` timestamps | `events` is the deque; `Create` runs the event factory, `Add(e, k)` is `add` popping `k` heads, `Snapshot(k)` the locked part of `snapshot`, `Restart` the end of the process |
| `Admission` | the promise of `max_open_incidents` | an abstract specification with the set of open incidents and no counter |
| `IncidentManager` | triggers, manager, snapshot, eviction hook, image files | extends `CircularBuffer`; one action per step of `handle_trigger` (`Admit`, `Drop`, `SnapshotPre`, `StartThread`, `SpawnFails`) and of the incident thread (`Wake`, `CopyScreenshot`, `WriteRaw`, `Close`, `Fail`) |
| `IncidentManager_proof` | | the inductive invariant of the buffer; the manager refines the buffer and the limit, and its safety invariants |
| `CollectorLifecycle` | `start`, `stop`, `set_enabled` and the run loop of the collectors, `BlackBox.start` and `stop` | `thread` and `stopping` are `_thread` and `_stop_event` of each collector, `joining` the collector whose `stop` waits, `answer` whether a call raised; one action per step another thread can observe; `LaunchFails` is a start that raises in `mkdir`, `touch` or `Thread.start`, `Die` a thread that ends in an exception |
| `CollectorLifecycle_proof` | | the threads a collector may have, proved for any collectors, toggles and failures |
| `IncidentPipeline` | `_on_incident_ready` and what it writes, `IncidentStore` | a file is written in two steps, the database transaction begins and commits in two |
| `IncidentPipeline_proof` | | a row comes last, the write lock is not left behind |
| `SystemDetector` | the state machine of `SystemDetector`, against the history of the samples | `since` and `armed` are `_breach_started_at` and `_armed`; `samples`, `fired` and `accepted` are history |
| `MetricsPath` | CPU sampler and main loop of `native/`, the pipe, `NativeSystemMetricsCollector` | extends `SystemDetector`; `ticks` are the kernel's counters modulo `TickMod`, `Diff` subtracts them modulo `DiffMod`; `child`, `reader` and `stop` are the process, the thread and the steps of `stop()` |
| `MetricsPath_proof` | | the detector's two variables decide as the whole history would; a sample is the load; only a load below the threshold, a wrap or a failed reading lies between two triggers |
| `NetSampler` | `NetSampler` of `native/` | `previous` and `primed` are its members; `SampleOf(S)` is `sample()` when getifaddrs lists `S` |
| `OsEvents` | `OsEventsCollector` next to the crash reporter and the log | `seen` and `watermark` are `_seen_reports` and `_log_watermark`; one action per file and per step of a query; `StartMissing`, `StartRaises` and `ListFails` are a directory that is missing or cannot be listed |
| `OsEvents_proof` | | announced once and in time; nothing lost behind the watermark, nothing published three times |
| `Processes` | `ProcessCollector` next to the process table | `current` and `known` map pids to processes; `ReadProc`, `Skip` deal with one pid of the listing |
| `CrashEvidence` | from a crash to the evidence that links it | extends `Processes` with the incidents that crash reports open, their windows (`InIncident`: what the two snapshots of the buffer have of a termination) and `correlate`'s match by pid |
| `CrashEvidence_proof` | | what the collector's events say, and that window, buffer and tail are long enough |
| `TerminalTail` | `TerminalCollector` next to the shells that append | the log is a sequence of fragments, `pos` the position of the file object; `Run` is the hook's preexec, `Write` its precmd |
| `ManualTrigger` | `ManualTrigger` next to the users of the signal file | one action for each of looking, reading, unlinking, firing, and for what the finally clause does when reading raised |
| `Parts_proof` | | `TerminalTail`, `ManualTrigger` and `NetSampler`: only broken lines are lost and no command that ended while capture was off is published; no request is lost or fired twice; rates are believable |
| `Filters` | list comprehensions with a condition | `ElementsAt(s, P)` is the list of the elements at the places in `P`, in the order of the places (`InOrder`) |
| `Timeline`, `Correlation`, `IncidentGraph` | `timeline.py`; `correlation.py`; `build_evidence` and `graph_builder.py` | operators on sequences of events, without state |
| `IncidentView` | the window of an incident on its way to the page | records events, creates the incident among them, and builds package and graph |
| `IncidentView_proof` | | the signal is kept, the rest thinned evenly, the graph in one piece, for windows of any length |
| `MCParts` | | extends `CircularBuffer`, `OsEvents`, `CrashEvidence`, `TerminalTail`, `ManualTrigger` and `NetSampler`, for one run |
| other `MC...` | | the symmetry sets and the sets a configuration file cannot write |

Time is a counter of ticks. An event carries the tick at which its factory ran, and
`Tick` refuses to advance while a thread that is due has been kept waiting for
`MaxDelay` ticks: that is how "the operating system schedules a runnable thread
within MaxDelay" enters the models. `MaxDelay = 0` would make stamping and appending
simultaneous and hide the race; the runs about races use 1.

Eviction pops `k` heads, and `k` is determined by the state: `Sweeps(q, k)` says that
the loop of `_evict_locked` stops after exactly `k` pops. This is what lets the
module be proved about without a recursive operator.

Incidents are named after the trigger that opened them. Their evidence is a set: the
merge is keyed by `event_id`, and the order is rebuilt from timestamps when it
matters (the copy loop takes the oldest first). `path` says where the `image_path` of
the buffer's own Event objects points; an incident's rewritten copies are in `owned`.
Two simplifications: the image of a screenshot is saved and its event stamped in one
step, and a copy that fails leaves no partial destination file.

The collectors are modelled against what really happened: each module has the world
(reports, log entries, processes, commands, requests, bytes) as variables of its own,
with actions that change it between any two steps of the collector, and the properties
compare the two. Steps of the reader and of the writer of a file are separate
actions wherever the code leaves a gap.

Rounding of floats matters in `_downsample` only: `int(i * step)` may come out one below
the exact product where that is a whole number, and `RoundsDown` is the set of products for which it
does. The run includes one; which products those are for a given step depends on
IEEE arithmetic and is not computed.

In `IncidentManager` the snapshot of the pre-incident window is two steps, as in the
code: the locked sweep and copy, and then the filter that reads the clock again.

## Runs and bounds

Every action of each module fires in a passing run. Mutants (a plausible bug for
each property) are in the modules, named `Mutant` in their comment; `PROJECT.json`
says which property catches which.

| Run | Instance | What it shows |
|---|---|---|
| `incident_files` | 2 incidents sharing 2 screenshots, threads that cannot start; no restart, and copying works | complete windows, which screenshots have no copy, and the slot counter |
| `incident_slots` | 3 triggers for 2 slots; copies, deletions and incident threads that fail; one restart; fairness | the counter implements `Admission`, every slot is given back, the images are those of the buffer but for failed deletions and earlier processes, and no copy an incident owns is deleted |
| `drop_at_limit` (violated) | 2 triggers, 1 slot | a leaked slot drops a trigger with no incident open |
| `screenshots_lost` (violated) | 1 screenshot, 1 incident | a screenshot is deleted during the tail |
| `incident_pipeline` | 3 incidents, every step may raise, one restart; fairness | rows are backed by complete files; the write lock is never left behind; every incident comes to an end |
| `incident_index` (violated) | 1 incident, a raising LLM call | an incident without a row |
| `incident_view` | every window of up to 5 events of 8 kinds; budget 3, 3 nodes | the signal is kept in full and in order, the rest thinned evenly; the graph is one piece with one chronological chain |
| `crash_not_subject` (violated) | up to 3 events, 2 nodes | a crash that is cut off before the subject is picked |
| `metrics_path` | 5 samples, counters modulo 2 in sums modulo 4, a pipe of 1 line; fairness | the samples are the load, the detector fires once per sustained load and again for the next one, `stop` ends child and thread |
| `unavailable_rearms` (violated) | 5 samples | a reading that fails fires a second trigger for the same load |
| `parts` | buffer: 4 events, a restart; OS events: 1 report, 1 log entry that may be rejected or skipped, a directory that may be missing, 9 ticks, a restart; processes: 3 with 2 pids, one unreadable, 9 ticks, a window of 2, a tail and a buffer of 4; terminal: 2 commands, 2 toggles, 5 ticks; signal file: 3 requests, 4 triggers, a restart; network: 2 interfaces, 3 samples | each part against what really happened |
| `collector_lifecycle` | screen (slow, may die opening the screen), terminal (may die opening the log or of a line), reports (may hang or die); starts that raise; 2 threads each; fairness | off means off, on starts a thread or raises, capture resumes or falls silent, shutdown is silent and ends |

`parts` explores six modules in one run. They share no variable and none waits for
another, so a step of one changes nothing another is judged by, and all behaviours of a
part occur with the others at rest; `part` says which one moves. Nothing is concluded
about their combination: where parts interact they are composed in a module
(`IncidentManager` with the buffer, `CrashEvidence` with the process collector,
`MetricsPath` with the detector).

The bounds are enough because the hazards are local. A race needs two publishers, and
four events leave two more to be swept by them. Two incidents are the fewest that
share a screenshot; three triggers the fewest that exceed a limit of two. Restarts are
bounded by one: a second adds only more of what the first left behind. Five samples
make a load that becomes sustained, ends, and becomes sustained again. Two threads per collector are the
one that `stop` abandoned and the one started after it; a third start waits for one of
them, which bounds the number of abandoned threads. Nine ticks hold three polls with a
query that times out or a listing that fails in between, and a crash, the two polls that
notice it, and reports that come too late for the window. Three
processes are the fewest of which one inherits a pid while another stays. Two commands
make every way in which lines are torn and mixed, three requests are the fewest of which one is
made in each gap of the poller. Five events fill the budget of three with and without
low-signal events left over, and give the graph a subject in front of, between and behind
its chain. `TickMod` and `DiffMod` stand for 2^32 and 2^64: one must wrap before the
other, and the wrap must be reachable in a few samples. Where a theorem exists the bounds do
not matter.

## Proofs

TLAPS checks the eight `_proof` modules for all values of the constants; there is no
bound on events, triggers, clock, samples, toggles or restarts. All assumptions on
constants are named `ASSUME`s of the modules, which TLC evaluates in the runs: times and
limits are naturals, the sets of triggers, requests, reports and interfaces are finite, the storage
directory is not an incident's directory. Two are about widths: `2 * TickMod <= DiffMod`
(the sum of two 32-bit differences fits into 64 bits) and
`Cardinality(Interfaces) * CounterMod < SumMod` (so does the sum over all interfaces).

**The buffer.** `WindowKept` ("forgets nothing inside the window") is inductive only
together with `ReorderBounded` and `PublishersPrompt`: a publisher in flight is at
most `MaxDelay` behind, so what it appends stands behind events at most `MaxDelay`
younger. `NoDuplicates` needs that an event in flight is not buffered yet. `BufferInv`
is their conjunction. `RetentionBounded` is an action property: when the eviction loop
stops, its head is young enough, and by `ReorderBounded` everything behind the head is
at most `MaxDelay` older.

**The manager.** `BufferRefined` shows that each step of the manager is a step of the
buffer or leaves it alone, so the buffer's theorems carry over. Then four layers of
invariants, each proved from the ones below:

1. `SlotInv`: `_open_incidents` is the number of incidents in a phase that holds a
   slot. A failure event has been published before its handling starts, so an event
   is raised once. `AdmissionImplemented` maps each step to a step of `Admission` or a
   stutter, under the assumption that threads can be started (`~SpawnMayFail`), and
   `DropOnlyAtLimitHolds` follows: only `Refuse` enlarges the set of the refused. The
   run `drop_at_limit` shows that both fail otherwise, so a thread that does not start
   is the only cause of the disagreement.
2. `FileInv`: types, `CopiesDurable` and `ImagesTrackBuffer`. That nothing is copied
   before the tail is merged is needed because the evidence still shrinks until then. An
   image outlives its event only where its deletion failed (`undeleted`) or the process
   ended (`past`).
3. `WindowInv`: from the first snapshot to the merge, an event of the window is in
   hand, or it was stamped so late (`openedAt <= stamp + MaxDelay`) that the buffer
   still has it when the tail is over. The theorem assumes
   `PostWait + 3 * MaxDelay <= Retention`: a trigger may be handled, the tail may end
   and a publisher may be late by one delay each. With the shipped configuration (300 s
   and 5 s) that allows delays of more than a minute.
4. `UncopiedInv`: the evidence of a running incident belongs to this process and is no
   longer in flight, so an image that is missing was deleted by eviction, and then its
   event had expired. Assumes that `shutil.copy2` works (`~CopyMayFail`).

**The pipeline.** `RowBacked` is inductive with the order of the steps made explicit:
a thread at some step has completed the files of the steps before it, and a file, once
complete, stays so. `IndexedIffDone` says which incidents have a row: those
whose thread went through to the end. `incident_index` is about the others.

**The detector.** `DetectorInv` says that `since` is the time of the first sample of
the current spike, and `armed` that the spike is not sustained yet. The first sample
decides (`SustainedSinceBegan`) because times do not decrease.

**The native path.** `PathInv` connects three histories. `SpentInv`: a counter stands
where the last reading found it plus what was spent since, unless it wrapped. A
difference of two readings is therefore exact, and so is the sum of two differences
(`DifferenceIsSpent`). `LinesInv`: the lines printed are the samples and, behind them,
the pipe, each true if its own readings worked. `ChildInv`: there is no child before the
reader is made. `RearmedByLoad` combines path and detector: between two triggers a sample was calm, so the
load was below the threshold, a counter wrapped, or a reading failed. Without the last
case it is `UnavailableDoesNotRearm`, which `unavailable_rearms` refutes.

**The collectors.** `Forgotten` (a disabled collector whose stop has returned has no
`_thread`) and `Known` (only `_thread` runs, in a collector that does not outlast its
join) are inductive together; `Stopped` follows `BlackBox.stop` through its list.
`FlipOnStarts` follows from `Forgotten`: a collector that is off has no `_thread`, so `start`
gets past its early return, unless `_thread` is an object whose `start` raised (`Unborn`),
which no `stop` ever clears.
`OffMeansOff` exempts the slow collectors, and has to: a stop that gives up leaves a
thread behind.

**The process collector and crashes.** `PollInv` holds for every poll under way: a pid that
has been dealt with and was not found belongs to a process that has ended, or could not
be read. From it `TerminatedHasEnded` and `EventsAddUp`. `LinkInv` adds time: whoever
crashed and is still known is noticed by the poll after the one during which the report
came, so a tail longer than an interval and two polls is long enough (`CrashIsLinked`), and
its event is as young as the crash at least, so it is in the incident whenever a report
that comes at the same time would find the crash itself within the window and the buffer
(`InTime`). A report that comes later may find the termination evicted; nothing is
claimed of it.

**The OS events collector.** `OnceInv`: what was announced is a file, which the listings
of this run drop, unless the directory was missing at the start (`unseeded`). `LogInv`: entries before the start of the query under way are done
with (published, skipped as no record, or asked for in vain), and the answer has those up
to the watermark; it needs that cutting the start to
whole seconds only lowers it. `PromptInv` bounds, for each step of the thread, how long a report
that is not announced yet has waited, since it was created or a listing last failed
(`waitsSince`), when that step is due; the bound grows with the
reports handled before it, which takes cardinalities. `TwiceInv`: an entry that was
published is a second older than the next question (assuming that a poll lasts that
long), one published twice a second older than the start of the next query.

**The signal file.** `SignalInv` says what the file stands for: without a file, and with
no trigger about to be fired, nothing is owed; a file and a pending trigger each count
as a request.

**The terminal log.** `ReaderInv` says where the reader can stand: at the end of a line,
at a cut (a line it met half written) or where it opened the file. From there it reads
whole lines, so a line that is lost was cut or mixed up. A command that is running has
written nothing yet (`LinesOnce`), and the line of one that ended while capture was off begins
before the place where the reader opened the file (`PrivateBefore`). The delay is bounded by a
budget of one period for each line that is still unread (`OnTime`).

**Network rates.** `NetInv`: what the interfaces that have not come back have counted is
no more than the last sum and what was received since. So the next sum exceeds the last by
no more than that, whichever interfaces `getifaddrs` lists.

**Evidence and graph.** The window is simple (`WindowInv`: ordered by time, no event
twice, the package built from it); the theorems are about operators on lists of any
length. Sorting and filtering are characterised by ranks: in a finite strict order the
ranks number the elements (`RanksNumber`), and only one list of places is increasing and
has a given range (`IncreasingUnique`). So `ElementsAt` is determined by a set of places, and
sorting keeps every part of a list that is in order already (`SortKeeps`): that is why
the high-signal events come out of the timeline as they went in. `SamplingGap` is the
arithmetic of the sample, with products rounded down by one at most. What a finding quotes
is in the window (`FindingsQuoteWindow`), and in the timeline when it is high-signal, or when
all low-signal events fit (`AllEventsShown`): the finding of a CPU spike quotes metrics and a
process snapshot, which are neither, and is the one exception `SignalKept` makes. In the graph, a node
of the chain that cannot be reached would have a least place, whose predecessor can be
reached (`AllReached`). The least counterexample (`LeastNatural`) replaces induction
throughout, because the library's induction theorems take operators as parameters.
`CrashIsSubjectHolds` is the counterpart of the run `crash_not_subject`: when the
high-signal events all become nodes, a crash is the subject.

`TypeOK`, `NoDuplicates`, `EventsAddUp` and `IndexedIffDone` are proved and are in no run.

Only model-checked: the liveness properties `SlotsReleased`, `Settles`, `Resumes`,
`FallsSilent`, `ShutsDown` and `StopEndsBoth` (temporal proofs under fairness are out of
the prover's reach), and the violations, which are counterexamples. Every invariant and
action property of a passing run has a theorem.

**Fairness.** `FairManagerSpec` assumes weak fairness of the clock, of publishers
in flight, of the trigger handling and of the incident threads: they are ordinary
threads, their waits are timed, and the only call that could hang, the HTTP request to
the model, has a timeout (`llm.request_timeout_seconds`). The fair specification of
`IncidentPipeline` rests on the same timeout and on that of sqlite3's lock wait. In
`CollectorLifecycle` waits and captures end, except in the collectors listed as `Stuck`,
and `join` returns after its five seconds; nobody has to toggle or to send a signal. In
`MetricsPath` the steps of `stop` are fair (its waits are timed), and so are those of the reader thread,
the end of a child that was killed or has crashed, and the closing of its pipe; no child has to print
another line or to obey SIGTERM, and nobody has to call `stop`. No step is assumed to raise
(`Fail` is not fair), nobody has to request an incident by hand, and the process does
not have to restart.

## Where code and documentation disagree

Runs that TLC must find violated; the finding in `PROJECT.json` quotes the line.

| Run | Code | Text it disagrees with |
|---|---|---|
| `drop_at_limit` | a thread that does not start keeps its slot (a bug) | "max_open_incidents (%d) reached" (`manager.py:45`) |
| `screenshots_lost` | screenshots are copied after the tail | "the incident must own durable copies" (`snapshot.py:16`) |
| `incident_index` | the row is written last, and only `LlmError` is caught | "SQLite index of every incident" (`README.md:153`) |
| `crash_not_subject` | the list of high-signal entries is cut to the first 25 before the crash is looked for | "a crash report wins outright" (`graph_builder.py:24`) |
| `unavailable_rearms` | a reading that fails is printed as 0% and ends the spike (a bug) | "leave zeroed; caller treats this as 'unavailable this tick'" (`metrics.cpp:24`) |

Seen while modelling, without a run of their own:

- Only eviction deletes images, once. An image whose deletion fails is logged and stays, and
  a restart forgets the buffer, so the images of an earlier process stay too
  (`screen.py:106`: "screenshots don't outlive their event"). `ImagesTrackBuffer` names both
  as its exceptions.
- The finding of a CPU spike quotes the metrics of the peak and the closest process
  snapshot, and the timeline may have left out either when it was thinned
  (`correlation.py:16-17`: every finding can be quoted back as evidence). `SignalKept` says so.
- Ctrl-C interrupts the native sampler along with its parent, since both are in the same
  process group and `main.cpp` handles no signal: its code is -2, which `system.py:208-210`
  logs as an unexpected exit (`README.md:108-109`: collectors shut down cleanly; the comment
  at `system.py:206` knows of a crash and of `stop()`).
- When the directory of crash reports is missing at the start and comes back with reports
  in it, they are announced (`os_events.py:52`: "Don't replay crash reports that predate
  this run"). `ReportsOnce` names the exception.
- When `Thread.start` raises, `_thread` keeps the object: `start` returns early ever after, and
  the `join` in `stop` raises (`CollectorLifecycle`, `Unborn`), which answers the settings page
  with an error and cuts `BlackBox.stop` short of the collectors behind it.
- The hook writes a command when it ends: one that was begun while capture was off and ends
  while it is on is published (`terminal.py:66`: "only new commands from now on").
  `PrivateWhileOff` is about those that ended.
- A log line that does not parse as JSON is skipped without a trace (`os_events.py:133-140`),
  and the watermark is past it. `LogCovered` names the exception.
- The detector disarms also when its trigger is dropped at the limit, so a spike may go
  without an incident (`system_detector.py:15-16`: "one sustained spike produces exactly
  one incident"). `FiresWhenSustained` is about the trigger.
- A pid that ends and is given to another process between two polls is neither an end
  nor a start (`processes.py:34-36`: "notice processes starting or disappearing"; stated as
  `DisappearedIsReported`). `TerminatedHasEnded` and `CrashIsLinked` say what does hold.
- A log record with a null message, and a signal file that is not UTF-8, raise what
  nobody catches and end the thread (`PublishRaises`, `ReadRaises` and `CleanUp`).
- The reader of the native sampler asks `poll()` right after the pipe is closed, when
  the child may not have been reaped: a crash of the child can go unlogged
  (`system.py`, `NativeSystemMetricsCollector`).
- The first sample after `getifaddrs` failed, or after an interface came back with its
  counter, reports all that was ever counted as one interval's rate. `RateBelievable`
  has that as its exception.
- A toggle in the dashboard is not saved: after a restart the configuration decides.
- `CircularBuffer.snapshot` copies in arrival order, not "a chronological copy"
  (`circular_buffer.py:42`); `ReorderBounded` says how far apart the two are, and the
  manager sorts (`manager.py:92`).
- The second snapshot of an incident has no window, so the evidence reaches back as far
  as the buffer does, whatever `pre_incident_seconds` is (`config.yaml:6`).
- Status looks at saved rows only (`status.py:24`), so it says ok while an incident is in
  progress; its docstring says "whether an incident fired recently".
- `stop` of a collector gives up after 5 s and forgets the thread, so a slow capture may
  be published after `set_enabled(False)` has returned (`test_capture_restart.py:130`:
  "no new events once disabled again"). `OffMeansOff` therefore exempts the collectors
  listed as `Slow`.
- A collector whose thread has died (the terminal's of an unexpected line, the screen's when
  `mss` finds no screen to grab) stays listed as enabled, and `start` does nothing. Turning it off and on again helps (`FlipOnStarts`).

## What is not modelled

Event payload schemas, text matching of the detectors, redaction, parsing of crash
reports, prompt and report wording, the parser of analyses, HTML, and rendering in the
browser: data and layout that none of the properties tells apart. `app/agent/tools.py`,
`load_snapshot` and `trigger_event` are not called from anywhere. Settings are read once;
they are the constants of the models. Sampling through psutil and ioreg is input, and
memory and swap are read afresh for each sample. The pages and media of incidents are
read from files the pipeline has written. `ManualTrigger.stop` is that of any collector, and its
thread does not outlast the join. A dashboard request that overlaps a
shutdown is not modelled: `WebServer.stop` waits for the request loop, which handles
one request at a time, before any collector is stopped.

## Plan

In order of importance, the first seven are done:

1. `CircularBuffer` with proofs: everything else reads it.
2. `IncidentManager` on top of it, with `Admission` as the abstract limit, and proofs.
3. `IncidentPipeline`: the five steps of `_on_incident_ready`, failures and restarts.
4. `SystemDetector` with the history of its samples as the reference, and proofs.
5. `CollectorLifecycle`: start, stop and the toggle against slow and dead threads.
6. `ManualTrigger`, `OsEvents`, `TerminalTail`, `Processes` and `MetricsPath`: the
   collectors against the events that really happened, with proofs.
7. `Timeline`, `Correlation`, `IncidentGraph` and `NetSampler`: algorithms, checked over
   bounded inputs and proved for all.
8. A composition of detector, manager and pipeline: from a failure event to the row in
   the database. What it would add is the order of their failures; each interface is a
   single call, and the properties on both sides are proved.

Theorems still worth proving belong to that composition: that a sustained load whose
trigger is admitted ends in a row unless a step raises, as far as that is safety.
