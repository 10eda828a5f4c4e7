---------------------------- MODULE MetricsPath ----------------------------
(***************************************************************************)
(* The load of the machine on its way to the detector: the native sampler  *)
(* (native/src), the pipe it prints to, the collector that reads the pipe  *)
(* (NativeSystemMetricsCollector in app/capture/system.py) and the system  *)
(* detector.                                                               *)
(*                                                                         *)
(* The kernel counts ticks in registers that wrap; the sampler subtracts   *)
(* them in wider ones.  The sampler is a process that may crash, and that  *)
(* stop() terminates.  main.py starts and stops the collector once.  The   *)
(* memory in use stays below its threshold.                                *)
(***************************************************************************)
EXTENDS SystemDetector

CONSTANTS
  PerInterval,  \* ticks of the machine in one interval
  TickMod,      \* a tick counter of the kernel is less than this (2^32)
  DiffMod,      \* and a difference of two, or a sum, less than this (2^64)
  Threshold,    \* triggers.system_detector.cpu_percent_threshold
  PipeBound     \* bound: lines the reader may be behind

ASSUME PathAssumption ==
  /\ PerInterval \in Nat \ {0}
  /\ TickMod \in Nat /\ DiffMod \in Nat
  /\ PerInterval < TickMod /\ 2 * TickMod <= DiffMod
  /\ Threshold \in 0..100
  /\ PipeBound \in Nat

VARIABLES
  now,       \* intervals since the start
  ticks,     \* the kernel's counters, summed over the cores
  previous,  \* CpuSampler::previous_
  primed,    \* CpuSampler::primed_
  child,     \* the sampler process: "none", "running", "dying" (killed),
             \* "closing" or "ended"
  pipe,      \* the lines printed and not read
  process,   \* whether the collector's _process is not None
  reader,    \* the reader thread: "none", "unborn" (Thread.start raised),
             \* "built", "reading" or "ended"
  stop,      \* how far stop() is
  spent,     \* history: ticks since the last reading, and if one wrapped
  lines      \* history: what each line printed stands for

machine == <<now, ticks>>
sampler == <<previous, primed>>
collector == <<process, reader, stop>>
pathVars == <<vars, machine, sampler, child, pipe, collector, spent, lines>>

Counters == {"busy", "idle"}
Nothing == [busy |-> 0, total |-> 0, wrapped |-> FALSE]

PathInit ==
  /\ Init
  /\ now = 0 /\ ticks \in [Counters -> 0..(TickMod - 1)]
  /\ previous = [c \in Counters |-> 0] /\ primed = FALSE
  /\ child = "none" /\ pipe = <<>>
  /\ process = FALSE /\ reader = "none" /\ stop = "no"
  /\ spent = Nothing /\ lines = <<>>

-----------------------------------------------------------------------------
(***************************************************************************)
(* The sampler.                                                            *)
(***************************************************************************)

(* The difference of two counters, in unsigned arithmetic. *)
Diff(c) == (ticks'[c] - previous[c]) % DiffMod

(* The share of the busy ticks, in hundredths of a percent: two digits     *)
(* after the point are printed.                                            *)
Hundredths(busy, total) ==
  IF total = 0 THEN 0 ELSE (20000 * busy + total) \div (2 * total)

CpuPercent == Hundredths(Diff("busy"), (Diff("busy") + Diff("idle")) % DiffMod)

(* The machine runs for an interval, b ticks of which are busy. *)
Run(b) ==
  /\ now' = now + 1
  /\ ticks' = [busy |-> (ticks["busy"] + b) % TickMod,
               idle |-> (ticks["idle"] + PerInterval - b) % TickMod]

Spend(b) ==
  [busy |-> spent.busy + b,
   total |-> spent.total + PerInterval,
   wrapped |-> spent.wrapped \/ ticks["busy"] + b >= TickMod
                             \/ ticks["idle"] + PerInterval - b >= TickMod]

Over(s) == Hundredths(s.busy, s.total) >= 100 * Threshold

(* A line with this share is printed.  What it stands for: whether the     *)
(* load since the last reading was over the threshold, and whether the     *)
(* sampler had two readings, with no counter wrapped in between.           *)
PrintLine(cpu, b, read) ==
  /\ Len(lines) < MaxSamples /\ Len(pipe) < PipeBound
  /\ pipe' = Append(pipe, cpu)
  /\ lines' = Append(lines,
       [over |-> Over(Spend(b)), read |-> read, wrapped |-> Spend(b).wrapped])

(* Mutant: previous_ stays what it was at the start. *)
SampleSinceStart(b) ==
  /\ child = "running" /\ Run(b)
  /\ PrintLine(IF primed THEN CpuPercent ELSE 0, b, primed)
  /\ previous' = IF primed THEN previous ELSE ticks'
  /\ primed' = TRUE
  /\ spent' = Nothing
  /\ UNCHANGED <<vars, child, collector>>

(* The counters are read; the first time there is nothing to subtract. *)
TakeSample(b) ==
  /\ child = "running" /\ Run(b)
  /\ PrintLine(IF primed THEN CpuPercent ELSE 0, b, primed)
  /\ previous' = ticks' /\ primed' = TRUE
  /\ spent' = Nothing
  /\ UNCHANGED <<vars, child, collector>>

(* They cannot be read: zeros are printed. *)
SampleFails(b) ==
  /\ child = "running" /\ Run(b)
  /\ PrintLine(0, b, FALSE)
  /\ spent' = Spend(b)
  /\ UNCHANGED <<vars, sampler, child, collector>>

(* The number of cores has changed: zeros, and the next difference is to   *)
(* this reading.                                                           *)
SampleResized(b) ==
  /\ child = "running" /\ Run(b)
  /\ PrintLine(0, b, FALSE)
  /\ previous' = ticks' /\ primed' = TRUE
  /\ spent' = Nothing
  /\ UNCHANGED <<vars, child, collector>>

-----------------------------------------------------------------------------
(***************************************************************************)
(* The collector.                                                          *)
(***************************************************************************)

(* start: the child is spawned, which primes its sampler if it can read.   *)
(* Thread.start may raise when the child runs; BlackBox.start raises with  *)
(* it and nothing calls stop().  When the binary is missing or cannot be   *)
(* run there is neither child nor thread, as before.                       *)
Start ==
  /\ reader = "none" /\ stop = "no"
  /\ child' = "running" /\ process' = TRUE
  /\ reader' \in {"built", "unborn"}
  /\ \/ previous' = ticks /\ primed' = TRUE
     \/ UNCHANGED sampler
  /\ UNCHANGED <<vars, machine, pipe, stop, spent, lines>>

(* The child's standard output closes, then it is gone. *)
Closes ==
  /\ child' = "closing"
  /\ UNCHANGED <<vars, machine, sampler, pipe, collector, spent, lines>>

(* It fails, or Ctrl-C in the terminal interrupts it along with its        *)
(* parent, as it is in the same process group and handles no signal;       *)
Crash == child = "running" /\ Closes
ObeysTerm == child = "running" /\ stop = "waiting" /\ Closes
Dies == child = "dying" /\ Closes

Gone ==
  /\ child = "closing"
  /\ child' = "ended"
  /\ UNCHANGED <<vars, machine, sampler, pipe, collector, spent, lines>>

StopTo(step) ==
  /\ stop' = step
  /\ UNCHANGED <<vars, machine, sampler, pipe, reader, spent, lines>>

(* stop: terminate and wait, if there is a process; *)
Stop ==
  /\ stop = "no" /\ reader # "unborn" /\ UNCHANGED <<child, process>>
  /\ StopTo(IF process THEN "waiting" ELSE "joining")

WaitEnds ==
  /\ stop = "waiting" /\ child = "ended"
  /\ process' = FALSE /\ UNCHANGED child /\ StopTo("joining")

(* Mutant: a child that does not obey is left to itself. *)
WaitGivesUp ==
  /\ stop = "waiting" /\ child # "ended"
  /\ process' = FALSE /\ UNCHANGED child /\ StopTo("joining")

(* kill it when it is not gone after five seconds; *)
WaitExpires ==
  /\ stop = "waiting" /\ child # "ended"
  /\ child' = IF child = "running" THEN "dying" ELSE child
  /\ UNCHANGED process /\ StopTo("killed")

Forget ==
  /\ stop = "killed"
  /\ process' = FALSE /\ UNCHANGED child /\ StopTo("joining")

(* and join the reader, or give up. *)
Join ==
  /\ stop = "joining"
  /\ UNCHANGED <<child, process>> /\ StopTo("done")

(* The reader finds the process, or its assertion fails. *)
ReaderStarts ==
  /\ reader = "built"
  /\ reader' = IF process THEN "reading" ELSE "ended"
  /\ UNCHANGED <<vars, machine, sampler, child, pipe, process, stop, spent, lines>>

(* It reads a line and publishes it, and the detector handles it. *)
ReadLine(free) ==
  /\ reader = "reading" /\ pipe # <<>>
  /\ pipe' = Tail(pipe)
  /\ IF Head(pipe) >= 100 * Threshold
       THEN Breach(now) \/ Fire(now, free)
       ELSE Calm(now)
  /\ UNCHANGED <<machine, sampler, child, collector, spent, lines>>

(* The pipe is closed.  The return code it asks for goes to the log, or    *)
(* stop() has forgotten the process meanwhile and the thread raises.       *)
ReaderEnds ==
  /\ reader = "reading" /\ pipe = <<>> /\ child \in {"closing", "ended"}
  /\ reader' = "ended"
  /\ UNCHANGED <<vars, machine, sampler, child, pipe, process, stop, spent, lines>>

Reader == ReaderStarts \/ ReadLine(TRUE) \/ ReaderEnds
Stopping == WaitEnds \/ WaitExpires \/ Forget \/ Join

PathNext ==
  \/ \E b \in 0..PerInterval : TakeSample(b) \/ SampleFails(b) \/ SampleResized(b)
  \/ Start \/ Crash \/ ObeysTerm \/ Dies \/ Gone
  \/ Stop \/ Stopping \/ Reader

(* stop() is called on the main thread and goes on, a thread that can run  *)
(* does, and a process that is killed or closing is gone some time.        *)
PathSpec ==
  /\ PathInit /\ [][PathNext]_pathVars
  /\ WF_pathVars(Stopping) /\ WF_pathVars(Reader)
  /\ WF_pathVars(Dies) /\ WF_pathVars(Gone)

-----------------------------------------------------------------------------
(***************************************************************************)
(* Properties.                                                             *)
(***************************************************************************)

(* What the detector sees is the load of the machine: a sample breaches if *)
(* and only if the load was over the threshold, whichever readings failed  *)
(* before, unless its own readings did or a counter wrapped in between.    *)
SamplesTrue ==
  \A k \in DOMAIN samples :
    lines[k].read /\ ~lines[k].wrapped => samples[k].breaching = lines[k].over

(* A load that is reported twice was not one load: between two triggers    *)
(* it was below the threshold, unless a reading failed or a counter        *)
(* wrapped in between.                                                     *)
RearmedByLoad ==
  \A m, n \in fired :
    m < n => \E k \in (m + 1)..(n - 1) : ~lines[k].read \/ ~lines[k].over \/ lines[k].wrapped

(* Between two triggers the load was below the threshold, or a counter     *)
(* wrapped: "leave zeroed; caller treats this as 'unavailable this tick'"  *)
(* says the comment on readings that fail.                                 *)
UnavailableDoesNotRearm ==
  \A m, n \in fired :
    m < n => \E k \in (m + 1)..(n - 1) : ~lines[k].over \/ lines[k].wrapped

(* stop() leaves neither process nor thread behind, even when the child    *)
(* does not obey SIGTERM or crashes while it is being stopped.             *)
StopEndsBoth ==
  stop # "no" ~> child \in {"none", "ended"} /\ reader \in {"none", "ended"}
=============================================================================
