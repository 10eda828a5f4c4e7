------------------------- MODULE CollectorLifecycle -------------------------
(***************************************************************************)
(* The threads of the collectors (app/capture): started and stopped with   *)
(* the process, and some of them turned on and off from the dashboard.     *)
(*                                                                         *)
(* Calls of start and stop come one after the other: the web server is     *)
(* started after the collectors, handles its requests on one thread, and   *)
(* is shut down, waiting for that thread, before any collector is stopped. *)
(* The concurrency is between the caller and the collectors' threads.  All *)
(* the threads a collector ever starts share one stop event.               *)
(*                                                                         *)
(* start() may raise half-way.  Out of BlackBox.start, or out of a stop()  *)
(* in BlackBox.stop, the exception ends the process; out of set_enabled it *)
(* answers the request with an error and leaves what was already done.     *)
(***************************************************************************)
EXTENDS Sequences, FiniteSets

CONSTANTS
  Order,       \* _collectors, in the order they are started and stopped
  Workers,     \* identities of threads; one is free again when it ended
  None,        \* no thread, no collector
  Toggleable,  \* the collectors the settings page lists
  Slow,        \* those where one capture may outlast join(timeout=5)
  Stuck,       \* those where a call into the system may never return
  Preparing,   \* those where start() touches files before it makes a thread
  SpawnMayFail, \* whether Thread.start may raise
  Unborn,      \* a Thread object whose start() raised
  FailsOpening,   \* those where _run may raise before its loop
  FailsCapturing  \* those where an exception of one capture leaves the loop

Collectors == {Order[i] : i \in DOMAIN Order}

ASSUME LifecycleAssumption ==
  /\ Order \in Seq(Collectors)
  /\ None \notin Workers \cup Collectors
  /\ Unborn \notin Workers \cup {None}
  /\ (Toggleable \cup Slow) \subseteq Collectors
  /\ Stuck \subseteq Slow
  /\ (Preparing \cup FailsOpening \cup FailsCapturing) \subseteq Collectors
  /\ SpawnMayFail \in BOOLEAN

VARIABLES
  enabled,   \* settings.enabled of each collector
  thread,    \* _thread
  stopping,  \* _stop_event.is_set()
  worker,    \* where each thread is in _run
  phase,     \* what the process is doing
  todo,      \* collectors that BlackBox.start or .stop has yet to call
  joining,   \* the collector whose stop() waits in join
  answer     \* how the latest start() or stop() went, as its caller saw it

vars == <<enabled, thread, stopping, worker, phase, todo, joining, answer>>
process == <<phase, todo>>

(* A thread is "gone" when it left its loop on the stop event and "dead"   *)
(* when an exception ended it; either way its identity is free.            *)
Alive(c) == {w \in Workers : worker[c][w] \notin {"gone", "dead"}}

(* The process has ended, by itself or through an exception. *)
Over == phase \in {"down", "aborted"}

Init ==
  /\ enabled \in [Collectors -> BOOLEAN]
  /\ thread = [c \in Collectors |-> None]
  /\ stopping = [c \in Collectors |-> FALSE]
  /\ worker = [c \in Collectors |-> [w \in Workers |-> "gone"]]
  /\ phase = "starting"
  /\ todo = Order
  /\ joining = None
  /\ answer = "ok"

-----------------------------------------------------------------------------
(* Mutant: the stop event is not cleared. *)
LaunchUncleared(c, w) ==
  /\ w \notin Alive(c)
  /\ UNCHANGED stopping
  /\ thread' = [thread EXCEPT ![c] = w]
  /\ worker' = [worker EXCEPT ![c][w] = "opening"]
  /\ answer' = "ok"

(* start() past its early returns: clear the event, create and run a       *)
(* thread.                                                                 *)
Launch(c, w) ==
  /\ w \notin Alive(c)
  /\ stopping' = [stopping EXCEPT ![c] = FALSE]
  /\ thread' = [thread EXCEPT ![c] = w]
  /\ worker' = [worker EXCEPT ![c][w] = "opening"]
  /\ answer' = "ok"

(* start() raises past its early returns: in mkdir, touch or iterdir, with *)
(* no thread made yet, or in Thread.start, with _thread already set.       *)
LaunchFails(c) ==
  /\ stopping' = [stopping EXCEPT ![c] = FALSE]
  /\ \/ c \in Preparing /\ UNCHANGED thread
     \/ SpawnMayFail /\ thread' = [thread EXCEPT ![c] = Unborn]
  /\ answer' = "raised"
  /\ UNCHANGED worker

(* start(): nothing when the collector is disabled or has a thread, also   *)
(* one that never came to run.                                             *)
Start(c) ==
  IF enabled'[c] /\ thread[c] = None
  THEN LaunchFails(c) \/ \E w \in Workers : Launch(c, w)
  ELSE answer' = "ok" /\ UNCHANGED <<thread, stopping, worker>>

(* stop(): set the event and, with a thread, wait for its end.  The join   *)
(* of a thread that never ran raises, and _thread keeps it.                *)
Stop(c) ==
  /\ stopping' = [stopping EXCEPT ![c] = TRUE]
  /\ joining' = IF thread[c] \in Workers THEN c ELSE None
  /\ answer' = IF thread[c] = Unborn THEN "raised" ELSE "ok"
  /\ UNCHANGED <<thread, worker>>

(* BlackBox.start calls the next collector; after the last one it starts   *)
(* the manual trigger and the web server, which may raise as well.  It is  *)
(* called outside the try of run_forever.                                  *)
StartNext ==
  /\ phase = "starting"
  /\ UNCHANGED <<enabled, joining>>
  /\ IF todo = << >>
     THEN phase' \in {"running", "aborted"} /\ UNCHANGED <<todo, thread, stopping, worker, answer>>
     ELSE /\ Start(Head(todo))
          /\ todo' = Tail(todo)
          /\ phase' = IF answer' = "raised" THEN "aborted" ELSE phase

(* set_enabled(True) *)
Enable(c) ==
  /\ phase = "running" /\ joining = None
  /\ enabled' = [enabled EXCEPT ![c] = TRUE]
  /\ Start(c)
  /\ UNCHANGED <<joining, process>>

(* set_enabled(False) *)
Disable(c) ==
  /\ phase = "running" /\ joining = None
  /\ enabled' = [enabled EXCEPT ![c] = FALSE]
  /\ Stop(c)
  /\ UNCHANGED process

(* A signal ends run_forever: BlackBox.stop shuts the web server down.     *)
Signal ==
  /\ phase = "running" /\ joining = None
  /\ phase' = "stopping"
  /\ todo' = Order
  /\ UNCHANGED <<enabled, thread, stopping, worker, joining, answer>>

(* BlackBox.stop calls the next collector; after the last one the process  *)
(* ends, and its daemon threads with it.  A stop() that raises ends it     *)
(* before the collectors behind it were stopped.                           *)
StopNext ==
  /\ phase = "stopping" /\ joining = None
  /\ UNCHANGED enabled
  /\ IF todo = << >>
     THEN phase' = "down" /\ UNCHANGED <<todo, thread, stopping, worker, joining, answer>>
     ELSE /\ Stop(Head(todo))
          /\ todo' = Tail(todo)
          /\ phase' = IF answer' = "raised" THEN "aborted" ELSE phase

-----------------------------------------------------------------------------
(* Mutant: stop() does not wait. *)
JoinedAtOnce(c) ==
  /\ joining = c
  /\ thread' = [thread EXCEPT ![c] = None]
  /\ joining' = None
  /\ UNCHANGED <<enabled, stopping, worker, answer, process>>

(* Mutant: stop() does not forget the thread it waited for. *)
JoinedKept(c) ==
  /\ joining = c
  /\ thread[c] \notin Alive(c)
  /\ joining' = None
  /\ UNCHANGED <<enabled, thread, stopping, worker, answer, process>>

(* join returns because the thread ended; stop() forgets the thread. *)
Joined(c) ==
  /\ joining = c
  /\ thread[c] \notin Alive(c)
  /\ thread' = [thread EXCEPT ![c] = None]
  /\ joining' = None
  /\ UNCHANGED <<enabled, stopping, worker, answer, process>>

(* Mutant: join has no timeout. *)
JoinExpiresNever(c) == c \in Slow /\ joining # joining /\ UNCHANGED vars

(* join gives up on a thread that is not in its wait.  stop() does not     *)
(* look at the outcome and forgets the thread all the same.                *)
JoinExpires(c) ==
  /\ c \in Slow
  /\ joining = c
  /\ worker[c][thread[c]] \in {"opening", "busy"}
  /\ thread' = [thread EXCEPT ![c] = None]
  /\ joining' = None
  /\ UNCHANGED <<enabled, stopping, worker, answer, process>>

-----------------------------------------------------------------------------
Move(c, w, to) ==
  /\ ~Over
  /\ worker' = [worker EXCEPT ![c][w] = to]
  /\ UNCHANGED <<enabled, thread, stopping, joining, answer, process>>

(* The log, or the screen, is open; the loop begins. *)
Opened(c, w) == worker[c][w] = "opening" /\ Move(c, w, "waiting")

(* Mutant: the loop does not look at the event. *)
LookNoMore(c, w) == worker[c][w] = "waiting" /\ Move(c, w, "busy")

(* The wait between two captures is over, by its timeout or by the event. *)
Look(c, w) ==
  worker[c][w] = "waiting" /\ Move(c, w, IF stopping[c] THEN "gone" ELSE "busy")

(* One capture ends, with events published or with a logged exception. *)
Publish(c, w) == worker[c][w] = "busy" /\ Move(c, w, "waiting")

(* An exception ends the thread, on its way into the loop (no screen to    *)
(* grab, no log to open) or out of a capture; _thread still refers to it.  *)
Die(c, w) ==
  /\ \/ c \in FailsOpening /\ worker[c][w] = "opening"
     \/ c \in FailsCapturing /\ worker[c][w] = "busy"
  /\ Move(c, w, "dead")

Run(c, w) == Opened(c, w) \/ Look(c, w) \/ Publish(c, w)

Next ==
  \/ StartNext
  \/ Signal
  \/ StopNext
  \/ \E c \in Toggleable : Enable(c) \/ Disable(c)
  \/ \E c \in Collectors : Joined(c) \/ JoinExpires(c)
  \/ \E c \in Collectors, w \in Workers : Run(c, w) \/ Die(c, w)

Spec == Init /\ [][Next]_vars

(* Threads are scheduled, waits and captures end where they are not Stuck, *)
(* join returns, and BlackBox.start and .stop go on.  Nobody has to toggle *)
(* anything or to send a signal.                                           *)
FairSpec ==
  /\ Spec
  /\ WF_vars(StartNext)
  /\ WF_vars(StopNext)
  /\ \A c \in Collectors : WF_vars(Joined(c) \/ JoinExpires(c))
  /\ \A c \in Collectors, w \in Workers : WF_vars(Look(c, w))
  /\ \A c \in Collectors \ Stuck, w \in Workers : WF_vars(Run(c, w))

-----------------------------------------------------------------------------
(***************************************************************************)
(* Properties.                                                             *)
(***************************************************************************)

(* "No new events once disabled again": when set_enabled(False) has        *)
(* returned, no thread of the collector is left; and at no time does a     *)
(* thread run that stop() would not wait for, so two never capture at      *)
(* once.  It does not hold of a collector that may outlast its join.       *)
OffMeansOff ==
  \A c \in Toggleable \ Slow :
    /\ ~enabled[c] /\ joining # c => Alive(c) = {}
    /\ Alive(c) \subseteq {thread[c]}

(* Shutdown is orderly: when BlackBox.stop has returned, every thread has  *)
(* ended by itself, except in a collector that may outlast its join.  (A   *)
(* stop() that raises keeps BlackBox.stop from returning.)                 *)
DownIsSilent == phase = "down" => \A c \in Collectors \ Slow : Alive(c) = {}

(* Turning a collector on starts a thread, also after the last one died of *)
(* an exception, after a start() that raised in mkdir or touch, and after  *)
(* a stop that gave up: being turned off is what makes start() work again. *)
(* Otherwise the caller sees an exception; the one silent failure is that  *)
(* of a collector with a thread whose Thread.start raised earlier.         *)
FlipOnStarts ==
  [][ \A c \in Toggleable : ~enabled[c] /\ enabled'[c] =>
        Alive(c)' \ Alive(c) # {} \/ answer' = "raised" \/ thread[c] = Unborn ]_vars

(* The thread the collector refers to never came to be, or has died. *)
Failed(c) ==
  thread[c] \in Workers => worker[c][thread[c]] = "dead"

(* A collector that stays enabled, and whose start() and thread have not   *)
(* failed, goes on capturing, whatever sequence of toggles, of failures    *)
(* and of threads that were given up came before: the event set by an      *)
(* earlier stop does not end a later thread.                               *)
Resumes ==
  \A c \in Collectors \ Stuck :
    <>[](phase = "running" /\ enabled[c] /\ ~Failed(c)) =>
      []<>(\E w \in Workers : worker[c][w] = "busy")

(* A collector that stays disabled falls silent: every thread ends, also   *)
(* one that stop() gave up on and a later start() brought back to life.    *)
FallsSilent ==
  \A c \in Collectors \ Stuck :
    <>[](phase = "running" /\ ~enabled[c]) => <>[](Alive(c) = {})

(* A signal ends the process, whichever collectors are slow, dead, stuck   *)
(* or refer to a thread that never ran.                                    *)
ShutsDown == phase = "stopping" ~> Over
=============================================================================
