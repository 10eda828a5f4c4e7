------------------------------ MODULE Processes ------------------------------
(***************************************************************************)
(* The process collector (app/capture/processes.py): it polls the process  *)
(* table, compares each poll with the one before and publishes what has    *)
(* started or disappeared.  Processes come and go while a poll runs, and   *)
(* the system gives the pid of an ended process to a later one.            *)
(*                                                                         *)
(* The recorder is a process itself and in every poll; it is left out of   *)
(* the table, and "polled" says whether _known_pids is empty.              *)
(***************************************************************************)
EXTENDS Integers, FiniteSets

CONSTANTS
  Procs,     \* the processes that may run
  PidOf,     \* the pid of each
  Flaky,     \* processes whose information cannot always be read
  Interval,  \* interval_seconds
  Nobody     \* no process

ASSUME ProcessesAssumption ==
  /\ Flaky \subseteq Procs
  /\ Interval \in Nat
  /\ Nobody \notin Procs

VARIABLES
  procNow,
  alive,     \* the processes that are running
  ended,     \* those that were
  step,      \* what the thread is about to do
  wake,      \* when its wait is over
  unread,    \* the pids of the listing that are still to be read
  current,   \* the local variable current
  known,     \* _known_pids
  polled,    \* whether there has been a poll
  met,       \* history: processes that were in a poll
  reported,  \* history: processes with a process.terminated event
  table      \* history: the pids that baseline and events add up to

world == <<alive, ended>>
collector == <<step, wake, unread, current, known, polled>>
procVars == <<procNow, world, collector, met, reported, table>>

Pids == {PidOf[p] : p \in Procs}
Empty == [pid \in Pids |-> Nobody]
In(t) == {pid \in Pids : t[pid] # Nobody}

-----------------------------------------------------------------------------
ProcInit ==
  /\ procNow = 0
  /\ alive = {} /\ ended = {}
  /\ step = "wait" /\ wake = Interval
  /\ unread = {} /\ current = Empty
  /\ known = Empty /\ polled = FALSE
  /\ met = {} /\ reported = {} /\ table = {}

(* A process starts; its pid is one that is free. *)
Begin(p) ==
  /\ p \notin alive \cup ended
  /\ \A q \in alive : PidOf[q] # PidOf[p]
  /\ alive' = alive \cup {p}
  /\ UNCHANGED <<procNow, ended, collector, met, reported, table>>

End(p) ==
  /\ p \in alive
  /\ alive' = alive \ {p}
  /\ ended' = ended \cup {p}
  /\ UNCHANGED <<procNow, collector, met, reported, table>>

(* The wait is over: psutil lists the pids. *)
ListPids ==
  /\ step = "wait" /\ procNow >= wake
  /\ unread' = {PidOf[p] : p \in alive}
  /\ current' = Empty
  /\ step' = "read"
  /\ UNCHANGED <<procNow, world, wake, known, polled, met, reported, table>>

(* One of them is read; it may have ended, or be another process by now. *)
ReadProc(p) ==
  /\ step = "read" /\ p \in alive /\ PidOf[p] \in unread
  /\ unread' = unread \ {PidOf[p]}
  /\ current' = [current EXCEPT ![PidOf[p]] = p]
  /\ UNCHANGED <<procNow, world, step, wake, known, polled, met, reported, table>>

(* Mutant: a process that has gone ends the loop, not just its iteration. *)
SkipRest(pid) ==
  /\ step = "read" /\ pid \in unread
  /\ \A p \in alive \ Flaky : PidOf[p] # pid
  /\ unread' = {}
  /\ UNCHANGED <<procNow, world, step, wake, current, known, polled, met, reported, table>>

(* NoSuchProcess, or an error that is logged: the pid is left out. *)
Skip(pid) ==
  /\ step = "read" /\ pid \in unread
  /\ \A p \in alive \ Flaky : PidOf[p] # pid
  /\ unread' = unread \ {pid}
  /\ UNCHANGED <<procNow, world, step, wake, current, known, polled, met, reported, table>>

Started == In(current) \ In(known)
Terminated == In(known) \ In(current)

(* The processes that events of type process.terminated are published of,  *)
(* when the poll is not the first.                                         *)
Disappeared == IF polled THEN {known[pid] : pid \in Terminated} ELSE {}

(* Mutant: the first poll stays the one that later ones are compared to. *)
EmitSinceBaseline ==
  /\ step = "read" /\ unread = {}
  /\ known' = IF polled THEN known ELSE current
  /\ polled' = TRUE
  /\ met' = met \cup {current[pid] : pid \in In(current)}
  /\ table' = IF polled THEN (table \cup Started) \ Terminated ELSE In(current)
  /\ reported' = reported \cup Disappeared
  /\ step' = "wait" /\ wake' = procNow + Interval
  /\ UNCHANGED <<procNow, world, unread, current>>

(* All are read: the differences to the poll before are published, unless  *)
(* this is the first one; then the snapshot; and current becomes known.    *)
EmitDiff ==
  /\ step = "read" /\ unread = {}
  /\ known' = current
  /\ polled' = TRUE
  /\ met' = met \cup {current[pid] : pid \in In(current)}
  /\ table' = IF polled THEN (table \cup Started) \ Terminated ELSE In(current)
  /\ reported' = reported \cup Disappeared
  /\ step' = "wait" /\ wake' = procNow + Interval
  /\ UNCHANGED <<procNow, world, unread, current>>

ProcCollector ==
  \/ ListPids \/ EmitDiff
  \/ \E p \in Procs : ReadProc(p)
  \/ \E pid \in Pids : Skip(pid)

World == \E p \in Procs : Begin(p) \/ End(p)

-----------------------------------------------------------------------------
(***************************************************************************)
(* Properties.                                                             *)
(***************************************************************************)

(* Whoever adds up the events of the collector, from its first poll on,    *)
(* has its process table: no pid ends twice, starts twice or is forgotten, *)
(* whichever processes come and go, or cannot be read, during a poll.      *)
EventsAddUp == table = In(known)

(* A process reported as terminated has ended, unless reading it failed:   *)
(* not because it was replaced, and not because a poll was under way.      *)
TerminatedHasEnded == reported \subseteq ended \cup Flaky

(* What the docstring of ProcessCollector says ("diffs consecutive         *)
(* snapshots to notice processes starting or disappearing"): a process of  *)
(* the last poll but one that is not in the last has been reported.        *)
DisappearedIsReported ==
  [][ \A pid \in Pids :
        known[pid] # Nobody /\ known'[pid] # known[pid] => known[pid] \in reported' ]_procVars
=============================================================================
