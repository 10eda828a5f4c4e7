--------------------------- MODULE CrashEvidence ---------------------------
(***************************************************************************)
(* A crash on its way to an incident: a process ends, its crash report is  *)
(* announced, which opens an incident (crash_detector.py), the process     *)
(* collector notices that the pid is gone, and when the tail of the        *)
(* incident is over the evidence links the two (evidence/correlation.py).  *)
(*                                                                         *)
(* That a report is announced once, and how late, is the subject of module *)
(* OsEvents; here it may be announced at any time after the crash.         *)
(***************************************************************************)
EXTENDS Processes

CONSTANTS
  Crashing,      \* the processes that may leave a crash report
  PollTime,      \* bound: ticks until a poll that is due is over
  PreWindow,     \* pre_incident_seconds
  PostWait,      \* post_incident_seconds
  BufferTime,    \* buffer.retention_seconds
  CrashMaxTime,  \* bound: last tick
  CrashNever     \* no time

ASSUME CrashAssumption ==
  /\ Crashing \subseteq Procs
  /\ PollTime \in Nat \ {0} /\ CrashMaxTime \in Nat
  /\ PreWindow \in Nat /\ PostWait \in Nat /\ BufferTime \in Nat
  /\ CrashNever \notin Nat

VARIABLES
  incidentOpened,  \* when the incident of a crash was opened
  partial,         \* the crashes whose report had no pid yet when it was read
  closed,          \* the incidents whose tail is over
  linked,          \* those whose evidence links the crash to the termination
  endedAt,         \* when each of the processes ended
  noticedAt        \* the timestamp of its last process.terminated event

incidents == <<incidentOpened, partial, closed, linked>>
times == <<endedAt, noticedAt>>
crashVars == <<procVars, incidents, times>>

CrashInit ==
  /\ ProcInit
  /\ incidentOpened = [p \in Crashing |-> CrashNever]
  /\ partial = {} /\ closed = {} /\ linked = {}
  /\ endedAt = [p \in Crashing |-> CrashNever]
  /\ noticedAt = [p \in Crashing |-> CrashNever]

OpenIncidents == {p \in Crashing : incidentOpened[p] # CrashNever} \ closed

(* Time passes; a poll that is due, and a tail that is over, is not put    *)
(* off for longer.                                                         *)
Pass ==
  /\ procNow < CrashMaxTime
  /\ procNow < wake + PollTime
  /\ \A p \in OpenIncidents : procNow < incidentOpened[p] + PostWait
  /\ procNow' = procNow + 1
  /\ UNCHANGED <<world, collector, met, reported, table, incidents, times>>

(* The report is announced, and the trigger fires while it is published.   *)
Announce(p, complete) ==
  /\ p \in ended /\ incidentOpened[p] = CrashNever
  /\ incidentOpened' = [incidentOpened EXCEPT ![p] = procNow]
  /\ partial' = IF complete THEN partial ELSE partial \cup {p}
  /\ UNCHANGED <<procVars, closed, linked, times>>

Stamp(stamps, who) == [p \in Crashing |-> IF p \in who THEN procNow ELSE stamps[p]]

ProcessSteps ==
  /\ ProcCollector \/ World
  /\ endedAt' = Stamp(endedAt, ended' \ ended)
  /\ noticedAt' = Stamp(noticedAt, IF step = "read" /\ step' = "wait" THEN Disappeared ELSE {})
  /\ UNCHANGED incidents

(* The event is in the incident: it was in the part of the buffer that was *)
(* copied when the incident was opened, or it is in the buffer now.        *)
InIncident(p) ==
  /\ noticedAt[p] # CrashNever
  /\ \/ /\ incidentOpened[p] <= noticedAt[p] + PreWindow
        /\ incidentOpened[p] <= noticedAt[p] + BufferTime
     \/ procNow <= noticedAt[p] + BufferTime

(* The tail is over.  Only a complete report has the pid by which the      *)
(* termination is found.                                                   *)
Close(p) ==
  /\ p \in OpenIncidents /\ procNow >= incidentOpened[p] + PostWait
  /\ closed' = closed \cup {p}
  /\ linked' = IF InIncident(p) /\ p \notin partial THEN linked \cup {p} ELSE linked
  /\ UNCHANGED <<procVars, incidentOpened, partial, times>>

CrashNext ==
  \/ Pass \/ ProcessSteps
  \/ \E p \in Crashing, complete \in BOOLEAN : Announce(p, complete)
  \/ \E p \in Crashing : Close(p)

CrashSpec == CrashInit /\ [][CrashNext]_crashVars

-----------------------------------------------------------------------------
(***************************************************************************)
(* Properties.                                                             *)
(***************************************************************************)

(* Some other process has had the pid of p too. *)
Reused(p) == \E q \in (alive \cup ended) \ {p} : PidOf[q] = PidOf[p]

(* The report came while an event from the time of the crash was still    *)
(* within the reach of the incident.                                       *)
InTime(p) ==
  incidentOpened[p] <= endedAt[p] + PreWindow /\ incidentOpened[p] <= endedAt[p] + BufferTime

(* The window and its tail are long enough for the evidence of a crash to  *)
(* be complete: when the report comes in time, the termination that        *)
(* belongs to it is in the incident, whether it was noticed before or      *)
(* after the trigger; unless the report was read before it was complete,   *)
(* the process never was in a poll or could not be read in one, or its pid *)
(* is one that another process has had too.                                *)
CrashIsLinked ==
  Interval + 2 * PollTime < PostWait =>
    \A p \in closed \ linked :
      InTime(p) => p \in partial \/ p \notin met \/ p \in Flaky \/ Reused(p)
=============================================================================
