--------------------------- MODULE MCIncidentView ---------------------------
(* Instances of IncidentView for TLC: the kinds of events that may occur.  *)
EXTENDS IncidentView

Kind(type, pid, named, cpu, gap) ==
  [type |-> type, pid |-> pid, named |-> named, cpu |-> cpu, gap |-> gap]

(* Reports with and without a pid, a process whose name is empty, and      *)
(* events that share their timestamp with the one before.                  *)
AllKinds ==
  {Kind("os.crash_report", 1, TRUE, 0, 0),
   Kind("os.crash_report", NoPid, TRUE, 0, 1),
   Kind("process.terminated", 1, TRUE, 0, 1),
   Kind("process.started", 2, FALSE, 0, 0),
   Kind("terminal.command", NoPid, FALSE, 0, 1),
   Kind("screen.capture", NoPid, FALSE, 0, 0),
   Kind("process.snapshot", 1, TRUE, 0, 1),
   Kind("system.metrics", NoPid, FALSE, 9, 0)}

(* An exact product that falls just short of 2, as 7 * (122 / 14) does.    *)
ShortProducts == {<<1, 4, 2>>}
=============================================================================
