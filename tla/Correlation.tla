----------------------------- MODULE Correlation -----------------------------
(***************************************************************************)
(* The heuristics that link events of different sources                    *)
(* (app/evidence/correlation.py).  A finding is its kind and the events    *)
(* its description quotes.                                                 *)
(***************************************************************************)
EXTENDS Filters, SequencesExt, FiniteSetsExt

CONSTANTS
  NoPid,          \* a report or an event without a pid
  SpikePercent,   \* 80
  TerminalWindow  \* terminal_window_seconds, 60

OfType(events, type) == ElementsAt(events, {i \in DOMAIN events : events[i].type = type})

Distance(t, u) == IF t < u THEN u - t ELSE t - u

(* min(s, key=distance to t): the first of the closest. *)
Closest(s, t) ==
  LET best == Min({Distance(s[i].at, t) : i \in DOMAIN s})
  IN  s[Min({i \in DOMAIN s : Distance(s[i].at, t) = best})]

(* Of several terminations of one pid the last one stays in the dictionary. *)
TerminationOf(pid, events) ==
  events[Max({i \in DOMAIN events : events[i].type = "process.terminated" /\ events[i].pid = pid})]

CrashToLifecycle(events) ==
  LET ended == {e.pid : e \in ToSet(OfType(events, "process.terminated"))} \ {NoPid}
      matched == ElementsAt(events, {i \in DOMAIN events :
                   events[i].type = "os.crash_report" /\ events[i].pid \in ended})
  IN  [i \in DOMAIN matched |->
         [kind |-> "crash_matches_termination",
          quotes |-> {matched[i], TerminationOf(matched[i].pid, events)}]]

(* max(metrics, key=cpu_percent): the first of the highest. *)
Peak(metrics) ==
  LET top == Max({metrics[i].cpu : i \in DOMAIN metrics})
  IN  metrics[Min({i \in DOMAIN metrics : metrics[i].cpu = top})]

ResourceSpikeToProcess(events) ==
  LET metrics == OfType(events, "system.metrics")
      snapshots == OfType(events, "process.snapshot")
  IN  IF \/ metrics = <<>> \/ snapshots = <<>>
         \/ Peak(metrics).cpu < SpikePercent
         \/ ~Closest(snapshots, Peak(metrics).at).named
      THEN <<>>
      ELSE <<[kind |-> "cpu_spike_process",
              quotes |-> {Peak(metrics), Closest(snapshots, Peak(metrics).at)}]>>

RecentTerminalActivity(events, trigger) ==
  LET commands == {e \in ToSet(events) :
                     e.type = "terminal.command" /\ trigger - e.at \in 0..TerminalWindow}
  IN  IF commands = {} THEN <<>>
      ELSE <<[kind |-> "recent_terminal_commands", quotes |-> commands]>>

Correlate(events, trigger) ==
  CrashToLifecycle(events)
    \o ResourceSpikeToProcess(events)
    \o RecentTerminalActivity(events, trigger)
=============================================================================
