---------------------------- MODULE IncidentView ----------------------------
(***************************************************************************)
(* What a reader of the dashboard gets to see of an incident: the events   *)
(* of its window, as IncidentManager._merge hands them on, become the      *)
(* evidence package, and the package becomes the graph                     *)
(* (main.py _on_incident_ready, webapp/server.py api_incident_detail).     *)
(*                                                                         *)
(* The events are recorded one after the other; the incident is created at *)
(* some point among them and the rest is its tail.  The properties are     *)
(* stated of every window that arises, so of every prefix too.             *)
(***************************************************************************)
EXTENDS IncidentGraph

CONSTANTS
  Kinds,      \* the events that may be recorded: payloads, and the time since
              \* the event before
  MaxLength,  \* bound: events of a window
  None        \* no incident, or no evidence package yet

ASSUME ViewAssumption == \A kind \in Kinds : kind.gap \in Nat /\ kind.cpu \in Nat

VARIABLES
  events,     \* the merged events of the window
  createdAt,  \* Incident.created_at
  evidence    \* the evidence package

vars == <<events, createdAt, evidence>>

Init ==
  /\ events = <<>>
  /\ createdAt = None
  /\ evidence = None

Now == IF events = <<>> THEN 0 ELSE Last(events).at

(* The next event of the merged list: they are in the order of their       *)
(* timestamps; the identity tells events apart that agree in all else.     *)
Record(kind) ==
  /\ evidence = None
  /\ Len(events) < MaxLength
  /\ events' = Append(events, [at |-> Now + kind.gap, id |-> Len(events) + 1,
                               type |-> kind.type, pid |-> kind.pid,
                               named |-> kind.named, cpu |-> kind.cpu])
  /\ UNCHANGED <<createdAt, evidence>>

(* A trigger creates the incident; events recorded later are its tail, or  *)
(* were published in the same moment.                                      *)
Create ==
  /\ createdAt = None
  /\ createdAt' = Now
  /\ UNCHANGED <<events, evidence>>

(* The tail is over: _on_incident_ready builds the package. *)
Finish ==
  /\ createdAt # None
  /\ evidence = None
  /\ evidence' = BuildEvidence(events, createdAt)
  /\ UNCHANGED <<events, createdAt>>

Next ==
  \/ \E kind \in Kinds : Record(kind)
  \/ Create
  \/ Finish

Spec == Init /\ [][Next]_vars

-----------------------------------------------------------------------------
(***************************************************************************)
(* Properties, of every evidence package.                                  *)
(***************************************************************************)

Built == evidence # None
Highs == High(events)
Lows == Low(events)
Graph == [nodes |-> Nodes(evidence), edges |-> Edges(evidence)]

(* "High-signal event types are always kept in full": whatever the budget, *)
(* the high-signal part of the timeline is that of the window, in order,   *)
(* and the whole of the timeline is within the budget, or is nothing else. *)
(* A finding quotes events of the window, and the reader of the package    *)
(* sees them in the timeline.  The exception is the finding of a CPU       *)
(* spike: the sample may leave out the metrics and the snapshot it quotes, *)
(* once there are more low-signal events than the budget has room for      *)
(* ("every finding can be quoted back as evidence" does not hold of it).   *)
SignalKept ==
  Built =>
    /\ High(evidence.timeline) = Highs
    /\ Len(evidence.timeline) <= MaxEvents \/ evidence.timeline = Highs
    /\ \A i, j \in DOMAIN evidence.timeline :
         i < j => evidence.timeline[i].at <= evidence.timeline[j].at
    /\ \A finding \in ToSet(evidence.correlations) :
         /\ finding.quotes \subseteq ToSet(events)
         /\ \/ finding.quotes \subseteq ToSet(evidence.timeline)
            \/ /\ finding.kind = "cpu_spike_process"
               /\ Len(Lows) > BudgetForLowSignal(Highs)

(* The rest is thinned out evenly: the first low-signal event stays, none  *)
(* is taken twice, and in no place are more left out in a row than fit     *)
(* into the sampling step, also where a product of floats is rounded down; *)
(* as many are taken as the budget has room for.                           *)
SampledEvenly ==
  Built =>
    LET kept == Low(evidence.timeline)
        budget == BudgetForLowSignal(Highs)
        at == [k \in 1..(Len(kept) + 1) |->
                 IF k > Len(kept) THEN Len(Lows) + 1
                 ELSE CHOOSE i \in DOMAIN Lows : Lows[i] = kept[k]]
    IN  /\ Len(kept) = IF Len(Lows) < budget THEN Len(Lows) ELSE budget
        /\ kept # <<>> => at[1] = 1
        /\ \A k \in DOMAIN kept : at[k + 1] - at[k] \in 1..(Len(Lows) \div budget + 1)

(* The graph is one piece: every edge joins two nodes, and every node can  *)
(* be reached from the trigger, with or without subject and screenshot.    *)
(* Its events are one chain, "a chronological chain of the highest-signal  *)
(* timeline events": all that are shown but the one promoted to the        *)
(* subject, none of them twice.                                            *)
GraphConnected ==
  Built =>
    LET graph == Graph
        shown == Shown(evidence.timeline)
        chain == {e \in graph.edges : e[2][1] = "evt"}
    IN
    /\ \A e \in graph.edges : {e[1], e[2]} \subseteq graph.nodes
    /\ \A S \in SUBSET graph.nodes :
         /\ Node("trigger") \in S
         /\ \A e \in graph.edges : e[1] \in S => e[2] \in S
         => S = graph.nodes
    /\ {e[2][2] : e \in chain} = DOMAIN shown \ {PickSubject(shown)}
    /\ \A e \in chain : e[1][1] = "evt" => shown[e[1][2]].at <= shown[e[2][2]].at
    /\ \A d, e \in chain : d[1] = e[1] \/ d[2] = e[2] => d = e

(* What the docstring of _pick_subject_entry says ("a crash report wins    *)
(* outright"): an incident with a crash report is about a crash.           *)
CrashWinsOutright ==
  Built =>
    LET shown == Shown(evidence.timeline) IN
    (\E e \in ToSet(events) : e.type = "os.crash_report" /\ e.named)
      => PickSubject(shown) \in Crashes(shown)
=============================================================================
