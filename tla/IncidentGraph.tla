---------------------------- MODULE IncidentGraph ----------------------------
(***************************************************************************)
(* The mind map of an incident (app/webapp/graph_builder.py) over its      *)
(* evidence package (app/evidence/processor.py).  A node is its id; the    *)
(* label and detail that go with it are formatting.                        *)
(***************************************************************************)
EXTENDS Timeline, Correlation

CONSTANT MaxNodes  \* _MAX_EVIDENCE_NODES, 25

ASSUME GraphAssumption == MaxNodes \in Nat \ {0}

Screenshots(events) == OfType(events, "screen.capture")

(* build_evidence; the screenshot is the one closest to the incident. *)
BuildEvidence(events, createdAt) ==
  [timeline |-> BuildTimeline(events),
   correlations |-> Correlate(events, createdAt),
   screenshot |-> IF Screenshots(events) = <<>> THEN {}
                  ELSE {Closest(Screenshots(events), createdAt)}]

(* The entries that become nodes: the first MaxNodes of high signal. *)
Shown(timeline) ==
  LET high == High(timeline)
  IN  SubSeq(high, 1, IF Len(high) < MaxNodes THEN Len(high) ELSE MaxNodes)

Crashes(shown) == {i \in DOMAIN shown : HasSubject(shown[i]) /\ shown[i].type = "os.crash_report"}
Subjects(shown) == {i \in DOMAIN shown : HasSubject(shown[i])}

(* The first crash, or else the first process that started or ended; 0 for *)
(* none.                                                                   *)
PickSubject(shown) ==
  IF Crashes(shown) # {} THEN Min(Crashes(shown))
  ELSE IF Subjects(shown) # {} THEN Min(Subjects(shown))
  ELSE 0

Node(kind) == <<kind, 0>>
Entry(i) == <<"evt", i>>
Spoke(i) == <<"corr", i>>

(* The entries that become event nodes: all but the subject itself. *)
Chained(shown) == DOMAIN shown \ {PickSubject(shown)}

Nodes(evidence) ==
  LET shown == Shown(evidence.timeline) IN
  {Node("trigger"), Node("root_cause")}
    \cup (IF PickSubject(shown) = 0 THEN {} ELSE {Node("subject")})
    \cup {Spoke(i) : i \in DOMAIN evidence.correlations}
    \cup (IF evidence.screenshot = {} THEN {} ELSE {Node("screenshot")})
    \cup {Entry(i) : i \in Chained(shown)}

(* Mutant: the id of the entry before in the list, whether it is a node or  *)
(* not.                                                                     *)
PreviousIndex(i, shown) ==
  IF i > 1 THEN Entry(i - 1)
  ELSE IF PickSubject(shown) # 0 THEN Node("subject") ELSE Node("trigger")

(* previous_id when entry i is reached. *)
Previous(i, shown) ==
  LET before == {j \in Chained(shown) : j < i}
  IN  IF before # {} THEN Entry(Max(before))
      ELSE IF PickSubject(shown) # 0 THEN Node("subject")
      ELSE Node("trigger")

Edges(evidence) ==
  LET shown == Shown(evidence.timeline) IN
  {<<Node("trigger"), Node("root_cause")>>}
    \cup (IF PickSubject(shown) = 0 THEN {}
          ELSE {<<Node("trigger"), Node("subject")>>, <<Node("root_cause"), Node("subject")>>})
    \cup {<<Node("root_cause"), Spoke(i)>> : i \in DOMAIN evidence.correlations}
    \cup (IF evidence.screenshot = {} THEN {} ELSE {<<Node("trigger"), Node("screenshot")>>})
    \cup {<<Previous(i, shown), Entry(i)>> : i \in Chained(shown)}
=============================================================================
