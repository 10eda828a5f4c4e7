----------------------------- MODULE Admission -----------------------------
(***************************************************************************)
(* What the incident limit promises (incident.max_open_incidents): a       *)
(* trigger is admitted when fewer than MaxOpen incidents are open, refused *)
(* only when MaxOpen are, and the slot of an incident is free again when   *)
(* the incident is over.  There is no counter here, only the set of open   *)
(* incidents; IncidentManager implements it with one.                      *)
(***************************************************************************)
EXTENDS Integers, FiniteSets

CONSTANTS
  Triggers,  \* the triggers that may fire, each at most once
  MaxOpen    \* incident.max_open_incidents

VARIABLES
  open,      \* triggers whose incident is being collected
  over,      \* triggers whose incident is closed, failed or died
  refused    \* triggers dropped at the limit

admissionVars == <<open, over, refused>>

Init == open = {} /\ over = {} /\ refused = {}

Fresh(t) == t \notin open \cup over \cup refused

Admit(t) ==
  /\ Fresh(t)
  /\ Cardinality(open) < MaxOpen
  /\ open' = open \cup {t}
  /\ UNCHANGED <<over, refused>>

Refuse(t) ==
  /\ Fresh(t)
  /\ Cardinality(open) >= MaxOpen
  /\ refused' = refused \cup {t}
  /\ UNCHANGED <<open, over>>

Close(t) ==
  /\ t \in open
  /\ open' = open \ {t}
  /\ over' = over \cup {t}
  /\ UNCHANGED refused

(* The process ends: every incident dies with it. *)
Crash ==
  /\ open' = {}
  /\ over' = over \cup open
  /\ UNCHANGED refused

Next ==
  \/ \E t \in Triggers : Admit(t) \/ Refuse(t) \/ Close(t)
  \/ Crash

Spec == Init /\ [][Next]_admissionVars
=============================================================================
