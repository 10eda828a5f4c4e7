------------------------------ MODULE Timeline ------------------------------
(***************************************************************************)
(* The timeline of an evidence package (app/evidence/timeline.py): all     *)
(* high-signal events, and an even sample of the others in what is left of *)
(* the budget.  Operators on sequences of events; no state.                *)
(***************************************************************************)
EXTENDS Filters

CONSTANTS
  MaxEvents,  \* max_events, 400 in build_evidence
  RoundsDown  \* the products i * step that fall below an exact integer

(* Products of floats: i * (n / budget) is never too large, and may be     *)
(* just below the integer it ought to be (i = 7, n = 122, budget = 14).    *)
ASSUME TimelineAssumption ==
  /\ MaxEvents \in Nat
  /\ RoundsDown \subseteq (Nat \ {0}) \X Nat \X Nat

HighSignal == {"os.crash_report", "os.unified_log", "process.started",
               "process.terminated", "terminal.command", "trigger.fired"}

IsHigh(e) == e.type \in HighSignal

High(s) == ElementsAt(s, {i \in DOMAIN s : IsHigh(s[i])})
Low(s) == ElementsAt(s, {i \in DOMAIN s : ~IsHigh(s[i])})

(* sorted(..., key=timestamp): simultaneous events keep their order. *)
Chronological(s) ==
  LET Before(i, j) == s[i].at < s[j].at \/ (s[i].at = s[j].at /\ i < j)
      Rank(j) == Cardinality({i \in DOMAIN s : Before(i, j)}) + 1
  IN  [k \in DOMAIN s |-> s[CHOOSE j \in DOMAIN s : Rank(j) = k]]

(* Mutant: the step is an integer division. *)
SampleIndexWhole(i, n, budget) == i * (n \div budget)

(* int(i * step) with step = n / budget. *)
SampleIndex(i, n, budget) ==
  LET exact == (i * n) \div budget IN
  IF <<i, n, budget>> \in RoundsDown /\ (i * n) % budget = 0
  THEN exact - 1
  ELSE exact

Downsample(s, budget) ==
  IF Len(s) <= budget THEN s
  ELSE [k \in 1..budget |-> s[SampleIndex(k - 1, Len(s), budget) + 1]]

BudgetForLowSignal(high) ==
  IF Len(high) < MaxEvents THEN MaxEvents - Len(high) ELSE 0

(* Mutant: the budget is applied to the whole timeline, oldest events first. *)
BuildTimelineCut(events) ==
  LET all == Chronological(events)
  IN  Downsample(all, MaxEvents)

BuildTimeline(events) ==
  LET ordered == Chronological(events)
      sampled == Downsample(Low(ordered), BudgetForLowSignal(High(ordered)))
  IN  Chronological(High(ordered) \o sampled)

(* The process an entry is about, when there is one. *)
HasSubject(e) ==
  /\ e.type \in {"os.crash_report", "process.started", "process.terminated"}
  /\ e.named
=============================================================================
