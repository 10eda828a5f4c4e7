--------------------------- MODULE SystemDetector ---------------------------
(***************************************************************************)
(* The detector for sustained CPU or memory load                           *)
(* (app/triggers/system_detector.py).                                      *)
(*                                                                         *)
(* It sees the metric samples one after the other, remembers since when    *)
(* they have been breaching, and is disarmed between its trigger and the   *)
(* next sample below the thresholds.  What it ought to do is stated over   *)
(* the history of the samples, which the code does not keep.               *)
(***************************************************************************)
EXTENDS Integers, Sequences

CONSTANTS
  SustainedFor,  \* triggers.system_detector.sustained_seconds
  Gaps,          \* the times that may pass between two samples
  MaxSamples     \* bound: length of the history

ASSUME DetectorAssumption ==
  /\ SustainedFor \in Nat
  /\ Gaps \subseteq Nat
  /\ MaxSamples \in Nat

(* No breach is going on. *)
Never == -1

VARIABLES
  since,     \* _breach_started_at
  armed,     \* _armed
  samples,   \* history: time of each sample, and whether it is breaching
  fired,     \* history: the samples on which the detector fired
  accepted   \* history: the samples whose trigger opened an incident

vars == <<since, armed, samples, fired, accepted>>

Init ==
  /\ since = Never
  /\ armed = TRUE
  /\ samples = <<>>
  /\ fired = {}
  /\ accepted = {}

Clock == IF samples = <<>> THEN 0 ELSE samples[Len(samples)].at

(* The next event of type system.metrics is dispatched to the detector.    *)
Sample(at, breaching) ==
  /\ Len(samples) < MaxSamples
  /\ samples' = Append(samples, [at |-> at, breaching |-> breaching])

(* Both metrics are below their thresholds: the detector is armed again. *)
Calm(at) ==
  /\ Sample(at, FALSE)
  /\ since' = Never
  /\ armed' = TRUE
  /\ UNCHANGED <<fired, accepted>>

BreachSince(at) == IF since = Never THEN at ELSE since

Due(at) == armed /\ at - BreachSince(at) >= SustainedFor

(* A metric is over its threshold, but not for long enough, or the spike   *)
(* was reported before.                                                    *)
Breach(at) ==
  /\ Sample(at, TRUE)
  /\ ~Due(at)
  /\ since' = BreachSince(at)
  /\ UNCHANGED <<armed, fired, accepted>>

(* Mutant: the detector is not disarmed. *)
FireArmed(at, free) ==
  /\ Sample(at, TRUE)
  /\ Due(at)
  /\ since' = BreachSince(at)
  /\ fired' = fired \cup {Len(samples')}
  /\ accepted' = IF free THEN accepted \cup {Len(samples')} ELSE accepted
  /\ UNCHANGED armed

(* The spike has lasted long enough: disarm, then call handle_trigger,     *)
(* which opens an incident when a slot is free and drops the trigger when  *)
(* none is.                                                                *)
Fire(at, free) ==
  /\ Sample(at, TRUE)
  /\ Due(at)
  /\ since' = BreachSince(at)
  /\ armed' = FALSE
  /\ fired' = fired \cup {Len(samples')}
  /\ accepted' = IF free THEN accepted \cup {Len(samples')} ELSE accepted

(* The bound on the history is reached. *)
Quiesce == Len(samples) = MaxSamples /\ UNCHANGED vars

Next ==
  \/ \E gap \in Gaps :
       LET at == Clock + gap IN
       \/ Calm(at)
       \/ Breach(at)
       \/ \E free \in BOOLEAN : Fire(at, free)
  \/ Quiesce

Spec == Init /\ [][Next]_vars

-----------------------------------------------------------------------------
(***************************************************************************)
(* Properties.                                                             *)
(***************************************************************************)

(* All samples from m to n are breaching. *)
SpikeFrom(m, n) == \A i \in m..n : samples[i].breaching

(* At sample n, the spike it belongs to has lasted SustainedFor.           *)
Sustained(n) ==
  \E m \in 1..n : SpikeFrom(m, n) /\ samples[n].at - samples[m].at >= SustainedFor

(* "Fires when CPU or memory stays above threshold for sustained_seconds.  *)
(* Re-arms only after the metric drops back": the detector fires on        *)
(* exactly those samples at which a spike becomes sustained, once for      *)
(* each spike, however the samples are spaced.                             *)
FiresWhenSustained ==
  \A n \in DOMAIN samples :
    n \in fired <=> Sustained(n) /\ ~(n > 1 /\ Sustained(n - 1))

(* What the docstring of SystemDetector says of the outcome ("one          *)
(* sustained spike produces exactly one incident"): a spike that has       *)
(* become sustained has opened an incident.                                *)
OneIncidentPerSpike ==
  \A n \in DOMAIN samples : Sustained(n) =>
    \E k \in accepted : k <= n /\ SpikeFrom(k, n)
=============================================================================
