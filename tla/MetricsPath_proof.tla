------------------------- MODULE MetricsPath_proof -------------------------
(***************************************************************************)
(* Proofs about SystemDetector and about MetricsPath, which puts it at the *)
(* end of the native sampler, the pipe and the reader thread.              *)
(*                                                                         *)
(* The detector: its two variables are enough to tell when a spike becomes *)
(* sustained, for any thresholds and any spacing of the samples.           *)
(*                                                                         *)
(* The path: what the sampler subtracts is what the machine spent since    *)
(* the last reading (SpentInv), so a line printed tells whether the load   *)
(* was over the threshold, and keeps telling it in the pipe (LinesInv).    *)
(***************************************************************************)
EXTENDS MetricsPath, TLAPS

-----------------------------------------------------------------------------
(***************************************************************************)
(* The detector.                                                           *)
(***************************************************************************)

Metrics == [at : Nat, breaching : BOOLEAN]
Samples == Seq(Metrics)

TypeInv ==
  /\ samples \in Samples
  /\ since \in Nat \cup {Never}
  /\ armed \in BOOLEAN
  /\ fired \subseteq DOMAIN samples

Ordered == \A i, j \in DOMAIN samples : i <= j => samples[i].at <= samples[j].at

Last == Len(samples)

(* The spike that the last sample belongs to began with sample m. *)
Began(m) ==
  /\ SpikeFrom(m, Last)
  /\ m > 1 => ~samples[m - 1].breaching

(* since is the time of that sample, or Never when there is no spike.      *)
SinceInv ==
  /\ since = Never /\ Last > 0 => ~samples[Last].breaching
  /\ since # Never => \E m \in 1..Last : Began(m) /\ samples[m].at = since

(* The detector is disarmed while the last sample is part of a sustained   *)
(* spike.                                                                  *)
ArmedInv == armed <=> ~(Last > 0 /\ Sustained(Last))

DetectorInv == TypeInv /\ Ordered /\ SinceInv /\ ArmedInv /\ FiresWhenSustained

-----------------------------------------------------------------------------
LEMMA DetectorInit == Init => DetectorInv
BY DEF Init, DetectorInv, TypeInv, Samples, Ordered, SinceInv, ArmedInv, Last,
       FiresWhenSustained, Never

LEMMA SeqElements ==
  ASSUME NEW S, NEW s \in Seq(S)
  PROVE  /\ Len(s) \in Nat /\ DOMAIN s = 1..Len(s)
         /\ \A i \in 1..Len(s) : s[i] \in S
OBVIOUS

LEMMA EmptySeq ==
  ASSUME NEW S, NEW s \in Seq(S)
  PROVE  s = <<>> \/ Len(s) \in 1..Len(s)
OBVIOUS

LEMMA SeqAppend ==
  ASSUME NEW S, NEW s \in Seq(S), NEW e \in S
  PROVE  /\ Append(s, e) \in Seq(S) /\ Len(Append(s, e)) = Len(s) + 1
         /\ Append(s, e)[Len(s) + 1] = e
         /\ \A i \in 1..Len(s) : Append(s, e)[i] = s[i]
OBVIOUS

(* What Append does to the history. *)
LEMMA Appended ==
  ASSUME TypeInv, Ordered, NEW gap \in Nat, NEW b \in BOOLEAN,
         Sample(Clock + gap, b)
  PROVE  /\ samples' \in Samples
         /\ Last' = Last + 1
         /\ Last \in Nat
         /\ samples'[Last + 1].at = Clock + gap
         /\ samples'[Last + 1].breaching = b
         /\ \A i \in 1..Last : samples'[i] = samples[i]
         /\ \A i \in 1..Last : samples[i].at <= Clock + gap
         /\ Clock + gap \in Nat
         /\ Ordered'
<1>1. /\ samples \in Samples /\ Last \in Nat
      /\ DOMAIN samples = 1..Last
      /\ \A i \in 1..Last : samples[i] \in Metrics
  BY SeqElements DEF TypeInv, Samples, Last
<1>2. /\ Clock \in Nat /\ Clock + gap \in Nat
      /\ \A i \in 1..Last : samples[i].at \in Nat /\ samples[i].at <= Clock
  BY <1>1 DEF Ordered, Clock, Last, Metrics
<1>3. [at |-> Clock + gap, breaching |-> b] \in Metrics
  BY <1>2 DEF Metrics
<1>4. samples' = Append(samples, [at |-> Clock + gap, breaching |-> b])
  BY DEF Sample
<1>5. /\ samples' \in Samples /\ Last' = Last + 1
      /\ samples'[Last + 1] = [at |-> Clock + gap, breaching |-> b]
      /\ \A i \in 1..Last : samples'[i] = samples[i]
  BY <1>1, <1>3, <1>4, SeqAppend DEF Samples, Last
<1>6. DOMAIN samples' = 1..(Last + 1)
  BY <1>5, SeqElements DEF Samples, Last
<1>7. /\ samples'[Last + 1].at = Clock + gap
      /\ samples'[Last + 1].breaching = b
  BY <1>5
<1>8. \A i \in 1..Last : samples[i].at <= Clock + gap
  BY <1>2
<1>9. ASSUME NEW i \in 1..(Last + 1), NEW j \in 1..(Last + 1), i <= j
      PROVE  samples'[i].at <= samples'[j].at
  <2>1. CASE j \in 1..Last
    <3>1. i \in 1..Last
      BY <1>1, <1>9, <2>1
    <3> QED BY <1>1, <1>5, <1>9, <2>1, <3>1 DEF Ordered
  <2>2. CASE i \in 1..Last /\ j = Last + 1
    BY <1>5, <1>7, <1>8, <2>2
  <2>3. CASE i = Last + 1 /\ j = Last + 1
    BY <1>2, <1>7, <2>3
  <2> QED BY <1>1, <1>9, <2>1, <2>2, <2>3
<1>10. Ordered'
  BY <1>6, <1>9 DEF Ordered
<1> QED BY <1>1, <1>2, <1>5, <1>7, <1>8, <1>10

(* What was sustained stays so when a sample is appended. *)
LEMMA SustainedStays ==
  ASSUME \A i \in 1..Last : samples'[i] = samples[i], Last \in Nat
  PROVE  \A n \in 1..Last : Sustained(n)' <=> Sustained(n)
<1> SUFFICES ASSUME NEW n \in 1..Last PROVE Sustained(n)' <=> Sustained(n)
  OBVIOUS
<1>1. \A m \in 1..n : \A i \in m..n : i \in 1..Last
  OBVIOUS
<1>2. \A m \in 1..n : SpikeFrom(m, n)' <=> SpikeFrom(m, n)
  BY <1>1 DEF SpikeFrom
<1> QED BY <1>2 DEF Sustained

(* The first sample of a spike decides whether it is sustained. *)
FirstDecides ==
  samples \in Samples /\ Ordered => \A m \in 1..Last : Began(m) =>
    (Sustained(Last) <=> samples[Last].at - samples[m].at >= SustainedFor)

LEMMA SustainedSinceBegan == FirstDecides
<1> SUFFICES ASSUME samples \in Samples, Ordered, NEW m \in 1..Last, Began(m)
             PROVE  Sustained(Last) <=> samples[Last].at - samples[m].at >= SustainedFor
  BY DEF FirstDecides
<1>1. /\ Last \in Nat /\ DOMAIN samples = 1..Last
      /\ \A i \in 1..Last : samples[i].at \in Nat
  <2>1. /\ Last \in Nat /\ DOMAIN samples = 1..Last
        /\ \A i \in 1..Last : samples[i] \in Metrics
    BY SeqElements DEF Samples, Last
  <2> QED BY <2>1 DEF Metrics
<1>2. \A k \in 1..Last : SpikeFrom(k, Last) => m <= k
  <2> SUFFICES ASSUME NEW k \in 1..Last, SpikeFrom(k, Last), k < m PROVE FALSE
    BY <1>1
  <2>1. m > 1 /\ m - 1 \in k..Last
    BY <1>1
  <2> QED BY <2>1 DEF SpikeFrom, Began
<1>3. \A k \in 1..Last : SpikeFrom(k, Last) => samples[m].at <= samples[k].at
  BY <1>1, <1>2 DEF Ordered
<1>4. SpikeFrom(m, Last)
  BY DEF Began
<1> QED BY <1>1, <1>3, <1>4, DetectorAssumption DEF Sustained

(* The history of firings is right after a step in which sample N + 1 was  *)
(* appended and the detector fired if and only if the spike became         *)
(* sustained.                                                              *)
LEMMA HistoryStep ==
  ASSUME TypeInv, FiresWhenSustained, samples' \in Samples,
         NEW N \in Nat, N = Last, Last' = N + 1,
         \A i \in 1..N : samples'[i] = samples[i],
         fired' \in {fired, fired \cup {N + 1}},
         N + 1 \in fired' <=> Sustained(N + 1)' /\ ~(N > 0 /\ Sustained(N))
  PROVE  FiresWhenSustained' /\ fired' \subseteq DOMAIN samples'
<1>1. DOMAIN samples = 1..N /\ DOMAIN samples' = 1..(N + 1)
  BY SeqElements DEF TypeInv, Samples, Last
<1>2. \A n \in 1..N : Sustained(n)' <=> Sustained(n)
  BY SustainedStays
<1>3. \A n \in 1..N : n \in fired' <=> n \in fired
  OBVIOUS
<1>4. fired' \subseteq 1..(N + 1)
  BY <1>1 DEF TypeInv
<1>5. \A n \in 1..N : n \in fired' <=> Sustained(n)' /\ ~(n > 1 /\ Sustained(n - 1)')
  <2> SUFFICES ASSUME NEW n \in 1..N
               PROVE  n \in fired' <=> Sustained(n)' /\ ~(n > 1 /\ Sustained(n - 1)')
    OBVIOUS
  <2>1. n \in fired <=> Sustained(n) /\ ~(n > 1 /\ Sustained(n - 1))
    BY <1>1 DEF FiresWhenSustained
  <2>2. n > 1 => n - 1 \in 1..N
    OBVIOUS
  <2> QED BY <1>2, <1>3, <2>1, <2>2
<1>6. N + 1 > 1 /\ Sustained(N + 1 - 1)' <=> N > 0 /\ Sustained(N)
  <2>1. CASE N = 0
    BY <2>1
  <2>2. CASE N > 0
    <3>1. N \in 1..N /\ N + 1 - 1 = N /\ N + 1 > 1
      BY <2>2
    <3>2. Sustained(N + 1 - 1)' <=> Sustained(N)'
      BY <3>1 DEF Sustained
    <3> QED BY <1>2, <2>2, <3>1, <3>2
  <2> QED BY <2>1, <2>2
<1>7. \A n \in 1..(N + 1) : n \in 1..N \/ n = N + 1
  OBVIOUS
<1>8. \A n \in 1..(N + 1) :
        n \in fired' <=> Sustained(n)' /\ ~(n > 1 /\ Sustained(n - 1)')
  <2> SUFFICES ASSUME NEW n \in 1..(N + 1)
               PROVE  n \in fired' <=> Sustained(n)' /\ ~(n > 1 /\ Sustained(n - 1)')
    OBVIOUS
  <2>1. CASE n \in 1..N
    BY <1>5, <2>1
  <2>2. CASE n = N + 1
    <3>1. n \in fired' <=> Sustained(N + 1)' /\ ~(N > 0 /\ Sustained(N))
      BY <2>2
    <3>2. Sustained(n)' <=> Sustained(N + 1)'
      BY <2>2 DEF Sustained
    <3>3. n > 1 /\ Sustained(n - 1)' <=> N + 1 > 1 /\ Sustained(N + 1 - 1)'
      BY <2>2 DEF Sustained
    <3> QED BY <1>6, <3>1, <3>2, <3>3
  <2> QED BY <1>7, <2>1, <2>2
<1> QED BY <1>1, <1>4, <1>8 DEF FiresWhenSustained

(* A sample below the thresholds ends the spike. *)
LEMMA CalmStep ==
  ASSUME DetectorInv, NEW gap \in Nat, NEW at, at = Clock + gap,
         Calm(at)
  PROVE  DetectorInv'
<1>1. PICK N \in Nat : N = Last
  BY SeqElements DEF DetectorInv, TypeInv, Samples, Last
<1>2. /\ samples' \in Samples /\ Last' = N + 1 /\ Ordered'
      /\ samples'[N + 1].breaching = FALSE
      /\ \A i \in 1..N : samples'[i] = samples[i]
  BY <1>1, Appended DEF DetectorInv, Calm
<1>3. ~Sustained(N + 1)'
  BY <1>2 DEF Sustained, SpikeFrom
<1>4. N + 1 \notin fired' /\ fired' = fired
  BY <1>1, SeqElements DEF Calm, DetectorInv, TypeInv, Samples, Last
<1>5. FiresWhenSustained' /\ fired' \subseteq DOMAIN samples'
  BY <1>1, <1>2, <1>3, <1>4, HistoryStep DEF DetectorInv
<1>6. TypeInv'
  BY <1>2, <1>5 DEF TypeInv, Calm
<1>7. SinceInv'
  BY <1>2 DEF SinceInv, Calm
<1>8. ArmedInv'
  <2>1. Sustained(Last)' <=> Sustained(N + 1)'
    BY <1>2 DEF Sustained
  <2> QED BY <1>3, <2>1 DEF ArmedInv, Calm
<1> QED BY <1>2, <1>5, <1>6, <1>7, <1>8 DEF DetectorInv

(* A sample over a threshold begins a spike or goes on with one; since is  *)
(* right either way, and the spike is sustained when since is long ago.    *)
LEMMA SpikeGoesOn ==
  ASSUME DetectorInv, NEW gap \in Nat, NEW at, at = Clock + gap,
         Sample(at, TRUE),
         since' = BreachSince(at), NEW N \in Nat, N = Last
  PROVE  /\ since' \in Nat /\ SinceInv'
         /\ Sustained(N + 1)' <=> at - since' >= SustainedFor
         /\ N > 0 /\ Sustained(N) => Sustained(N + 1)'
<1>1. /\ samples' \in Samples /\ Last' = N + 1 /\ Ordered'
      /\ samples'[N + 1].at = at /\ samples'[N + 1].breaching = TRUE
      /\ \A i \in 1..N : samples'[i] = samples[i]
      /\ \A i \in 1..N : samples[i].at <= at
      /\ at \in Nat
  BY Appended DEF DetectorInv
<1>2. PICK m \in 1..(N + 1) : Began(m)' /\ samples'[m].at = since'
  <2>1. CASE since = Never
    <3>1. since' = at
      BY <2>1 DEF BreachSince
    <3>2. N > 0 => ~samples[N].breaching
      BY <2>1 DEF DetectorInv, SinceInv
    <3>3. Began(N + 1)'
      BY <1>1, <3>2 DEF Began, SpikeFrom
    <3> QED BY <1>1, <3>1, <3>3
  <2>2. CASE since # Never
    <3>1. PICK k \in 1..N : Began(k) /\ samples[k].at = since
      BY <2>2 DEF DetectorInv, SinceInv
    <3>2. \A i \in k..(N + 1) : i \in k..N \/ i = N + 1
      OBVIOUS
    <3>3. \A i \in k..N : i \in 1..N
      OBVIOUS
    <3>4. SpikeFrom(k, Last)'
      BY <1>1, <3>1, <3>2, <3>3 DEF Began, SpikeFrom
    <3>5. k > 1 => k - 1 \in 1..N
      OBVIOUS
    <3>6. Began(k)'
      BY <1>1, <3>1, <3>4, <3>5 DEF Began
    <3>7. since' = since
      BY <2>2 DEF BreachSince
    <3> QED BY <1>1, <3>1, <3>6, <3>7
  <2> QED BY <2>1, <2>2
<1>3. since' \in Nat
  BY <1>1 DEF DetectorInv, TypeInv, BreachSince
<1>4. SinceInv'
  BY <1>1, <1>2, <1>3 DEF SinceInv, Never
<1>5. Sustained(Last)' <=> samples'[Last'].at - samples'[m].at >= SustainedFor
  <2>1. FirstDecides'
    BY SustainedSinceBegan, PTL
  <2> QED BY <1>1, <1>2, <2>1 DEF FirstDecides
<1>6. Sustained(Last)' <=> Sustained(N + 1)'
  BY <1>1 DEF Sustained
<1>7. Sustained(N + 1)' <=> at - since' >= SustainedFor
  <2>1. samples'[Last'].at - samples'[m].at = at - since'
    BY <1>1, <1>2, <1>3
  <2> QED BY <1>5, <1>6, <2>1
<1>8. ASSUME N > 0, Sustained(N) PROVE Sustained(N + 1)'
  <2>1. PICK k \in 1..N : SpikeFrom(k, N) /\ samples[N].at - samples[k].at >= SustainedFor
    BY <1>8 DEF Sustained
  <2>2. \A i \in k..(N + 1) : i \in k..N \/ i = N + 1
    OBVIOUS
  <2>3. SpikeFrom(k, N + 1)'
    BY <1>1, <2>1, <2>2 DEF SpikeFrom
  <2>4. samples[N].at \in Nat /\ samples[k].at \in Nat
    <3>1. \A i \in 1..N : samples[i] \in Metrics
      BY SeqElements DEF DetectorInv, TypeInv, Samples, Last
    <3> QED BY <1>8, <3>1 DEF Metrics
  <2>5. samples'[N + 1].at - samples'[k].at >= SustainedFor
    BY <1>1, <1>8, <2>1, <2>4, DetectorAssumption
  <2> QED BY <2>3, <2>5 DEF Sustained
<1> QED BY <1>3, <1>4, <1>7, <1>8

(* A breaching sample that does not fire. *)
LEMMA BreachStep ==
  ASSUME DetectorInv, NEW gap \in Nat, NEW at, at = Clock + gap,
         Breach(at)
  PROVE  DetectorInv'
<1>1. PICK N \in Nat : N = Last
  BY SeqElements DEF DetectorInv, TypeInv, Samples, Last
<1>2. /\ samples' \in Samples /\ Last' = N + 1 /\ Ordered'
      /\ \A i \in 1..N : samples'[i] = samples[i]
  BY <1>1, Appended DEF DetectorInv, Breach
<1>3. /\ since' \in Nat /\ SinceInv'
      /\ Sustained(N + 1)' <=> at - since' >= SustainedFor
      /\ N > 0 /\ Sustained(N) => Sustained(N + 1)'
  BY <1>1, SpikeGoesOn DEF Breach
<1>4. armed => ~Sustained(N + 1)'
  <2>1. armed => ~(at - since' >= SustainedFor)
    BY DEF Breach, Due
  <2> QED BY <1>3, <2>1
<1>5. armed <=> ~(N > 0 /\ Sustained(N))
  BY <1>1 DEF DetectorInv, ArmedInv
<1>6. N + 1 \notin fired' /\ fired' = fired
  BY <1>1, SeqElements DEF Breach, DetectorInv, TypeInv, Samples, Last
<1>7. N + 1 \in fired' <=> Sustained(N + 1)' /\ ~(N > 0 /\ Sustained(N))
  BY <1>4, <1>5, <1>6
<1>8. FiresWhenSustained' /\ fired' \subseteq DOMAIN samples'
  BY <1>1, <1>2, <1>6, <1>7, HistoryStep DEF DetectorInv
<1>9. ArmedInv'
  <2>1. Sustained(Last)' <=> Sustained(N + 1)'
    BY <1>2 DEF Sustained
  <2>2. armed' = armed
    BY DEF Breach
  <2>3. armed <=> ~Sustained(N + 1)'
    BY <1>3, <1>4, <1>5
  <2> QED BY <1>2, <2>1, <2>2, <2>3 DEF ArmedInv
<1>10. TypeInv'
  BY <1>2, <1>3, <1>8 DEF DetectorInv, TypeInv, Breach
<1> QED BY <1>2, <1>3, <1>8, <1>9, <1>10 DEF DetectorInv

(* The sample on which the detector fires. *)
LEMMA FireStep ==
  ASSUME DetectorInv, NEW gap \in Nat, NEW at, at = Clock + gap,
         NEW free, Fire(at, free)
  PROVE  DetectorInv'
<1>1. PICK N \in Nat : N = Last
  BY SeqElements DEF DetectorInv, TypeInv, Samples, Last
<1>2. /\ samples' \in Samples /\ Last' = N + 1 /\ Ordered'
      /\ \A i \in 1..N : samples'[i] = samples[i]
  BY <1>1, Appended DEF DetectorInv, Fire
<1>3. /\ since' \in Nat /\ SinceInv'
      /\ Sustained(N + 1)' <=> at - since' >= SustainedFor
  BY <1>1, SpikeGoesOn DEF Fire
<1>4. armed /\ Sustained(N + 1)'
  <2>1. armed /\ at - since' >= SustainedFor
    BY DEF Fire, Due
  <2> QED BY <1>3, <2>1
<1>5. ~(N > 0 /\ Sustained(N))
  BY <1>1, <1>4 DEF DetectorInv, ArmedInv
<1>6. fired' = fired \cup {N + 1}
  BY <1>2 DEF Fire, Last
<1>7. N + 1 \in fired' <=> Sustained(N + 1)' /\ ~(N > 0 /\ Sustained(N))
  BY <1>4, <1>5, <1>6
<1>8. FiresWhenSustained' /\ fired' \subseteq DOMAIN samples'
  BY <1>1, <1>2, <1>6, <1>7, HistoryStep DEF DetectorInv
<1>9. ArmedInv'
  <2>1. Sustained(Last)' <=> Sustained(N + 1)'
    BY <1>2 DEF Sustained
  <2> QED BY <1>2, <1>4, <2>1 DEF ArmedInv, Fire
<1>10. TypeInv'
  BY <1>2, <1>3, <1>8 DEF TypeInv, Fire
<1> QED BY <1>2, <1>3, <1>8, <1>9, <1>10 DEF DetectorInv

LEMMA DetectorStep == DetectorInv /\ [Next]_vars => DetectorInv'
<1> SUFFICES ASSUME DetectorInv, [Next]_vars PROVE DetectorInv'
  OBVIOUS
<1>1. CASE \E gap \in Gaps : Calm(Clock + gap)
  BY <1>1, CalmStep, DetectorAssumption
<1>2. CASE \E gap \in Gaps : Breach(Clock + gap)
  BY <1>2, BreachStep, DetectorAssumption
<1>3. CASE \E gap \in Gaps, free \in BOOLEAN : Fire(Clock + gap, free)
  BY <1>3, FireStep, DetectorAssumption
<1>4. CASE UNCHANGED vars
  BY <1>4 DEF vars, DetectorInv, TypeInv, Ordered, SinceInv, ArmedInv, Began,
              Last, FiresWhenSustained, Sustained, SpikeFrom
<1> QED BY <1>1, <1>2, <1>3, <1>4 DEF Next, Quiesce

(* The detector fires on exactly the samples at which a spike becomes      *)
(* sustained, for every threshold and every spacing of the samples.        *)
THEOREM FiresWhenSustainedHolds == Spec => []FiresWhenSustained
<1>1. Spec => []DetectorInv
  BY DetectorInit, DetectorStep, PTL DEF Spec
<1>2. DetectorInv => FiresWhenSustained
  BY DEF DetectorInv
<1> QED BY <1>1, <1>2, PTL

-----------------------------------------------------------------------------
(***************************************************************************)
(* The path.                                                               *)
(***************************************************************************)

Readings == [Counters -> 0..(TickMod - 1)]
Spendings == [busy : Nat, total : Nat, wrapped : BOOLEAN]
Reports == [over : BOOLEAN, read : BOOLEAN, wrapped : BOOLEAN]

PathTypes ==
  /\ now \in Nat
  /\ ticks \in Readings /\ previous \in Readings /\ primed \in BOOLEAN
  /\ spent \in Spendings /\ spent.busy <= spent.total
  /\ pipe \in Seq(Int) /\ lines \in Seq(Reports)

(* Nothing runs before start, and nothing is spent.                        *)
ChildInv == reader = "none" => child = "none" /\ spent = Nothing

(* Unless a counter wrapped, it stands where the last reading found it,    *)
(* plus what was spent since.                                              *)
SpentInv ==
  primed /\ ~spent.wrapped =>
    /\ ticks["busy"] = previous["busy"] + spent.busy
    /\ ticks["idle"] = previous["idle"] + (spent.total - spent.busy)

Faithful(line) == line.read /\ ~line.wrapped

(* The lines printed are the samples and, behind them, the pipe.           *)
LinesInv ==
  /\ Len(lines) = Len(samples) + Len(pipe)
  /\ \A k \in 1..Len(samples) :
       Faithful(lines[k]) => (samples[k].breaching <=> lines[k].over)
  /\ \A k \in 1..Len(pipe) :
       LET line == lines[Len(samples) + k] IN
       Faithful(line) => (pipe[k] >= 100 * Threshold <=> line.over)

PathInv ==
  /\ DetectorInv
  /\ PathTypes
  /\ Clock <= now
  /\ ChildInv
  /\ SpentInv
  /\ LinesInv

-----------------------------------------------------------------------------
LEMMA PathStarts == PathInit => PathInv
<1> SUFFICES ASSUME PathInit PROVE PathInv
  OBVIOUS
<1>1. DetectorInv
  BY DetectorInit DEF PathInit
<1>2. PathTypes
  <2>1. TickMod \in Nat /\ TickMod > 0
    BY PathAssumption
  <2>2. ticks \in Readings /\ previous \in Readings
    BY <2>1 DEF PathInit, Readings
  <2>3. spent \in Spendings /\ spent.busy <= spent.total /\ now \in Nat
    BY DEF PathInit, Spendings, Nothing
  <2>4. pipe \in Seq(Int) /\ lines \in Seq(Reports)
    BY DEF PathInit
  <2>5. primed \in BOOLEAN
    BY DEF PathInit
  <2> QED BY <2>2, <2>3, <2>4, <2>5 DEF PathTypes
<1>3. Clock <= now
  BY DEF PathInit, Init, Clock
<1>4. ChildInv /\ SpentInv /\ LinesInv
  BY DEF PathInit, Init, ChildInv, SpentInv, LinesInv
<1> QED BY <1>1, <1>2, <1>3, <1>4 DEF PathInv

(* An interval of which b ticks are busy, for counters that do not wrap.   *)
LEMMA IntervalSpent ==
  ASSUME PathTypes, NEW b \in 0..PerInterval, Run(b)
  PROVE  /\ now' \in Nat /\ now < now'
         /\ ticks' \in Readings
         /\ Spend(b) \in Spendings /\ Spend(b).busy <= Spend(b).total
         /\ Spend(b).busy = spent.busy + b
         /\ Spend(b).total = spent.total + PerInterval
         /\ ~Spend(b).wrapped =>
              /\ ~spent.wrapped
              /\ ticks'["busy"] = ticks["busy"] + b
              /\ ticks'["idle"] = ticks["idle"] + (PerInterval - b)
<1>1. /\ ticks["busy"] \in 0..(TickMod - 1) /\ ticks["idle"] \in 0..(TickMod - 1)
      /\ TickMod \in Nat /\ TickMod > 0 /\ PerInterval \in Nat
      /\ spent.busy \in Nat /\ spent.total \in Nat /\ spent.wrapped \in BOOLEAN
  BY PathAssumption DEF PathTypes, Readings, Counters, Spendings
<1>2. \A t \in Int : t % TickMod \in 0..(TickMod - 1)
  BY <1>1
<1>3. \A t \in Nat : t < TickMod => t % TickMod = t
  BY <1>1
<1>4. ticks' \in Readings
  BY <1>1, <1>2 DEF Run, Readings, Counters
<1>5. /\ Spend(b).busy = spent.busy + b
      /\ Spend(b).total = spent.total + PerInterval
      /\ Spend(b).wrapped \in BOOLEAN
  BY <1>1 DEF Spend
<1>6. Spend(b) \in Spendings
  BY <1>1, <1>5 DEF Spend, Spendings
<1>7. spent.busy + b <= spent.total + PerInterval
  BY <1>1 DEF PathTypes
<1>8. ASSUME ~Spend(b).wrapped
      PROVE  /\ ~spent.wrapped
             /\ ticks["busy"] + b < TickMod
             /\ ticks["idle"] + PerInterval - b < TickMod
  <2>1. /\ ~spent.wrapped
        /\ ~(ticks["busy"] + b >= TickMod)
        /\ ~(ticks["idle"] + PerInterval - b >= TickMod)
    BY <1>8, Zenon DEF Spend
  <2> QED BY <1>1, <2>1
<1>9. ASSUME ~Spend(b).wrapped
      PROVE  /\ ticks'["busy"] = ticks["busy"] + b
             /\ ticks'["idle"] = ticks["idle"] + (PerInterval - b)
  BY <1>1, <1>3, <1>8, <1>9 DEF Run
<1>10. now' \in Nat /\ now < now'
  BY DEF PathTypes, Run
<1> QED BY <1>4, <1>5, <1>6, <1>7, <1>8, <1>9, <1>10

(* The unsigned differences are what was spent since the last reading: no  *)
(* difference, and no sum of two, is cut off.                              *)
LEMMA DifferenceIsSpent ==
  ASSUME PathTypes, SpentInv, NEW b \in 0..PerInterval, Run(b),
         primed, ~Spend(b).wrapped
  PROVE  CpuPercent = Hundredths(Spend(b).busy, Spend(b).total)
<1>1. /\ ticks'["busy"] \in 0..(TickMod - 1) /\ ticks'["idle"] \in 0..(TickMod - 1)
      /\ previous["busy"] \in 0..(TickMod - 1) /\ previous["idle"] \in 0..(TickMod - 1)
      /\ ticks["busy"] \in Nat /\ ticks["idle"] \in Nat
      /\ spent.busy \in Nat /\ spent.total \in Nat /\ spent.busy <= spent.total
      /\ TickMod \in Nat /\ DiffMod \in Nat /\ PerInterval \in Nat
      /\ 2 * TickMod <= DiffMod /\ TickMod > 0
  <2>1. ticks' \in Readings
    BY IntervalSpent
  <2>2. ticks \in Readings /\ previous \in Readings /\ spent \in Spendings
        /\ spent.busy <= spent.total
    BY DEF PathTypes
  <2> QED BY <2>1, <2>2, PathAssumption DEF Readings, Counters, Spendings
<1>2. /\ ticks'["busy"] - previous["busy"] = Spend(b).busy
      /\ ticks'["idle"] - previous["idle"] = Spend(b).total - Spend(b).busy
      /\ Spend(b).busy \in Nat /\ Spend(b).total - Spend(b).busy \in Nat
      /\ Spend(b).total \in Nat
  BY <1>1, IntervalSpent DEF SpentInv
<1>3. \A t \in Nat : t < DiffMod => t % DiffMod = t
  BY <1>1
<1>4. /\ Spend(b).busy < TickMod
      /\ Spend(b).total - Spend(b).busy < TickMod
  BY <1>1, <1>2
<1>5. /\ Diff("busy") = Spend(b).busy
      /\ Diff("idle") = Spend(b).total - Spend(b).busy
  BY <1>1, <1>2, <1>3, <1>4 DEF Diff
<1>6. (Diff("busy") + Diff("idle")) % DiffMod = Spend(b).total
  BY <1>1, <1>2, <1>3, <1>4, <1>5
<1> QED BY <1>5, <1>6 DEF CpuPercent

LEMMA CpuIsInt ==
  ASSUME PathTypes, NEW b \in 0..PerInterval, Run(b)
  PROVE  CpuPercent \in Int
<1>1. /\ ticks'["busy"] \in Int /\ ticks'["idle"] \in Int
      /\ previous["busy"] \in Int /\ previous["idle"] \in Int
      /\ DiffMod \in Nat /\ DiffMod > 0
  <2>1. ticks' \in Readings /\ previous \in Readings
    BY IntervalSpent DEF PathTypes
  <2> QED BY <2>1, PathAssumption DEF Readings, Counters
<1>2. \A t \in Int : t % DiffMod \in Nat
  BY <1>1
<1>3. Diff("busy") \in Nat /\ Diff("idle") \in Nat
  BY <1>1, <1>2 DEF Diff
<1>4. (Diff("busy") + Diff("idle")) % DiffMod \in Nat
  BY <1>2, <1>3
<1>5. \A busy, total \in Nat : Hundredths(busy, total) \in Int
  BY DEF Hundredths
<1> QED BY <1>3, <1>4, <1>5 DEF CpuPercent

(* A line that is printed goes behind the others, in the pipe and in the   *)
(* history.                                                                *)
LEMMA LinePrinted ==
  ASSUME PathTypes, LinesInv, Len(samples) \in Nat, UNCHANGED samples,
         NEW b, Spend(b) \in Spendings, NEW cpu \in Int, NEW read \in BOOLEAN,
         PrintLine(cpu, b, read),
         read /\ ~Spend(b).wrapped => (cpu >= 100 * Threshold <=> Over(Spend(b)))
  PROVE  pipe' \in Seq(Int) /\ lines' \in Seq(Reports) /\ LinesInv'
<1> DEFINE line == [over |-> Over(Spend(b)), read |-> read, wrapped |-> Spend(b).wrapped]
           N == Len(samples)
           P == Len(pipe)
<1>1. line \in Reports
  BY DEF Reports, Over, Spendings
<1>2. /\ pipe' = Append(pipe, cpu) /\ lines' = Append(lines, line)
      /\ N' = N
  BY DEF PrintLine
<1>3. /\ pipe' \in Seq(Int) /\ P \in Nat /\ P' = P + 1
      /\ pipe'[P + 1] = cpu /\ \A k \in 1..P : pipe'[k] = pipe[k]
  BY <1>2, SeqAppend, SeqElements DEF PathTypes
<1> HIDE DEF line
<1>4. /\ lines' \in Seq(Reports) /\ Len(lines') = Len(lines) + 1
      /\ lines'[Len(lines) + 1] = line
      /\ \A k \in 1..Len(lines) : lines'[k] = lines[k]
  BY <1>1, <1>2, SeqAppend DEF PathTypes
<1>5. Len(lines) = N + P
  BY DEF LinesInv
<1>6. Len(lines') = N' + P'
  BY <1>2, <1>3, <1>4, <1>5
<1>7. ASSUME NEW k \in 1..N', Faithful(lines'[k])
      PROVE  samples'[k].breaching <=> lines'[k].over
  <2>1. k \in 1..N /\ k \in 1..Len(lines)
    BY <1>2, <1>3, <1>5
  <2> QED BY <1>4, <1>7, <2>1 DEF LinesInv
<1>8. ASSUME NEW k \in 1..P', Faithful(lines'[N' + k])
      PROVE  pipe'[k] >= 100 * Threshold <=> lines'[N' + k].over
  <2>1. CASE k \in 1..P
    <3>1. N + k \in 1..Len(lines)
      BY <1>3, <1>5, <2>1
    <3> QED BY <1>2, <1>3, <1>4, <1>8, <2>1, <3>1 DEF LinesInv
  <2>2. CASE k = P + 1
    <3>1. N' + k = Len(lines) + 1
      BY <1>2, <1>3, <1>5, <2>2
    <3>2. Faithful(line) => (cpu >= 100 * Threshold <=> line.over)
      BY DEF line, Faithful
    <3> QED BY <1>3, <1>4, <1>8, <2>2, <3>1, <3>2
  <2> QED BY <1>3, <2>1, <2>2
<1> QED BY <1>3, <1>4, <1>6, <1>7, <1>8 DEF LinesInv

(* What the detector knows is not touched. *)
LEMMA DetectorRests == DetectorInv /\ UNCHANGED vars => DetectorInv' /\ Clock' = Clock
BY DEF vars, DetectorInv, TypeInv, Ordered, SinceInv, ArmedInv, Began, Last,
       FiresWhenSustained, Sustained, SpikeFrom, Clock

LEMMA ClockIsNat == ASSUME DetectorInv PROVE Clock \in Nat /\ Len(samples) \in Nat
<1>1. Len(samples) \in Nat /\ \A k \in 1..Len(samples) : samples[k] \in Metrics
  BY SeqElements DEF DetectorInv, TypeInv, Samples
<1>2. samples = <<>> \/ Len(samples) \in 1..Len(samples)
  BY EmptySeq DEF DetectorInv, TypeInv, Samples
<1> QED BY <1>1, <1>2 DEF Clock, Metrics

LEMMA SampleStep ==
  ASSUME PathInv, NEW b \in 0..PerInterval,
         TakeSample(b) \/ SampleFails(b) \/ SampleResized(b)
  PROVE  PathInv'
<1>1. /\ child = "running" /\ Run(b) /\ UNCHANGED <<vars, child, collector>>
  BY DEF TakeSample, SampleFails, SampleResized
<1>2. /\ DetectorInv /\ PathTypes /\ Clock <= now /\ ChildInv /\ SpentInv /\ LinesInv
  BY DEF PathInv
<1>3. DetectorInv' /\ Clock' = Clock /\ UNCHANGED samples
  BY <1>1, <1>2, DetectorRests DEF vars
<1>4. Clock \in Nat /\ Len(samples) \in Nat
  BY <1>2, ClockIsNat
<1>5. Clock' <= now'
  BY <1>1, <1>2, <1>3, <1>4, IntervalSpent DEF PathTypes
<1>6. /\ ticks' \in Readings /\ Spend(b) \in Spendings
      /\ Spend(b).busy <= Spend(b).total
  BY <1>1, <1>2, IntervalSpent
<1>7. ChildInv'
  BY <1>1, <1>2 DEF ChildInv, collector
<1>8. /\ \/ previous' = ticks' /\ spent' = Nothing
         \/ previous' = previous /\ primed' = primed /\ spent' = Spend(b)
  BY DEF TakeSample, SampleFails, SampleResized, sampler
<1>9. SpentInv'
  <2>1. CASE previous' = ticks' /\ spent' = Nothing
    BY <1>6, <2>1 DEF SpentInv, Nothing, Readings, Counters
  <2>2. CASE previous' = previous /\ primed' = primed /\ spent' = Spend(b)
    <3> SUFFICES ASSUME primed, ~Spend(b).wrapped
                 PROVE  /\ ticks'["busy"] = previous["busy"] + Spend(b).busy
                        /\ ticks'["idle"] = previous["idle"] + (Spend(b).total - Spend(b).busy)
      BY <2>2 DEF SpentInv
    <3>1. /\ ~spent.wrapped
          /\ ticks'["busy"] = ticks["busy"] + b
          /\ ticks'["idle"] = ticks["idle"] + (PerInterval - b)
          /\ Spend(b).busy = spent.busy + b
          /\ Spend(b).total = spent.total + PerInterval
      BY <1>1, <1>2, IntervalSpent
    <3>2. /\ ticks["busy"] = previous["busy"] + spent.busy
          /\ ticks["idle"] = previous["idle"] + (spent.total - spent.busy)
      BY <1>2, <3>1 DEF SpentInv
    <3>3. /\ previous["busy"] \in Nat /\ previous["idle"] \in Nat
          /\ spent.busy \in Nat /\ spent.total \in Nat /\ PerInterval \in Nat
      BY <1>2, PathAssumption DEF PathTypes, Readings, Counters, Spendings
    <3> QED BY <3>1, <3>2, <3>3
  <2> QED BY <1>8, <2>1, <2>2
<1>10. PICK cpu \in Int, read \in BOOLEAN :
         /\ PrintLine(cpu, b, read)
         /\ read /\ ~Spend(b).wrapped => (cpu >= 100 * Threshold <=> Over(Spend(b)))
  <2>1. CASE TakeSample(b) /\ primed = TRUE
    <3>1. PrintLine(CpuPercent, b, TRUE)
      BY <2>1 DEF TakeSample
    <3>2. CpuPercent \in Int
      BY <1>1, <1>2, CpuIsInt
    <3>3. ~Spend(b).wrapped => (CpuPercent >= 100 * Threshold <=> Over(Spend(b)))
      BY <1>1, <1>2, <2>1, DifferenceIsSpent DEF Over
    <3> QED BY <3>1, <3>2, <3>3
  <2>2. CASE TakeSample(b) /\ primed = FALSE
    <3>1. PrintLine(0, b, FALSE)
      BY <2>2 DEF TakeSample
    <3>2. 0 \in Int
      OBVIOUS
    <3> QED BY <3>1, <3>2, Zenon
  <2>3. CASE SampleFails(b) \/ SampleResized(b)
    <3>1. PrintLine(0, b, FALSE)
      BY <2>3 DEF SampleFails, SampleResized
    <3>2. 0 \in Int
      OBVIOUS
    <3> QED BY <3>1, <3>2, Zenon
  <2>4. primed \in BOOLEAN
    BY <1>2 DEF PathTypes
  <2> QED BY <2>1, <2>2, <2>3, <2>4
<1>11. pipe' \in Seq(Int) /\ lines' \in Seq(Reports) /\ LinesInv'
  BY <1>2, <1>3, <1>4, <1>6, <1>10, LinePrinted
<1>12. /\ now' \in Nat /\ previous' \in Readings
       /\ spent' \in Spendings /\ spent'.busy <= spent'.total
  <2>1. Nothing \in Spendings /\ Nothing.busy <= Nothing.total
    BY DEF Nothing, Spendings
  <2>2. now' \in Nat /\ previous \in Readings
    BY <1>1, <1>2, IntervalSpent DEF PathTypes
  <2> QED BY <1>6, <1>8, <2>1, <2>2
<1>13. primed' \in BOOLEAN
  BY <1>2 DEF PathTypes, TakeSample, SampleFails, SampleResized, sampler
<1>14. PathTypes'
  BY <1>6, <1>11, <1>12, <1>13 DEF PathTypes
<1> QED BY <1>3, <1>5, <1>7, <1>9, <1>11, <1>14 DEF PathInv

(* The reader takes the oldest line, and the detector gets a sample that   *)
(* breaches if the line does.                                              *)
LEMMA ReadStep ==
  ASSUME PathInv, ReadLine(TRUE)
  PROVE  PathInv'
<1>1. /\ DetectorInv /\ PathTypes /\ Clock <= now /\ ChildInv /\ SpentInv /\ LinesInv
  BY DEF PathInv
<1>2. UNCHANGED <<machine, sampler, child, collector, spent, lines>>
  BY DEF ReadLine
<1>3. /\ pipe # <<>> /\ pipe' = Tail(pipe) /\ Len(pipe) \in Nat /\ Len(pipe) > 0
      /\ Head(pipe) = pipe[1] /\ pipe' \in Seq(Int) /\ Len(pipe') = Len(pipe) - 1
      /\ \A k \in 1..(Len(pipe) - 1) : pipe'[k] = pipe[k + 1]
      /\ pipe[1] \in Int
  BY <1>1 DEF ReadLine, PathTypes
<1>4. Clock \in Nat /\ now \in Nat /\ Len(samples) \in Nat
  BY <1>1, ClockIsNat DEF PathTypes
<1>5. now - Clock \in Nat /\ now = Clock + (now - Clock)
  BY <1>1, <1>4
<1>6. PICK breaching \in BOOLEAN :
         /\ breaching <=> pipe[1] >= 100 * Threshold
         /\ Sample(now, breaching)
         /\ IF breaching THEN Breach(now) \/ Fire(now, TRUE) ELSE Calm(now)
  BY <1>3 DEF ReadLine, Breach, Fire, Calm
<1>7. DetectorInv'
  BY <1>1, <1>5, <1>6, BreachStep, FireStep, CalmStep
<1>8. /\ samples' = Append(samples, [at |-> now, breaching |-> breaching])
      /\ [at |-> now, breaching |-> breaching] \in Metrics
      /\ samples \in Seq(Metrics)
  BY <1>1, <1>4, <1>6 DEF Sample, Metrics, DetectorInv, TypeInv, Samples
<1>9. /\ samples' \in Seq(Metrics) /\ Len(samples') = Len(samples) + 1
      /\ samples'[Len(samples) + 1].at = now
      /\ samples'[Len(samples) + 1].breaching = breaching
      /\ \A k \in 1..Len(samples) : samples'[k] = samples[k]
  <2>1. /\ samples' \in Seq(Metrics) /\ Len(samples') = Len(samples) + 1
        /\ samples'[Len(samples) + 1] = [at |-> now, breaching |-> breaching]
        /\ \A k \in 1..Len(samples) : samples'[k] = samples[k]
    BY <1>8, SeqAppend
  <2> QED BY <2>1
<1>10. Clock' <= now'
  BY <1>2, <1>4, <1>9 DEF Clock, machine
<1>11. LinesInv'
  <2>1. Len(lines') = Len(samples') + Len(pipe')
    <3>1. Len(lines) = Len(samples) + Len(pipe)
      BY <1>1 DEF LinesInv
    <3> QED BY <1>2, <1>3, <1>4, <1>9, <3>1
  <2>2. ASSUME NEW k \in 1..Len(samples'), Faithful(lines[k])
        PROVE  samples'[k].breaching <=> lines[k].over
    <3>1. CASE k \in 1..Len(samples)
      BY <1>1, <1>9, <2>2, <3>1 DEF LinesInv
    <3>2. CASE k = Len(samples) + 1
      <4>1. 1 \in 1..Len(pipe)
        BY <1>3
      <4>2. pipe[1] >= 100 * Threshold <=> lines[k].over
        BY <1>1, <2>2, <3>2, <4>1 DEF LinesInv
      <4>3. samples'[k].breaching = breaching
        BY <1>9, <3>2
      <4> QED BY <1>6, <4>2, <4>3
    <3> QED BY <1>4, <1>9, <3>1, <3>2
  <2>3. ASSUME NEW k \in 1..Len(pipe'), Faithful(lines[Len(samples') + k])
        PROVE  pipe'[k] >= 100 * Threshold <=> lines[Len(samples') + k].over
    <3>1. k + 1 \in 1..Len(pipe) /\ k \in 1..(Len(pipe) - 1)
      BY <1>3
    <3>2. Len(samples') + k = Len(samples) + (k + 1)
      BY <1>4, <1>9
    <3>3. pipe[k + 1] >= 100 * Threshold <=> lines[Len(samples) + (k + 1)].over
      BY <1>1, <2>3, <3>1, <3>2 DEF LinesInv
    <3> QED BY <1>3, <3>1, <3>2, <3>3
  <2> QED BY <1>2, <2>1, <2>2, <2>3 DEF LinesInv
<1>12. PathTypes'
  BY <1>1, <1>2, <1>3 DEF PathTypes, machine, sampler
<1>13. ChildInv' /\ SpentInv'
  BY <1>1, <1>2 DEF ChildInv, SpentInv, machine, sampler, collector
<1> QED BY <1>7, <1>10, <1>11, <1>12, <1>13 DEF PathInv

(* Neither the detector nor what was printed and not read is touched.      *)
Aside == UNCHANGED <<vars, machine, pipe, spent, lines>>

LEMMA AsideStep ==
  ASSUME PathInv, Aside, ChildInv', SpentInv', previous' \in Readings, primed' \in BOOLEAN
  PROVE  PathInv'
<1>1. DetectorInv' /\ Clock' = Clock
  BY DetectorRests DEF PathInv, Aside
<1>2. PathTypes' /\ LinesInv'
  BY DEF PathInv, Aside, PathTypes, LinesInv, vars, machine
<1> QED BY <1>1, <1>2 DEF PathInv, Aside, machine

LEMMA ControlStep ==
  ASSUME PathInv,
         Start \/ Crash \/ ObeysTerm \/ Dies \/ Gone \/ Stop \/ Stopping
           \/ ReaderStarts \/ ReaderEnds
  PROVE  PathInv'
<1>1. PathTypes /\ ChildInv /\ SpentInv
  BY DEF PathInv
<1>2. CASE Start
  <2>1. Aside /\ reader = "none" /\ UNCHANGED <<ticks, spent>>
        /\ child' = "running" /\ reader' # "none"
    BY <1>2 DEF Start, Aside, machine
  <2>2. \/ previous' = ticks /\ primed' = TRUE
        \/ previous' = previous /\ primed' = primed
    BY <1>2 DEF Start, sampler
  <2>3. previous' \in Readings /\ primed' \in BOOLEAN
    BY <1>1, <2>2 DEF PathTypes
  <2>4. spent = Nothing
    BY <1>1, <2>1 DEF ChildInv
  <2>5. ChildInv'
    BY <2>1, <2>4 DEF ChildInv
  <2>6. SpentInv'
    <3>1. CASE previous' = ticks /\ primed' = TRUE
      <4>1. ticks["busy"] \in Int /\ ticks["idle"] \in Int
        BY <1>1 DEF PathTypes, Readings, Counters
      <4>2. /\ ticks'["busy"] = previous'["busy"] + spent'.busy
            /\ ticks'["idle"] = previous'["idle"] + (spent'.total - spent'.busy)
        BY <2>1, <2>4, <3>1, <4>1 DEF Nothing
      <4> QED BY <4>2 DEF SpentInv
    <3>2. CASE previous' = previous /\ primed' = primed
      BY <1>1, <2>1, <3>2 DEF SpentInv
    <3> QED BY <2>2, <3>1, <3>2
  <2> QED BY <2>1, <2>3, <2>5, <2>6, AsideStep
<1>3. CASE ~Start
  <2>1. Aside /\ UNCHANGED <<ticks, previous, primed, spent>>
    BY <1>3 DEF Crash, ObeysTerm, Dies, Closes, Gone, Stop, Stopping, WaitEnds, WaitExpires,
       Forget, Join, StopTo, ReaderStarts, ReaderEnds, Aside, machine, sampler
  <2>2. previous' \in Readings /\ primed' \in BOOLEAN /\ SpentInv'
    BY <1>1, <2>1 DEF PathTypes, SpentInv
  <2>3. CASE Crash \/ ObeysTerm \/ Dies \/ Gone
    <3>1. ChildInv'
      BY <1>1, <2>1, <2>3 DEF ChildInv, Crash, ObeysTerm, Dies, Closes, Gone, collector
    <3> QED BY <2>1, <2>2, <3>1, AsideStep
  <2>4. CASE Stop \/ Stopping
    <3>1. ChildInv'
      BY <1>1, <2>1, <2>4 DEF ChildInv, Stop, Stopping, WaitEnds, WaitExpires, Forget, Join, StopTo
    <3> QED BY <2>1, <2>2, <3>1, AsideStep
  <2>5. CASE ReaderStarts \/ ReaderEnds
    <3>1. ChildInv'
      BY <1>1, <2>1, <2>5 DEF ChildInv, ReaderStarts, ReaderEnds
    <3> QED BY <2>1, <2>2, <3>1, AsideStep
  <2> QED BY <1>3, <2>3, <2>4, <2>5
<1> QED BY <1>2, <1>3

LEMMA PathStep == PathInv /\ [PathNext]_pathVars => PathInv'
<1> SUFFICES ASSUME PathInv, [PathNext]_pathVars PROVE PathInv'
  OBVIOUS
<1>1. ASSUME NEW b \in 0..PerInterval, TakeSample(b) \/ SampleFails(b) \/ SampleResized(b)
      PROVE  PathInv'
  BY <1>1, SampleStep
<1>2. CASE ReadLine(TRUE)
  BY <1>2, ReadStep
<1>3. CASE Start \/ Crash \/ ObeysTerm \/ Dies \/ Gone \/ Stop \/ Stopping
             \/ ReaderStarts \/ ReaderEnds
  BY <1>3, ControlStep
<1>4. CASE UNCHANGED pathVars
  <2>1. Aside /\ UNCHANGED <<ticks, previous, primed, spent, reader, child>>
    BY <1>4 DEF pathVars, Aside, machine, sampler, collector
  <2>2. ChildInv' /\ SpentInv' /\ previous' \in Readings /\ primed' \in BOOLEAN
    BY <2>1 DEF PathInv, PathTypes, ChildInv, SpentInv
  <2> QED BY <2>1, <2>2, AsideStep
<1> QED BY <1>1, <1>2, <1>3, <1>4 DEF PathNext, Reader

THEOREM PathInvariance == PathSpec => []PathInv
<1>1. PathInit => PathInv
  BY PathStarts
<1>2. PathInv /\ [PathNext]_pathVars => PathInv'
  BY PathStep
<1> QED BY <1>1, <1>2, PTL DEF PathSpec

(* What the detector sees is the load of the machine, for any widths of    *)
(* the counters, length of an interval, threshold and length of the pipe.  *)
THEOREM SamplesTrueHolds == PathSpec => []SamplesTrue
<1>1. PathInv => SamplesTrue
  <2> SUFFICES ASSUME PathInv, NEW k \in DOMAIN samples, lines[k].read, ~lines[k].wrapped
               PROVE  samples[k].breaching = lines[k].over
    BY DEF SamplesTrue
  <2>1. DOMAIN samples = 1..Len(samples) /\ samples[k] \in Metrics
    BY SeqElements DEF PathInv, DetectorInv, TypeInv, Samples
  <2>2. samples[k].breaching <=> lines[k].over
    BY <2>1 DEF PathInv, LinesInv, Faithful
  <2>3. k \in 1..Len(lines) /\ lines[k] \in Reports
    <3>1. /\ Len(samples) \in Nat /\ Len(pipe) \in Nat
          /\ Len(lines) = Len(samples) + Len(pipe)
      BY SeqElements DEF PathInv, DetectorInv, TypeInv, Samples, PathTypes, LinesInv
    <3>2. k \in 1..Len(lines)
      BY <2>1, <3>1
    <3> QED BY <3>2, SeqElements DEF PathInv, PathTypes
  <2>4. samples[k].breaching \in BOOLEAN /\ lines[k].over \in BOOLEAN
    BY <2>1, <2>3 DEF Metrics, Reports
  <2> QED BY <2>2, <2>4
<1> QED BY <1>1, PathInvariance, PTL

(* At the end of the path, where samples come when the reader gets to      *)
(* them, the detector still fires where a spike becomes sustained.         *)
THEOREM PathFiresWhenSustained == PathSpec => []FiresWhenSustained
<1>1. PathInv => FiresWhenSustained
  BY DEF PathInv, DetectorInv
<1> QED BY <1>1, PathInvariance, PTL

(* Between two triggers there was a sample below the threshold.            *)
LEMMA CalmBetween ==
  ASSUME TypeInv, FiresWhenSustained, Ordered, NEW m \in fired, NEW n \in fired, m < n
  PROVE  \E k \in (m + 1)..(n - 1) : ~samples[k].breaching
<1> SUFFICES ASSUME \A k \in (m + 1)..(n - 1) : samples[k].breaching PROVE FALSE
  OBVIOUS
<1>1. /\ Last \in Nat /\ DOMAIN samples = 1..Last /\ m \in 1..Last /\ n \in 1..Last
      /\ \A i \in 1..Last : samples[i] \in Metrics
  BY SeqElements DEF TypeInv, Samples, Last
<1>2. \A i \in 1..Last : samples[i].at \in Nat
  BY <1>1 DEF Metrics
<1>3. Sustained(m) /\ ~(n > 1 /\ Sustained(n - 1))
  BY <1>1 DEF FiresWhenSustained
<1>4. PICK b \in 1..m : SpikeFrom(b, m) /\ samples[m].at - samples[b].at >= SustainedFor
  BY <1>3 DEF Sustained
<1>5. \A i \in b..(n - 1) : i \in b..m \/ i \in (m + 1)..(n - 1)
  BY <1>1
<1>6. SpikeFrom(b, n - 1)
  BY <1>4, <1>5 DEF SpikeFrom
<1>7. n - 1 \in 1..Last /\ m <= n - 1 /\ b \in 1..(n - 1) /\ b \in 1..Last /\ n > 1
  BY <1>1
<1>8. samples[m].at <= samples[n - 1].at
  BY <1>1, <1>7 DEF Ordered
<1>9. samples[n - 1].at - samples[b].at >= SustainedFor
  BY <1>1, <1>2, <1>4, <1>7, <1>8, DetectorAssumption
<1> QED BY <1>3, <1>6, <1>7, <1>9 DEF Sustained

(* What the comment on failed readings wants, for the readings that do not *)
(* fail: failed readings, and counters that wrap, are the only way to a    *)
(* second trigger of one load.                                             *)
THEOREM RearmedByLoadHolds == PathSpec => []RearmedByLoad
<1>1. PathInv /\ SamplesTrue => RearmedByLoad
  <2> SUFFICES ASSUME PathInv, SamplesTrue, NEW m \in fired, NEW n \in fired, m < n
               PROVE  \E k \in (m + 1)..(n - 1) :
                        ~lines[k].read \/ ~lines[k].over \/ lines[k].wrapped
    BY DEF RearmedByLoad
  <2>1. PICK k \in (m + 1)..(n - 1) : ~samples[k].breaching
    BY CalmBetween DEF PathInv, DetectorInv
  <2>2. k \in DOMAIN samples
    <3>1. DOMAIN samples = 1..Len(samples) /\ Len(samples) \in Nat
      BY SeqElements DEF PathInv, DetectorInv, TypeInv, Samples
    <3>2. m \in 1..Len(samples) /\ n \in 1..Len(samples)
      BY <3>1 DEF PathInv, DetectorInv, TypeInv
    <3> QED BY <3>1, <3>2
  <2>3. lines[k].read /\ ~lines[k].wrapped => samples[k].breaching = lines[k].over
    BY <2>2 DEF SamplesTrue
  <2> QED BY <2>1, <2>3, Zenon
<1> QED BY <1>1, PathInvariance, SamplesTrueHolds, PTL
=============================================================================
