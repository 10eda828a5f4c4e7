------------------------ MODULE CrashEvidence_proof ------------------------
(***************************************************************************)
(* Proofs about the process collector and the evidence of a crash, for any *)
(* processes, pids, intervals and crashes.                                 *)
(***************************************************************************)
EXTENDS CrashEvidence, TLAPS

(* A poll names processes that ran, under their own pids. *)
Names(t) ==
  /\ t \in [Pids -> Procs \cup {Nobody}]
  /\ \A pid \in Pids : t[pid] # Nobody => t[pid] \in alive \cup ended /\ PidOf[t[pid]] = pid

WorldInv ==
  /\ alive \subseteq Procs /\ ended \subseteq Procs
  /\ alive \cap ended = {}
  /\ \A p, q \in alive : PidOf[p] = PidOf[q] => p = q

(* Whoever is known and was not found, of the pids dealt with, has ended.  *)
MissingInv ==
  step = "read" =>
    \A pid \in Pids \ unread :
      known[pid] # Nobody /\ current[pid] = Nobody => known[pid] \in ended \cup Flaky

PollInv ==
  /\ WorldInv /\ Names(current) /\ Names(known) /\ MissingInv
  /\ step \in {"wait", "read"}
  /\ ~polled => known = Empty
  /\ EventsAddUp /\ TerminatedHasEnded

-----------------------------------------------------------------------------
(***************************************************************************)
(* What the collector's events say of the process table.                   *)
(***************************************************************************)

LEMMA PollInit == CrashInit => PollInv
BY DEF CrashInit, ProcInit, PollInv, WorldInv, Names, MissingInv, EventsAddUp,
       TerminatedHasEnded, Empty, In

(* The steps that are not the collector's: processes come and go.          *)
LEMMA PollWorld ==
  ASSUME PollInv, NEW p \in Procs, Begin(p) \/ End(p)
  PROVE  PollInv'
<1>1. WorldInv'
  BY DEF PollInv, WorldInv, Begin, End
<1>2. (alive \cup ended) \subseteq (alive \cup ended)' /\ ended \subseteq ended'
  BY DEF Begin, End
<1>3. UNCHANGED <<collector, reported, table>>
  BY DEF Begin, End
<1>4. Names(current)' /\ Names(known)'
  BY <1>2, <1>3 DEF PollInv, Names, collector
<1>5. MissingInv'
  BY <1>2, <1>3 DEF PollInv, MissingInv, collector
<1>6. EventsAddUp' /\ TerminatedHasEnded'
  BY <1>2, <1>3 DEF PollInv, EventsAddUp, TerminatedHasEnded, In, collector
<1> QED BY <1>1, <1>3, <1>4, <1>5, <1>6 DEF PollInv, collector

LEMMA PollList ==
  ASSUME PollInv, ListPids
  PROVE  PollInv'
<1>1. UNCHANGED <<world, known, polled, reported, table>> /\ step' = "read"
  BY DEF ListPids
<1>2. WorldInv' /\ Names(known)'
  BY <1>1 DEF PollInv, WorldInv, Names, world
<1>3. Names(current)'
  BY <1>1 DEF ListPids, Names, Empty
<1>4. MissingInv'
  <2> SUFFICES ASSUME NEW pid \in Pids, pid \notin unread', known[pid] # Nobody
               PROVE  known[pid] \in ended
    BY <1>1 DEF MissingInv, world
  <2>1. known[pid] \in alive \cup ended /\ PidOf[known[pid]] = pid
    BY DEF PollInv, Names
  <2>2. known[pid] \notin alive
    BY <2>1 DEF ListPids
  <2> QED BY <2>1, <2>2
<1>5. EventsAddUp' /\ TerminatedHasEnded'
  BY <1>1 DEF PollInv, EventsAddUp, TerminatedHasEnded, In, world
<1> QED BY <1>1, <1>2, <1>3, <1>4, <1>5 DEF PollInv

LEMMA PollRead ==
  ASSUME PollInv, NEW p \in Procs, ReadProc(p)
  PROVE  PollInv'
<1>1. UNCHANGED <<world, step, known, polled, reported, table>>
  BY DEF ReadProc
<1>2. WorldInv' /\ Names(known)'
  BY <1>1 DEF PollInv, WorldInv, Names, world
<1>3. /\ PidOf[p] \in Pids
      /\ current' \in [Pids -> Procs \cup {Nobody}]
      /\ \A pid \in Pids : current'[pid] = IF pid = PidOf[p] THEN p ELSE current[pid]
  BY DEF ReadProc, Pids, PollInv, Names
<1>4. Names(current)'
  BY <1>1, <1>3 DEF ReadProc, PollInv, Names, world
<1>5. MissingInv'
  <2> SUFFICES ASSUME step = "read", NEW pid \in Pids, pid \notin unread',
                      known[pid] # Nobody, current'[pid] = Nobody
               PROVE  known[pid] \in ended \cup Flaky
    BY <1>1 DEF MissingInv, world
  <2>1. CASE pid = PidOf[p]
    <3>1. known[pid] \in alive \cup ended /\ PidOf[known[pid]] = pid
      BY DEF PollInv, Names
    <3>2. known[pid] # p
      BY <1>3, <2>1
    <3> QED BY <2>1, <3>1, <3>2 DEF PollInv, WorldInv, ReadProc
  <2>2. CASE pid # PidOf[p]
    BY <1>3, <2>2 DEF PollInv, MissingInv, ReadProc
  <2> QED BY <2>1, <2>2
<1>6. EventsAddUp' /\ TerminatedHasEnded'
  BY <1>1 DEF PollInv, EventsAddUp, TerminatedHasEnded, In, world
<1> QED BY <1>1, <1>2, <1>4, <1>5, <1>6 DEF PollInv

LEMMA PollSkip ==
  ASSUME PollInv, NEW skipped \in Pids, Skip(skipped)
  PROVE  PollInv'
<1>1. UNCHANGED <<world, step, current, known, polled, reported, table>>
  BY DEF Skip
<1>2. WorldInv' /\ Names(known)' /\ Names(current)'
  BY <1>1 DEF PollInv, WorldInv, Names, world
<1>3. MissingInv'
  <2> SUFFICES ASSUME step = "read", NEW pid \in Pids, pid \notin unread',
                      known[pid] # Nobody, current[pid] = Nobody
               PROVE  known[pid] \in ended \cup Flaky
    BY <1>1 DEF MissingInv, world
  <2>1. CASE pid = skipped
    <3>1. known[pid] \in alive \cup ended /\ PidOf[known[pid]] = pid
      BY DEF PollInv, Names
    <3> QED BY <2>1, <3>1 DEF Skip
  <2>2. CASE pid # skipped
    BY <2>2 DEF PollInv, MissingInv, Skip
  <2> QED BY <2>1, <2>2
<1>4. EventsAddUp' /\ TerminatedHasEnded'
  BY <1>1 DEF PollInv, EventsAddUp, TerminatedHasEnded, In, world
<1> QED BY <1>1, <1>2, <1>3, <1>4 DEF PollInv

(* Who disappeared has ended, or could not be read.                        *)
LEMMA DisappearedFacts ==
  ASSUME PollInv, EmitDiff
  PROVE  Disappeared \subseteq ended \cup Flaky
<1>1. step = "read" /\ unread = {}
  BY DEF EmitDiff
<1> QED BY <1>1 DEF PollInv, MissingInv, Disappeared, Terminated, In

LEMMA PollEmit ==
  ASSUME PollInv, EmitDiff
  PROVE  PollInv'
<1>1. /\ UNCHANGED <<world, current>> /\ known' = current /\ polled' = TRUE
      /\ step = "read" /\ unread = {} /\ step' = "wait"
  BY DEF EmitDiff
<1>2. WorldInv' /\ Names(current)' /\ Names(known)'
  BY <1>1 DEF PollInv, WorldInv, Names, world
<1>3. EventsAddUp'
  <2>1. table' = IF polled THEN (table \cup (In(current) \ In(known))) \ (In(known) \ In(current))
                 ELSE In(current)
    BY DEF EmitDiff, Started, Terminated
  <2>2. table = In(known)
    BY DEF PollInv, EventsAddUp
  <2>3. table' = In(current)
    BY <2>1, <2>2
  <2>4. In(known)' = In(current)
    BY <1>1 DEF In
  <2> QED BY <2>3, <2>4 DEF EventsAddUp
<1>4. TerminatedHasEnded'
  <2>1. Disappeared \subseteq ended \cup Flaky
    BY DisappearedFacts
  <2> QED BY <1>1, <2>1 DEF EmitDiff, PollInv, TerminatedHasEnded, world
<1> QED BY <1>1, <1>2, <1>3, <1>4 DEF PollInv, MissingInv

LEMMA PollQuiet ==
  ASSUME PollInv, UNCHANGED <<world, collector, reported, table>>
  PROVE  PollInv'
BY DEF PollInv, WorldInv, Names, MissingInv, EventsAddUp, TerminatedHasEnded, In,
       world, collector

LEMMA PollStep == PollInv /\ [CrashNext]_crashVars => PollInv'
<1> SUFFICES ASSUME PollInv, [CrashNext]_crashVars
             PROVE  PollInv'
  OBVIOUS
<1>1. CASE UNCHANGED <<world, collector, reported, table>>
  BY <1>1, PollQuiet
<1>2. CASE Pass
  BY <1>2, PollQuiet DEF Pass
<1>3. CASE ProcessSteps
  <2>1. CASE World
    BY <2>1, PollWorld DEF World
  <2>2. CASE ProcCollector
    BY <2>2, PollList, PollRead, PollSkip, PollEmit DEF ProcCollector
  <2> QED BY <1>3, <2>1, <2>2 DEF ProcessSteps
<1>4. CASE \E p \in Crashing, complete \in BOOLEAN : Announce(p, complete)
  BY <1>4, PollQuiet DEF Announce, procVars
<1>5. CASE \E p \in Crashing : Close(p)
  BY <1>5, PollQuiet DEF Close, procVars
<1> QED BY <1>1, <1>2, <1>3, <1>4, <1>5 DEF CrashNext, crashVars, procVars

(* What is known of a pid is a process that ran under it, in every state.  *)
THEOREM PollInvariance == CrashSpec => []PollInv
BY PollInit, PollStep, PTL DEF CrashSpec

(* Baseline and events add up to the last poll: no pid starts or ends      *)
(* twice, whatever comes and goes, or cannot be read, during a poll        *)
(* (_emit_lifecycle_diff).                                                 *)
THEOREM EventsAddUpHolds == CrashSpec => []EventsAddUp
<1>1. PollInv => EventsAddUp
  BY DEF PollInv
<1> QED BY <1>1, PollInvariance, PTL

(* A process reported as terminated has ended, unless it could not be read *)
(* (_poll_once, _emit_lifecycle_diff).                                     *)
THEOREM TerminatedHasEndedHolds == CrashSpec => []TerminatedHasEnded
<1>1. PollInv => TerminatedHasEnded
  BY DEF PollInv
<1> QED BY <1>1, PollInvariance, PTL

-----------------------------------------------------------------------------
(***************************************************************************)
(* The incident of a crash has its termination.                            *)
(***************************************************************************)

(* A poll is over PollTime after it was due, and the next one is due       *)
(* Interval later; an incident is closed when its tail is over.            *)
TimeInv ==
  /\ procNow \in Nat /\ wake \in Nat /\ procNow <= wake + PollTime
  /\ step = "wait" => wake <= procNow + Interval
  /\ step = "read" => wake <= procNow
  /\ incidentOpened \in [Crashing -> Nat \cup {CrashNever}]
  /\ \A p \in Crashing : incidentOpened[p] # CrashNever => incidentOpened[p] <= procNow /\ p \in ended
  /\ endedAt \in [Crashing -> Nat \cup {CrashNever}]
  /\ noticedAt \in [Crashing -> Nat \cup {CrashNever}]
  /\ \A p \in closed : p \in Crashing /\ incidentOpened[p] # CrashNever /\ incidentOpened[p] + PostWait <= procNow

(* Whoever ended did so at some time, and was noticed later.               *)
NoticedInv ==
  \A p \in Crashing :
    /\ p \in ended => endedAt[p] # CrashNever /\ endedAt[p] <= procNow
    /\ p \in reported \ Flaky => noticedAt[p] # CrashNever /\ endedAt[p] <= noticedAt[p]

(* Whoever was in a poll is still known, or its end has been reported.     *)
MetInv ==
  /\ met \subseteq Procs
  /\ \A p \in met : p \in reported \/ Reused(p) \/ known[PidOf[p]] = p

(* A crashed process that is known still is noticed by the poll that is    *)
(* due an interval after the one during which the report came.             *)
PendingInv ==
  \A p \in Crashing : incidentOpened[p] # CrashNever =>
    /\ step = "read" /\ current[PidOf[p]] = p => wake <= incidentOpened[p]
    /\ known[PidOf[p]] = p => wake <= incidentOpened[p] + PollTime + Interval

LinkInv == TimeInv /\ NoticedInv /\ MetInv /\ PendingInv /\ CrashIsLinked

LEMMA LinkInit == CrashInit => LinkInv
BY CrashAssumption, ProcessesAssumption DEF CrashInit, ProcInit, LinkInv, TimeInv, NoticedInv, MetInv, PendingInv, CrashIsLinked

LEMMA LinkPass ==
  ASSUME LinkInv, Pass
  PROVE  LinkInv'
<1>1. UNCHANGED <<world, collector, met, reported, table, incidents, times>>
      /\ procNow' = procNow + 1
      /\ procNow < wake + PollTime
  BY DEF Pass
<1>2. TimeInv'
  BY <1>1, CrashAssumption, ProcessesAssumption DEF LinkInv, TimeInv, world, collector, incidents, times
<1>3. MetInv' /\ PendingInv' /\ CrashIsLinked'
  BY <1>1 DEF LinkInv, MetInv, PendingInv, CrashIsLinked, InTime, Reused, world, collector,
     incidents, times
<1>4. NoticedInv'
  <2>1. procNow \in Nat /\ endedAt \in [Crashing -> Nat \cup {CrashNever}]
    BY DEF LinkInv, TimeInv
  <2> QED BY <1>1, <2>1 DEF LinkInv, NoticedInv, world, times
<1> QED BY <1>2, <1>3, <1>4 DEF LinkInv

(* Steps that read the clock at most: what has been published is as it was.*)
LEMMA LinkQuiet ==
  ASSUME LinkInv, UNCHANGED <<procNow, wake, known, met, reported, incidents, noticedAt>>,
         endedAt' = Stamp(endedAt, ended' \ ended),
         alive \cup ended \subseteq (alive \cup ended)', ended \subseteq ended',
         step' = "wait" => step = "wait",
         step' = "read" => step = "read" \/ wake <= procNow,
         \A p \in Crashing :
           incidentOpened[p] # CrashNever /\ step' = "read" /\ current'[PidOf[p]] = p =>
             step = "read" /\ current[PidOf[p]] = p,
         \A p \in ended' \ ended : p \notin reported \ Flaky
  PROVE  LinkInv'
<1>1. \A p : Reused(p) => Reused(p)'
  BY DEF Reused
<1>2. TimeInv' /\ \A p \in Crashing \cap ended : endedAt'[p] = endedAt[p]
  <2>1. /\ endedAt \in [Crashing -> Nat \cup {CrashNever}] /\ procNow \in Nat
    BY DEF LinkInv, TimeInv
  <2>2. /\ endedAt' \in [Crashing -> Nat \cup {CrashNever}]
        /\ \A p \in Crashing \cap ended : endedAt'[p] = endedAt[p]
    BY <2>1 DEF Stamp
  <2> QED BY <2>2 DEF LinkInv, TimeInv, incidents
<1>3. MetInv'
  BY <1>1 DEF LinkInv, MetInv
<1>4. PendingInv'
  BY DEF LinkInv, PendingInv, incidents
<1>5. CrashIsLinked'
  <2> SUFFICES ASSUME Interval + 2 * PollTime < PostWait, NEW p \in closed \ linked, InTime(p)'
               PROVE  p \in partial \/ p \notin met \/ p \in Flaky \/ Reused(p)'
    BY DEF CrashIsLinked, incidents
  <2>1. p \in Crashing /\ p \in ended
    BY DEF LinkInv, TimeInv
  <2>2. InTime(p)
    BY <1>2, <2>1 DEF InTime, incidents
  <2> QED BY <1>1, <2>2 DEF LinkInv, CrashIsLinked
<1>6. NoticedInv'
  <2> SUFFICES ASSUME NEW p \in Crashing
               PROVE  /\ p \in ended' => endedAt'[p] # CrashNever /\ endedAt'[p] <= procNow
                      /\ p \in reported \ Flaky =>
                           noticedAt[p] # CrashNever /\ endedAt'[p] <= noticedAt[p]
    BY DEF NoticedInv
  <2>1. CASE p \in ended' \ ended
    <3>1. endedAt'[p] = procNow /\ procNow \in Nat
      BY <2>1 DEF Stamp, LinkInv, TimeInv
    <3> QED BY <2>1, <3>1, CrashAssumption
  <2>2. CASE p \notin ended' \ ended
    <3>1. endedAt'[p] = endedAt[p]
      BY <2>2 DEF Stamp
    <3> QED BY <2>2, <3>1 DEF LinkInv, NoticedInv
  <2> QED BY <2>1, <2>2
<1> QED BY <1>2, <1>3, <1>4, <1>5, <1>6 DEF LinkInv

(* Who is in no end yet is not in the stamps of a step that ends nobody.   *)
LEMMA NoStamp ==
  ASSUME LinkInv
  PROVE  endedAt = Stamp(endedAt, {}) /\ noticedAt = Stamp(noticedAt, {})
<1>1. endedAt \in [Crashing -> Nat \cup {CrashNever}] /\ noticedAt \in [Crashing -> Nat \cup {CrashNever}]
  BY DEF LinkInv, TimeInv
<1> QED BY <1>1 DEF Stamp

LEMMA LinkProcess ==
  ASSUME PollInv, LinkInv, ProcessSteps, ~EmitDiff
  PROVE  LinkInv'
<1>0. /\ endedAt' = Stamp(endedAt, ended' \ ended) /\ UNCHANGED noticedAt
      /\ \A p \in ended' \ ended : p \notin reported \ Flaky
  <2>1. ~(step = "read" /\ step' = "wait")
    BY DEF ProcessSteps, ProcCollector, World, Begin, End, ListPids, ReadProc, Skip, collector
  <2>2. noticedAt' = Stamp(noticedAt, {})
    BY <2>1 DEF ProcessSteps
  <2> QED BY <2>2, NoStamp DEF ProcessSteps, PollInv, TerminatedHasEnded
<1>1. CASE World
  <2>1. PICK p \in Procs : Begin(p) \/ End(p)
    BY <1>1 DEF World
  <2> QED BY <2>1, <1>0, LinkQuiet DEF ProcessSteps, Begin, End, collector
<1>2. CASE ListPids
  <2>1. \A p \in Crashing : current'[PidOf[p]] # p
    BY <1>2, CrashAssumption, ProcessesAssumption DEF ListPids, Empty, Pids
  <2> QED BY <1>2, <2>1, <1>0, LinkQuiet DEF ProcessSteps, ListPids, world, LinkInv, TimeInv
<1>3. ASSUME NEW q \in Procs, ReadProc(q)
      PROVE  LinkInv'
  <2>1. \A p \in Crashing : incidentOpened[p] # CrashNever /\ current'[PidOf[p]] = p => current[PidOf[p]] = p
    <3> SUFFICES ASSUME NEW p \in Crashing, incidentOpened[p] # CrashNever, current'[PidOf[p]] = p
                 PROVE  current[PidOf[p]] = p
      OBVIOUS
    <3>1. p # q
      BY <1>3 DEF LinkInv, TimeInv, PollInv, WorldInv, ReadProc
    <3>2. PidOf[p] \in Pids
      BY CrashAssumption DEF Pids
    <3> QED BY <1>3, <3>1, <3>2 DEF ReadProc, PollInv, Names
  <2> QED BY <1>3, <2>1, <1>0, LinkQuiet DEF ProcessSteps, ReadProc, world
<1>4. ASSUME NEW pid \in Pids, Skip(pid)
      PROVE  LinkInv'
  BY <1>4, <1>0, LinkQuiet DEF ProcessSteps, Skip, world
<1> QED BY <1>1, <1>2, <1>3, <1>4 DEF ProcessSteps, ProcCollector

LEMMA LinkEmit ==
  ASSUME PollInv, LinkInv, EmitDiff, ProcessSteps
  PROVE  LinkInv'
<1>1. /\ UNCHANGED <<procNow, world, current, incidentOpened, partial, closed, linked>>
      /\ known' = current /\ step = "read" /\ step' = "wait" /\ wake' = procNow + Interval
      /\ met' = met \cup {current[pid] : pid \in In(current)}
      /\ reported' = reported \cup Disappeared
  BY DEF EmitDiff, ProcessSteps, incidents
<1>2. \A p : Reused(p) => Reused(p)'
  BY <1>1 DEF Reused, world
<1>0. UNCHANGED endedAt /\ noticedAt' = Stamp(noticedAt, Disappeared)
  <2>1. endedAt' = Stamp(endedAt, {})
    BY <1>1 DEF ProcessSteps, world
  <2> QED BY <1>1, <2>1, NoStamp DEF ProcessSteps
<1>3. TimeInv'
  <2>1. procNow \in Nat /\ noticedAt \in [Crashing -> Nat \cup {CrashNever}]
    BY DEF LinkInv, TimeInv
  <2>2. noticedAt' \in [Crashing -> Nat \cup {CrashNever}]
    BY <1>0, <2>1 DEF Stamp
  <2> QED BY <1>0, <1>1, <2>2, CrashAssumption, ProcessesAssumption DEF LinkInv, TimeInv, world
<1>8. NoticedInv'
  <2> SUFFICES ASSUME NEW p \in Crashing
               PROVE  /\ p \in ended => endedAt[p] # CrashNever /\ endedAt[p] <= procNow
                      /\ p \in reported' \ Flaky =>
                           noticedAt'[p] # CrashNever /\ endedAt[p] <= noticedAt'[p]
    BY <1>0, <1>1 DEF NoticedInv, world
  <2>1. p \in ended => endedAt[p] # CrashNever /\ endedAt[p] <= procNow
    BY DEF LinkInv, NoticedInv
  <2>2. CASE p \in Disappeared
    <3>1. noticedAt'[p] = procNow /\ procNow \in Nat
      BY <1>0, <2>2 DEF Stamp, LinkInv, TimeInv
    <3>2. p \in ended \cup Flaky
      BY <2>2, DisappearedFacts
    <3> QED BY <2>1, <3>1, <3>2, CrashAssumption
  <2>3. CASE p \notin Disappeared
    <3>1. noticedAt'[p] = noticedAt[p]
      BY <1>0, <2>3 DEF Stamp
    <3> QED BY <1>1, <2>1, <2>3, <3>1 DEF LinkInv, NoticedInv
  <2> QED BY <2>2, <2>3
<1>4. \A p \in met' : p \in met \/ known'[PidOf[p]] = p
  <2> SUFFICES ASSUME NEW pid \in In(current)
               PROVE  known'[PidOf[current[pid]]] = current[pid]
    BY <1>1
  <2> QED BY <1>1 DEF PollInv, Names, In
<1>5. MetInv'
  <2>0. met' \subseteq Procs
    BY <1>1 DEF LinkInv, MetInv, PollInv, Names, In, Pids
  <2> SUFFICES ASSUME NEW p \in met, known[PidOf[p]] = p, known'[PidOf[p]] # p, ~Reused(p)'
               PROVE  p \in reported'
    BY <1>1, <1>2, <1>4, <2>0 DEF LinkInv, MetInv
  <2> DEFINE pid == PidOf[p]
  <2>1. CASE pid \in Pids /\ p # Nobody
    <3>1. current[pid] = Nobody
      <4>1. current[pid] \in (alive \cup ended) \ {p} => PidOf[current[pid]] # PidOf[p]
        BY <1>1 DEF Reused, world
      <4> QED BY <1>1, <2>1, <4>1 DEF PollInv, Names
    <3>2. pid \in Terminated
      BY <2>1, <3>1 DEF Terminated, In
    <3>3. polled
      <4> SUFFICES ASSUME known = Empty
                   PROVE  FALSE
        BY DEF PollInv
      <4> QED BY <2>1 DEF Empty
    <3>4. p \in Disappeared
      BY <3>2, <3>3 DEF Disappeared
    <3> QED BY <1>1, <3>4
  <2>2. pid \in Pids /\ p # Nobody
    BY CrashAssumption, ProcessesAssumption DEF LinkInv, MetInv, Pids
  <2> QED BY <2>1, <2>2
<1>6. PendingInv'
  BY <1>1, CrashAssumption, ProcessesAssumption DEF LinkInv, TimeInv, PendingInv
<1>7. CrashIsLinked'
  <2> SUFFICES ASSUME Interval + 2 * PollTime < PostWait,
                      NEW p \in closed \ linked, p \in met', p \notin met, p \notin partial
               PROVE  FALSE
    BY <1>0, <1>1, <1>2 DEF LinkInv, CrashIsLinked, InTime
  <2>1. current[PidOf[p]] = p
    BY <1>1, <1>4
  <2>2. p \in Crashing /\ incidentOpened[p] \in Nat /\ incidentOpened[p] + PostWait <= procNow /\ incidentOpened[p] # CrashNever
    BY DEF LinkInv, TimeInv
  <2>3. wake <= incidentOpened[p] /\ procNow <= wake + PollTime
    BY <1>1, <2>1, <2>2 DEF LinkInv, PendingInv, TimeInv
  <2> QED BY <2>2, <2>3, CrashAssumption, ProcessesAssumption DEF LinkInv, TimeInv
<1> QED BY <1>3, <1>5, <1>6, <1>7, <1>8 DEF LinkInv

LEMMA LinkAnnounce ==
  ASSUME PollInv, LinkInv, NEW q \in Crashing, NEW complete \in BOOLEAN,
         Announce(q, complete)
  PROVE  LinkInv'
<1>1. /\ UNCHANGED <<procNow, world, collector, met, reported, table, closed, linked, times>>
      /\ q \in ended /\ incidentOpened[q] = CrashNever
      /\ incidentOpened' = [incidentOpened EXCEPT ![q] = procNow]
      /\ partial \subseteq partial'
  BY DEF Announce, procVars
<1>2. TimeInv'
  BY <1>1, CrashAssumption DEF LinkInv, TimeInv, world, collector, times
<1>3. MetInv' /\ NoticedInv' /\ CrashIsLinked'
  <2>1. MetInv' /\ NoticedInv'
    BY <1>1 DEF LinkInv, MetInv, NoticedInv, Reused, world, collector, times
  <2>2. \A p \in closed : p \in Crashing /\ p # q /\ incidentOpened'[p] = incidentOpened[p]
    BY <1>1 DEF LinkInv, TimeInv
  <2>3. \A p \in closed : InTime(p)' <=> InTime(p)
    BY <1>1, <2>2 DEF InTime, times
  <2> QED BY <1>1, <2>1, <2>3 DEF LinkInv, CrashIsLinked, Reused, world
<1>4. PendingInv'
  <2> SUFFICES ASSUME NEW p \in Crashing, incidentOpened'[p] # CrashNever
               PROVE  /\ step = "read" /\ current[PidOf[p]] = p => wake <= incidentOpened'[p]
                      /\ known[PidOf[p]] = p => wake <= incidentOpened'[p] + PollTime + Interval
    BY <1>1 DEF PendingInv, collector
  <2>1. CASE p = q
    <3>1. incidentOpened'[p] = procNow
      BY <1>1, <2>1 DEF LinkInv, TimeInv
    <3>2. wake <= procNow + Interval
      BY CrashAssumption, ProcessesAssumption DEF PollInv, LinkInv, TimeInv
    <3> QED BY <3>1, <3>2, CrashAssumption, ProcessesAssumption DEF LinkInv, TimeInv
  <2>2. CASE p # q
    BY <1>1, <2>2 DEF LinkInv, TimeInv, PendingInv
  <2> QED BY <2>1, <2>2
<1> QED BY <1>2, <1>3, <1>4 DEF LinkInv

LEMMA LinkClose ==
  ASSUME LinkInv, NEW q \in Crashing, Close(q)
  PROVE  LinkInv'
<1>1. /\ UNCHANGED <<procNow, world, collector, met, reported, table, incidentOpened, partial, times>>
      /\ q \in OpenIncidents /\ procNow >= incidentOpened[q] + PostWait
      /\ closed' = closed \cup {q}
      /\ linked' = IF InIncident(q) /\ q \notin partial THEN linked \cup {q} ELSE linked
  BY DEF Close, procVars
<1>2. TimeInv'
  BY <1>1, CrashAssumption DEF LinkInv, TimeInv, OpenIncidents, world, collector, times
<1>3. MetInv' /\ PendingInv' /\ NoticedInv'
  BY <1>1 DEF LinkInv, MetInv, PendingInv, NoticedInv, Reused, world, collector, times
<1>4. CrashIsLinked'
  <2> SUFFICES ASSUME Interval + 2 * PollTime < PostWait,
                      ~InIncident(q), InTime(q), q \in met, q \notin Flaky, ~Reused(q)
               PROVE  FALSE
    BY <1>1 DEF LinkInv, CrashIsLinked, InTime, Reused, world, times
  <2>0. q \notin reported
    <3> SUFFICES ASSUME q \in reported PROVE FALSE
      OBVIOUS
    <3>1. noticedAt[q] # CrashNever /\ endedAt[q] <= noticedAt[q] /\ q \in ended
      BY <1>1 DEF LinkInv, NoticedInv, TimeInv, OpenIncidents
    <3>2. endedAt[q] # CrashNever
      BY <3>1 DEF LinkInv, NoticedInv
    <3>3. endedAt[q] \in Nat /\ noticedAt[q] \in Nat /\ incidentOpened[q] \in Nat
      BY <1>1, <3>1, <3>2 DEF LinkInv, TimeInv, OpenIncidents
    <3> QED BY <3>1, <3>3, CrashAssumption DEF InTime, InIncident
  <2>1. known[PidOf[q]] = q
    BY <2>0 DEF LinkInv, MetInv
  <2>2. incidentOpened[q] # CrashNever /\ incidentOpened[q] \in Nat
    BY <1>1 DEF LinkInv, TimeInv, OpenIncidents
  <2>3. wake <= incidentOpened[q] + PollTime + Interval /\ procNow <= wake + PollTime
    BY <2>1, <2>2 DEF LinkInv, PendingInv, TimeInv
  <2> QED BY <1>1, <2>2, <2>3, CrashAssumption, ProcessesAssumption DEF LinkInv, TimeInv
<1> QED BY <1>2, <1>3, <1>4 DEF LinkInv

LEMMA LinkStep ==
  PollInv /\ LinkInv /\ [CrashNext]_crashVars => LinkInv'
<1> SUFFICES ASSUME PollInv, LinkInv, [CrashNext]_crashVars
             PROVE  LinkInv'
  OBVIOUS
<1>1. CASE UNCHANGED crashVars
  <2>1. ended' \ ended = {} /\ UNCHANGED <<procNow, wake, known, met, reported, incidents, times>>
    BY <1>1 DEF crashVars, procVars, world, collector
  <2>2. endedAt' = Stamp(endedAt, ended' \ ended)
    BY <2>1, NoStamp DEF times
  <2> QED BY <1>1, <2>1, <2>2, LinkQuiet DEF crashVars, procVars, world, collector, times
<1>2. CASE Pass
  BY <1>2, LinkPass
<1>3. CASE ProcessSteps
  BY <1>3, LinkProcess, LinkEmit DEF ProcessSteps
<1>4. CASE \E p \in Crashing, complete \in BOOLEAN : Announce(p, complete)
  BY <1>4, LinkAnnounce
<1>5. CASE \E p \in Crashing : Close(p)
  BY <1>5, LinkClose
<1> QED BY <1>1, <1>2, <1>3, <1>4, <1>5 DEF CrashNext

(* With a tail longer than an interval and two polls, the incident of a    *)
(* crash whose report comes in time links it to the termination, which is  *)
(* in the part of the buffer that was copied or still in the buffer:       *)
(* exceptions are reports that were read too early, processes never polled *)
(* or not readable, and reused pids.                                       *)
THEOREM CrashIsLinkedHolds ==
  CrashSpec => []CrashIsLinked
<1>1. CrashInit => LinkInv
  BY LinkInit
<1>2. PollInv /\ LinkInv /\ [CrashNext]_crashVars => LinkInv'
  BY LinkStep
<1>3. LinkInv => CrashIsLinked
  BY DEF LinkInv
<1> QED BY <1>1, <1>2, <1>3, PollInvariance, PTL DEF CrashSpec
=============================================================================
