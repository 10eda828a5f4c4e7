----------------------- MODULE IncidentPipeline_proof -----------------------
(***************************************************************************)
(* Proofs about IncidentPipeline, for any number of incidents, restarts    *)
(* and steps that raise.                                                   *)
(***************************************************************************)
EXTENDS IncidentPipeline, TLAPS

Whole(i, f) == disk[i][f] = "complete"

PipelineTypes ==
  /\ step \in [Incidents -> Steps \cup Settled \cup {"none"}]
  /\ disk \in [Incidents -> [Files -> {"absent", "partial", "complete"}]]
  /\ analysis \in [Incidents -> Outcomes \cup {"none"}]
  /\ rows \in [Incidents -> Outcomes \cup {"none"}]
  /\ writer \in Incidents \cup {Nobody}

(* What a thread has behind it when it reaches a step. *)
Behind ==
  \A i \in Incidents :
    /\ step[i] \in {"evidence", "investigate", "report", "save", "commit"} => Whole(i, "raw")
    /\ step[i] \in {"investigate", "report", "save", "commit"} => Whole(i, "evidence")
    /\ step[i] \in {"save", "commit"} => Whole(i, "report")
    /\ step[i] \in {"report", "save", "commit"} => analysis[i] \in Outcomes

PipelineInv == PipelineTypes /\ Behind /\ RowBacked /\ LockHeldByCommitter

LEMMA PipelineInit == Init => PipelineInv
BY PipelineAssumption
DEF Init, PipelineInv, PipelineTypes, Behind, RowBacked, LockHeldByCommitter

(* A file that is complete stays so: only an absent file is created and    *)
(* only a partial one is finished.                                         *)
LEMMA FilesGrow ==
  ASSUME PipelineTypes, [Next]_vars
  PROVE  \A i \in Incidents, f \in Files : Whole(i, f) => Whole(i, f)'
<1> USE DEF PipelineTypes, Whole
<1>1. ASSUME NEW i \in Incidents, NEW f \in Files, WriteStarts(i, f) \/ WriteEnds(i, f)
      PROVE  \A j \in Incidents, g \in Files : Whole(j, g) => Whole(j, g)'
  BY <1>1 DEF WriteStarts, WriteEnds
<1> QED
  BY <1>1 DEF Next, Thread, Open, Investigate, BeginSave, SaveLockedOut, Commit, Raises, Restart,
     vars

LEMMA PipelineStep == PipelineInv /\ [Next]_vars => PipelineInv'
<1> SUFFICES ASSUME PipelineInv, [Next]_vars PROVE PipelineInv'
  OBVIOUS
<1>1. \A i \in Incidents, f \in Files : Whole(i, f) => Whole(i, f)'
  BY FilesGrow DEF PipelineInv
<1>2. Files = {"raw", "evidence", "report"} /\ "none" \notin Outcomes
  BY DEF Files, Outcomes
<1> USE DEF PipelineInv
<1>3. ASSUME NEW i \in Incidents, NEW s, s \in {"raw", "failed"},
             step' = [step EXCEPT ![i] = s], UNCHANGED <<disk, analysis, rows>>,
             writer' = IF writer = i THEN Nobody ELSE writer
      PROVE  PipelineInv'
  <2>1. PipelineTypes'
    BY <1>2, <1>3 DEF PipelineTypes, Steps, Settled
  <2>2. Behind'
    BY <1>3 DEF PipelineTypes, Behind, Whole
  <2>3. RowBacked'
    BY <1>3 DEF PipelineTypes, RowBacked
  <2>4. LockHeldByCommitter'
    BY <1>3, PipelineAssumption DEF PipelineTypes, LockHeldByCommitter
  <2> QED BY <2>1, <2>2, <2>3, <2>4
<1>4. ASSUME NEW i \in Incidents, Open(i) \/ SaveLockedOut(i) \/ Raises(i) PROVE PipelineInv'
  <2>1. CASE Raises(i)
    BY <2>1, <1>3 DEF Raises
  <2>2. CASE Open(i) \/ SaveLockedOut(i)
    <3>1. writer # i
      BY <2>2 DEF Open, SaveLockedOut, LockHeldByCommitter
    <3> QED BY <2>2, <3>1, <1>3 DEF Open, SaveLockedOut
  <2> QED BY <1>4, <2>1, <2>2
<1>5. ASSUME NEW i \in Incidents, NEW f \in Files, WriteStarts(i, f) PROVE PipelineInv'
  <2>1. /\ disk' = [disk EXCEPT ![i][f] = "partial"]
        /\ UNCHANGED <<step, analysis, rows, writer>>
    BY <1>5 DEF WriteStarts
  <2>2. PipelineTypes'
    BY <2>1 DEF PipelineTypes
  <2>3. Behind'
    BY <2>1, <1>1 DEF PipelineTypes, Behind, Files
  <2>4. RowBacked'
    BY <2>1, <1>1 DEF PipelineTypes, RowBacked, Whole
  <2>5. LockHeldByCommitter'
    BY <2>1 DEF LockHeldByCommitter
  <2> QED BY <2>2, <2>3, <2>4, <2>5
<1>6. ASSUME NEW i \in Incidents, NEW f \in Files, WriteEnds(i, f) PROVE PipelineInv'
  <2>1. /\ step[i] = f
        /\ disk' = [disk EXCEPT ![i][f] = "complete"]
        /\ step' = [step EXCEPT ![i] = Then(f)]
        /\ UNCHANGED <<analysis, rows, writer>>
    BY <1>6 DEF WriteEnds, Proceed
  <2>2. Whole(i, f)'
    BY <2>1 DEF PipelineTypes, Whole
  <2>3. \/ f = "raw" /\ Then(f) = "evidence"
        \/ f = "evidence" /\ Then(f) = "investigate"
        \/ f = "report" /\ Then(f) = "save"
    BY <1>2 DEF Then
  <2>4. Behind'
    BY <2>1, <2>2, <2>3, <1>1 DEF PipelineTypes, Behind, Files
  <2>5. RowBacked'
    BY <2>1, <1>1 DEF PipelineTypes, RowBacked, Whole
  <2>6. LockHeldByCommitter'
    BY <2>1, <2>3 DEF PipelineTypes, LockHeldByCommitter
  <2>7. PipelineTypes'
    BY <2>1, <2>3 DEF PipelineTypes, Steps, Files
  <2> QED BY <2>4, <2>5, <2>6, <2>7
<1>7. ASSUME NEW i \in Incidents, NEW outcome \in Outcomes, Investigate(i, outcome) PROVE PipelineInv'
  <2>1. /\ step[i] = "investigate"
        /\ step' = [step EXCEPT ![i] = "report"]
        /\ analysis' = [analysis EXCEPT ![i] = outcome]
        /\ UNCHANGED <<disk, rows, writer>>
    BY <1>7 DEF Investigate, Proceed, Then
  <2>2. PipelineTypes'
    BY <1>2, <2>1 DEF PipelineTypes, Steps, Settled
  <2>3. Behind'
    BY <2>1, <1>2 DEF PipelineTypes, Behind, Whole
  <2>4. RowBacked'
    BY <2>1 DEF PipelineTypes, RowBacked
  <2>5. LockHeldByCommitter'
    BY <2>1, PipelineAssumption DEF PipelineTypes, LockHeldByCommitter
  <2> QED BY <2>2, <2>3, <2>4, <2>5
<1>8. ASSUME NEW i \in Incidents, BeginSave(i) PROVE PipelineInv'
  <2>1. /\ step[i] = "save" /\ writer = Nobody /\ writer' = i
        /\ step' = [step EXCEPT ![i] = "commit"]
        /\ UNCHANGED <<disk, analysis, rows>>
    BY <1>8 DEF BeginSave, Proceed, Then
  <2>2. PipelineTypes'
    BY <1>2, <2>1 DEF PipelineTypes, Steps, Settled
  <2>3. Behind'
    BY <2>1, <1>2 DEF PipelineTypes, Behind, Whole
  <2>4. RowBacked'
    BY <2>1 DEF PipelineTypes, RowBacked
  <2>5. LockHeldByCommitter'
    BY <2>1, PipelineAssumption DEF PipelineTypes, LockHeldByCommitter
  <2> QED BY <2>2, <2>3, <2>4, <2>5
<1>9. ASSUME NEW i \in Incidents, Commit(i) PROVE PipelineInv'
  <2>1. /\ step[i] = "commit" /\ writer' = Nobody
        /\ step' = [step EXCEPT ![i] = "done"]
        /\ rows' = [rows EXCEPT ![i] = analysis[i]]
        /\ UNCHANGED <<disk, analysis>>
    BY <1>9 DEF Commit, Proceed, Then
  <2>2. \A f \in Files : disk[i][f] = "complete"
    BY <2>1, <1>2 DEF Behind, Whole
  <2>3. analysis[i] \in Outcomes
    BY <2>1 DEF Behind
  <2>4. PipelineTypes'
    BY <2>1, <2>3 DEF PipelineTypes, Settled
  <2>5. Behind'
    BY <2>1 DEF PipelineTypes, Behind, Whole
  <2>6. RowBacked'
    BY <2>1, <2>2, <2>3 DEF PipelineTypes, RowBacked
  <2>7. LockHeldByCommitter'
    BY <2>1, PipelineAssumption DEF PipelineTypes, LockHeldByCommitter
  <2> QED BY <2>4, <2>5, <2>6, <2>7
<1>10. CASE Restart
  <2>1. \A i \in Incidents : step'[i] \in Settled \cup {"none"}
    BY <1>10 DEF Restart, PipelineTypes, Settled
  <2>2. PipelineTypes'
    BY <1>10 DEF Restart, PipelineTypes, Settled, Outcomes
  <2>3. Behind'
    BY <2>1 DEF Behind, Settled
  <2>4. RowBacked'
    BY <1>10 DEF Restart, RowBacked
  <2>5. LockHeldByCommitter'
    BY <1>10, <2>1, PipelineAssumption DEF Restart, LockHeldByCommitter, Settled
  <2> QED BY <2>2, <2>3, <2>4, <2>5
<1>11. CASE UNCHANGED vars
  BY <1>11 DEF vars, PipelineTypes, Behind, RowBacked, LockHeldByCommitter, Whole
<1> QED
  BY <1>4, <1>5, <1>6, <1>7, <1>8, <1>9, <1>10, <1>11 DEF Next, Thread

LEMMA PipelineInvariance == Spec => []PipelineInv
BY PipelineInit, PipelineStep, PTL DEF Spec

(* Whatever incident the dashboard finds in the database has its snapshot, *)
(* evidence and report complete on disk, whichever threads raised or died. *)
THEOREM RowBackedHolds == Spec => []RowBacked
BY PipelineInvariance, PTL DEF PipelineInv

(* The write lock of the database is never left behind. *)
THEOREM LockHeldByCommitterHolds == Spec => []LockHeldByCommitter
BY PipelineInvariance, PTL DEF PipelineInv

(* The index has exactly the incidents whose thread went through to the    *)
(* end, an unreachable LLM included: what is missing from it has failed,   *)
(* has died or is still at work.                                           *)
IndexedIffDone == \A i \in Incidents : rows[i] # "none" <=> step[i] = "done"

LEMMA IndexStep == PipelineInv /\ IndexedIffDone /\ [Next]_vars => IndexedIffDone'
<1> SUFFICES ASSUME PipelineInv, IndexedIffDone, [Next]_vars PROVE IndexedIffDone'
  OBVIOUS
<1>1. /\ step \in [Incidents -> Steps \cup Settled \cup {"none"}]
      /\ rows \in [Incidents -> Outcomes \cup {"none"}]
      /\ "done" \notin Steps /\ "none" \notin Outcomes
  BY DEF PipelineInv, PipelineTypes, Steps, Files, Outcomes
<1>2. ASSUME NEW i \in Incidents, NEW s, s # "done", step[i] # "done",
             step' = [step EXCEPT ![i] = s], UNCHANGED rows
      PROVE  IndexedIffDone'
  BY <1>1, <1>2 DEF IndexedIffDone
<1>3. ASSUME NEW i \in Incidents, Open(i) \/ SaveLockedOut(i) \/ Raises(i) PROVE IndexedIffDone'
  <2>1. step[i] # "done"
    BY <1>1, <1>3, PipelineAssumption DEF Open, SaveLockedOut, Raises
  <2> QED BY <1>2, <1>3, <2>1 DEF Open, SaveLockedOut, Raises
<1>4. ASSUME NEW i \in Incidents,
             \/ \E f \in Files : WriteEnds(i, f)
             \/ \E outcome \in Outcomes : Investigate(i, outcome)
             \/ BeginSave(i)
      PROVE  IndexedIffDone'
  <2>1. step[i] \in Files \cup {"investigate", "save"} /\ step' = [step EXCEPT ![i] = Then(step[i])]
        /\ UNCHANGED rows
    BY <1>1, <1>4 DEF WriteEnds, Investigate, BeginSave, Proceed
  <2>2. Then(step[i]) # "done" /\ step[i] # "done"
    BY <2>1 DEF Then, Files
  <2> QED BY <1>2, <2>1, <2>2
<1>5. ASSUME NEW i \in Incidents, NEW f \in Files, WriteStarts(i, f) PROVE IndexedIffDone'
  BY <1>5 DEF WriteStarts, IndexedIffDone
<1>6. ASSUME NEW i \in Incidents, Commit(i) PROVE IndexedIffDone'
  <2>1. step' = [step EXCEPT ![i] = "done"] /\ rows' = [rows EXCEPT ![i] = analysis[i]]
    BY <1>6 DEF Commit, Proceed, Then
  <2>2. analysis[i] # "none"
    BY <1>1, <1>6 DEF Commit, PipelineInv, Behind
  <2> QED BY <1>1, <2>1, <2>2 DEF IndexedIffDone
<1>7. CASE Restart
  <2>1. \A i \in Incidents : step'[i] = "done" <=> step[i] = "done"
    BY <1>1, <1>7 DEF Restart
  <2> QED BY <1>7, <2>1 DEF Restart, IndexedIffDone
<1>8. CASE UNCHANGED vars
  BY <1>8 DEF vars, IndexedIffDone
<1> QED BY <1>3, <1>4, <1>5, <1>6, <1>7, <1>8 DEF Next, Thread

THEOREM IndexedIffDoneHolds == Spec => []IndexedIffDone
<1>1. Init => IndexedIffDone
  BY DEF Init, IndexedIffDone
<1> QED BY <1>1, PipelineInvariance, IndexStep, PTL DEF Spec
=============================================================================
