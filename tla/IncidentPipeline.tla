-------------------------- MODULE IncidentPipeline --------------------------
(***************************************************************************)
(* What happens to an incident between its snapshot and the dashboard      *)
(* (app/main.py _on_incident_ready, app/evidence, app/agent, app/report,   *)
(* app/storage).                                                           *)
(*                                                                         *)
(* Each incident thread writes raw_events.json and evidence.json, asks the *)
(* local LLM, writes report.md and inserts a row into the SQLite database. *)
(* The threads of several incidents run side by side and meet at the write *)
(* lock of the database.  Files are written in place, so a file is partial *)
(* until its write ends, and stays so when the thread or the process dies. *)
(***************************************************************************)
EXTENDS Naturals, FiniteSets

CONSTANTS
  Incidents,  \* the incidents that may be opened
  Nobody,     \* nobody holds the write lock
  Raising,    \* the steps at which the thread may raise
  MaxRuns     \* bound: number of restarts of the process

(* The files of an incident directory, each written by one step. *)
Files == {"raw", "evidence", "report"}

(* The steps of an incident thread. *)
Steps == Files \cup {"investigate", "save", "commit"}

Settled == {"done", "failed", "dead"}

ASSUME PipelineAssumption ==
  /\ Nobody \notin Incidents
  /\ Raising \subseteq Steps
  /\ MaxRuns \in Nat

VARIABLES
  run,       \* how often the process was restarted
  step,      \* what the thread of an incident is doing
  disk,      \* the state of each file of an incident directory
  analysis,  \* DebugAnalysis.succeeded, once there is one
  rows,      \* the incidents table: analysis_succeeded of each row
  writer     \* the incident whose connection holds the write lock

vars == <<run, step, disk, analysis, rows, writer>>

Outcomes == {"ok", "unavailable"}

-----------------------------------------------------------------------------
Init ==
  /\ run = 0
  /\ step = [i \in Incidents |-> "none"]
  /\ disk = [i \in Incidents |-> [f \in Files |-> "absent"]]
  /\ analysis = [i \in Incidents |-> "none"]
  /\ rows = [i \in Incidents |-> "none"]
  /\ writer = Nobody

(* Mutant: the row is saved first, the report after it. *)
ThenSaveFirst(s) ==
  CASE s = "raw" -> "evidence"
    [] s = "evidence" -> "investigate"
    [] s = "investigate" -> "save"
    [] s = "save" -> "commit"
    [] s = "commit" -> "report"
    [] s = "report" -> "done"

(* The order of the steps of persist_snapshot and _on_incident_ready. *)
Then(s) ==
  CASE s = "raw" -> "evidence"
    [] s = "evidence" -> "investigate"
    [] s = "investigate" -> "report"
    [] s = "report" -> "save"
    [] s = "save" -> "commit"
    [] s = "commit" -> "done"

Proceed(i) == step' = [step EXCEPT ![i] = Then(@)]

(* handle_trigger opened an incident and its thread runs. *)
Open(i) ==
  /\ step[i] = "none"
  /\ step' = [step EXCEPT ![i] = "raw"]
  /\ UNCHANGED <<run, disk, analysis, rows, writer>>

(* The file is created empty and written to, ... *)
WriteStarts(i, f) ==
  /\ step[i] = f
  /\ disk[i][f] = "absent"
  /\ disk' = [disk EXCEPT ![i][f] = "partial"]
  /\ UNCHANGED <<run, step, analysis, rows, writer>>

(* ... and closed. *)
WriteEnds(i, f) ==
  /\ step[i] = f
  /\ disk[i][f] = "partial"
  /\ disk' = [disk EXCEPT ![i][f] = "complete"]
  /\ Proceed(i)
  /\ UNCHANGED <<run, analysis, rows, writer>>

(* Mutant: an unreachable model is asked again, without end. *)
InvestigateAgain(i, outcome) ==
  /\ step[i] = "investigate"
  /\ outcome = "ok"
  /\ UNCHANGED vars

(* DebugAgent.investigate: an answer, or an LlmError (unreachable, timed   *)
(* out, unexpected shape), which becomes an analysis that did not succeed. *)
Investigate(i, outcome) ==
  /\ step[i] = "investigate"
  /\ analysis' = [analysis EXCEPT ![i] = outcome]
  /\ Proceed(i)
  /\ UNCHANGED <<run, disk, rows, writer>>

(* IncidentStore.save: the INSERT takes the write lock. *)
BeginSave(i) ==
  /\ step[i] = "save"
  /\ writer = Nobody
  /\ writer' = i
  /\ Proceed(i)
  /\ UNCHANGED <<run, disk, analysis, rows>>

(* Another connection holds the lock for longer than sqlite3 waits. *)
SaveLockedOut(i) ==
  /\ step[i] = "save"
  /\ writer # Nobody
  /\ step' = [step EXCEPT ![i] = "failed"]
  /\ UNCHANGED <<run, disk, analysis, rows, writer>>

(* The transaction commits and the connection is closed. *)
Commit(i) ==
  /\ step[i] = "commit"
  /\ rows' = [rows EXCEPT ![i] = analysis[i]]
  /\ writer' = Nobody
  /\ Proceed(i)
  /\ UNCHANGED <<run, disk, analysis>>

(* Mutant: the connection is closed on the path without an exception only. *)
RaisesConnected(i) ==
  /\ step[i] \in Raising
  /\ step' = [step EXCEPT ![i] = "failed"]
  /\ UNCHANGED <<run, disk, analysis, rows, writer>>

(* A step raises: the transaction is rolled back, _finish_incident logs    *)
(* the exception and the thread ends.                                      *)
Raises(i) ==
  /\ step[i] \in Raising
  /\ step' = [step EXCEPT ![i] = "failed"]
  /\ writer' = IF writer = i THEN Nobody ELSE writer
  /\ UNCHANGED <<run, disk, analysis, rows>>

(* The process ends and is started again: incident threads are daemons and *)
(* nothing resumes them; the database opens as the last commit left it.    *)
Restart ==
  /\ run < MaxRuns
  /\ run' = run + 1
  /\ step' = [i \in Incidents |-> IF step[i] \in Steps THEN "dead" ELSE step[i]]
  /\ analysis' = [i \in Incidents |-> "none"]
  /\ writer' = Nobody
  /\ UNCHANGED <<disk, rows>>

Thread(i) ==
  \/ \E f \in Files : WriteStarts(i, f) \/ WriteEnds(i, f)
  \/ \E outcome \in Outcomes : Investigate(i, outcome)
  \/ BeginSave(i)
  \/ SaveLockedOut(i)
  \/ Commit(i)

Next ==
  \/ \E i \in Incidents : Open(i) \/ Thread(i) \/ Raises(i)
  \/ Restart

Spec == Init /\ [][Next]_vars

(* Incident threads are scheduled, the request to the LLM has a timeout    *)
(* and so has the wait for the database.  Nothing has to raise.            *)
FairSpec == Spec /\ \A i \in Incidents : WF_vars(Thread(i))

-----------------------------------------------------------------------------
(***************************************************************************)
(* Properties.                                                             *)
(***************************************************************************)

(* The row comes last: whatever the dashboard finds in the database has    *)
(* complete files on disk, so incident pages, which load evidence.json     *)
(* without holding a lock, never see a file that is being written, also    *)
(* after threads died in the middle of a write.                            *)
RowBacked ==
  \A i \in Incidents : rows[i] # "none" =>
    rows[i] \in Outcomes /\ \A f \in Files : disk[i][f] = "complete"

(* The write lock is held by a thread that is about to commit, and never   *)
(* left behind by one that failed or died: no incident is locked out of    *)
(* the database for good.                                                  *)
LockHeldByCommitter == \A i \in Incidents : writer = i <=> step[i] = "commit"

(* Every incident comes to an end, however slow or absent the LLM is and   *)
(* however many incidents want to write to the database.                   *)
Settles == \A i \in Incidents : step[i] \in Steps ~> step[i] \in Settled

(* What the README says of incidents/blackbox.db ("SQLite index of every   *)
(* incident"): an incident that is over is in the index.                   *)
EveryIncidentIndexed ==
  \A i \in Incidents : step[i] \in {"done", "failed"} => rows[i] # "none"
=============================================================================
