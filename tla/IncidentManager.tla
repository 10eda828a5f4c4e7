-------------------------- MODULE IncidentManager --------------------------
(***************************************************************************)
(* Triggers, the incident manager and the snapshot it persists             *)
(* (app/triggers, app/incident), on top of the circular buffer.            *)
(*                                                                         *)
(* handle_trigger runs on the thread that publishes the triggering event   *)
(* (or on the manual-trigger poller): it takes a slot under the lock,      *)
(* snapshots the buffer and starts an incident thread.  That thread waits  *)
(* for the post-incident tail, snapshots again, merges, copies the         *)
(* screenshots one by one, writes raw_events.json and calls                *)
(* on_incident_ready; its finally clause gives the slot back.  Meanwhile   *)
(* the collectors go on publishing, and each eviction deletes image files. *)
(*                                                                         *)
(* An incident is named by the trigger that opened it: a failure event     *)
(* published on the bus, or a manual request.                              *)
(***************************************************************************)
EXTENDS CircularBuffer, FiniteSets

CONSTANTS
  Screens,       \* the events of type screen.capture
  Failures,      \* the events one of the detectors reacts to
  Requests,      \* manual trigger requests
  Storage,       \* capture.screen.storage_dir, as the place of a file
  MaxOpen,       \* incident.max_open_incidents
  PreWindow,     \* buffer.pre_incident_seconds
  PostWait,      \* buffer.post_incident_seconds
  SpawnMayFail,  \* whether Thread.start may raise
  CopyMayFail,   \* whether shutil.copy2 may raise although the source exists
  DeleteMayFail  \* whether unlink may raise on an image being evicted

Triggers == Failures \cup Requests

ASSUME ManagerAssumption ==
  /\ Screens \subseteq Events
  /\ Failures \subseteq Events
  /\ Screens \cap Failures = {}
  /\ Requests \cap Events = {}
  /\ IsFiniteSet(Triggers)
  /\ Storage \notin Triggers
  /\ MaxOpen \in Nat
  /\ PreWindow \in Nat
  /\ PostWait \in Nat
  /\ SpawnMayFail \in BOOLEAN
  /\ CopyMayFail \in BOOLEAN
  /\ DeleteMayFail \in BOOLEAN

VARIABLES
  phase,          \* how far the handling of a trigger got
  openedAt,       \* Incident.created_at
  wakeAt,         \* when the incident thread's wait for the tail ends
  evidence,       \* the events the incident has in hand
  todo,           \* screenshots persist_snapshot has not looked at yet
  owned,          \* screenshots whose persisted path is the incident's copy
  openIncidents,  \* IncidentManager._open_incidents
  path,           \* where the image_path of the buffer's Event object points
  files,          \* image files on disk, as <<place, screenshot>>
  undeleted       \* history: screenshots whose deletion on eviction raised

managerVars ==
  <<phase, openedAt, wakeAt, evidence, todo, owned, openIncidents, path, files, undeleted>>
vars == <<bufferVars, managerVars>>

(* Phases in which an incident is open, i.e. its slot is taken and some    *)
(* thread is going to give it back.                                        *)
Opening == {"admitted", "snapped"}
Finishing == {"tail", "copying", "ready"}
Live == Opening \cup Finishing

(* Phases in which the slot counter is one up; nobody holds a leaked slot. *)
Holding == Live \cup {"leaked"}

Phases == {"none", "raised", "dropped", "closed", "failed", "lost"} \cup Holding

In(S) == {t \in Triggers : phase[t] \in S}

-----------------------------------------------------------------------------
ManagerInit ==
  /\ Init
  /\ phase = [t \in Triggers |-> "none"]
  /\ openedAt = [t \in Triggers |-> 0]
  /\ wakeAt = [t \in Triggers |-> 0]
  /\ evidence = [t \in Triggers |-> {}]
  /\ todo = [t \in Triggers |-> {}]
  /\ owned = [t \in Triggers |-> {}]
  /\ openIncidents = 0
  /\ path = [e \in Screens |-> Storage]
  /\ files = {}
  /\ undeleted = {}

-----------------------------------------------------------------------------
(***************************************************************************)
(* Collectors, buffer and eviction callback.                               *)
(***************************************************************************)

(* Threads are scheduled within MaxDelay ticks: a publisher between        *)
(* stamping and the end of handle_trigger, and a timed wait that is over.  *)
Scheduled(t) ==
  /\ phase[t] = "raised" => Age(t) < MaxDelay
  /\ phase[t] \in Opening => now < openedAt[t] + MaxDelay
  /\ phase[t] = "tail" => now < wakeAt[t] + MaxDelay

ManagerTick ==
  /\ Tick
  /\ \A t \in Triggers : Scheduled(t)
  /\ UNCHANGED managerVars

(* The clock bound leaves room to see an incident's tail to its end. *)
RoomForTail(delay) == now + delay + PostWait <= MaxTime

(* A collector builds an event; a screenshot is saved just before that.    *)
Capture(e) ==
  /\ Create(e)
  /\ e \in Failures => RoomForTail(2 * MaxDelay)
  /\ files' = IF e \in Screens THEN files \cup {<<Storage, e>>} ELSE files
  /\ UNCHANGED <<phase, openedAt, wakeAt, evidence, todo, owned, openIncidents, path, undeleted>>

(* Mutant: the eviction hook is not wired to the buffer. *)
DeleteNoImages(q, k) == UNCHANGED <<files, undeleted>>

(* BlackBox._on_evict, for the k heads popped from the deque q: delete the *)
(* image their payload points to.  An unlink that raises is logged in      *)
(* delete_image; the event is gone from the buffer, so nobody tries again. *)
DeleteImages(q, k) ==
  LET popped == Popped(q, k) \cap Screens IN
  \E failed \in SUBSET popped :
    /\ failed # {} => DeleteMayFail
    /\ files' = files \ {<<path[e], e>> : e \in popped \ failed}
    /\ undeleted' = undeleted \cup failed

(* EventBus.publish: the buffer subscribed first, then the detectors run.  *)
Publish(e, k) ==
  /\ Add(e, k)
  /\ DeleteImages(Append(events, e), k)
  /\ phase' = IF e \in Failures THEN [phase EXCEPT ![e] = "raised"] ELSE phase
  /\ UNCHANGED <<openedAt, wakeAt, evidence, todo, owned, openIncidents, path>>

(* The dashboard's status poll snapshots the buffer, which sweeps it. *)
StatusPoll(k) ==
  /\ Snapshot(k)
  /\ DeleteImages(events, k)
  /\ UNCHANGED <<phase, openedAt, wakeAt, evidence, todo, owned, openIncidents, path>>

-----------------------------------------------------------------------------
(***************************************************************************)
(* handle_trigger.                                                         *)
(***************************************************************************)

(* The one thread that polls for manual requests is not handling another   *)
(* one, and has not been ended by an exception out of handle_trigger.      *)
PollerWaits == \A q \in Requests : phase[q] \notin Opening \cup {"leaked"}

(* A detector, or the manual-trigger poller, calls handle_trigger. *)
Fires(t) ==
  \/ t \in Failures /\ phase[t] = "raised"
  \/ t \in Requests /\ phase[t] = "none" /\ PollerWaits /\ RoomForTail(MaxDelay)

(* Mutant: the limit is compared with <=. *)
AdmitOneMore(t) ==
  /\ Fires(t)
  /\ openIncidents <= MaxOpen
  /\ openIncidents' = openIncidents + 1
  /\ openedAt' = [openedAt EXCEPT ![t] = now]
  /\ phase' = [phase EXCEPT ![t] = "admitted"]
  /\ UNCHANGED <<bufferVars, wakeAt, evidence, todo, owned, path, files, undeleted>>

(* A slot is free: take it and create the Incident. *)
Admit(t) ==
  /\ Fires(t)
  /\ openIncidents < MaxOpen
  /\ openIncidents' = openIncidents + 1
  /\ openedAt' = [openedAt EXCEPT ![t] = now]
  /\ phase' = [phase EXCEPT ![t] = "admitted"]
  /\ UNCHANGED <<bufferVars, wakeAt, evidence, todo, owned, path, files, undeleted>>

(* The limit is reached: the trigger is logged and dropped. *)
Drop(t) ==
  /\ Fires(t)
  /\ openIncidents >= MaxOpen
  /\ phase' = [phase EXCEPT ![t] = "dropped"]
  /\ UNCHANGED <<bufferVars, openedAt, wakeAt, evidence, todo, owned, openIncidents, path, files, undeleted>>

(* The locked part of snapshot(pre_incident_seconds): sweep and copy. *)
SnapshotPre(t, k) ==
  /\ phase[t] = "admitted"
  /\ Snapshot(k)
  /\ DeleteImages(events, k)
  /\ evidence' = [evidence EXCEPT ![t] = {events'[i] : i \in DOMAIN events'}]
  /\ phase' = [phase EXCEPT ![t] = "snapped"]
  /\ UNCHANGED <<openedAt, wakeAt, todo, owned, openIncidents, path>>

(* The rest of it reads the clock again and keeps the events inside the    *)
(* window; then the incident thread starts and waits for the tail.         *)
StartThread(t) ==
  /\ phase[t] = "snapped"
  /\ evidence' = [evidence EXCEPT ![t] = {e \in @ : Age(e) <= PreWindow}]
  /\ wakeAt' = [wakeAt EXCEPT ![t] = now + PostWait]
  /\ phase' = [phase EXCEPT ![t] = "tail"]
  /\ UNCHANGED <<bufferVars, openedAt, todo, owned, openIncidents, path, files, undeleted>>

(* Thread.start raises into the bus, which logs it, or into the poller,    *)
(* which dies: no thread exists that could run the finally clause, and the *)
(* slot stays taken.                                                       *)
SpawnFails(t) ==
  /\ SpawnMayFail
  /\ phase[t] = "snapped"
  /\ evidence' = [evidence EXCEPT ![t] = {}]
  /\ phase' = [phase EXCEPT ![t] = "leaked"]
  /\ UNCHANGED <<bufferVars, openedAt, wakeAt, todo, owned, openIncidents, path, files, undeleted>>

-----------------------------------------------------------------------------
(***************************************************************************)
(* _finish_incident and persist_snapshot, on the incident thread.          *)
(***************************************************************************)

(* Mutant: the second snapshot replaces the first one. *)
WakeWithoutMerge(t, k) ==
  /\ phase[t] = "tail"
  /\ now >= wakeAt[t]
  /\ Snapshot(k)
  /\ DeleteImages(events, k)
  /\ evidence' = [evidence EXCEPT ![t] = {events'[i] : i \in DOMAIN events'}]
  /\ todo' = [todo EXCEPT ![t] = evidence'[t] \cap Screens]
  /\ phase' = [phase EXCEPT ![t] = "copying"]
  /\ UNCHANGED <<openedAt, wakeAt, owned, openIncidents, path>>

(* The tail is over: snapshot the whole buffer and merge it, by event id,  *)
(* with what was kept when the trigger fired.                              *)
Wake(t, k) ==
  /\ phase[t] = "tail"
  /\ now >= wakeAt[t]
  /\ Snapshot(k)
  /\ DeleteImages(events, k)
  /\ evidence' = [evidence EXCEPT ![t] = @ \cup {events'[i] : i \in DOMAIN events'}]
  /\ todo' = [todo EXCEPT ![t] = evidence'[t] \cap Screens]
  /\ phase' = [phase EXCEPT ![t] = "copying"]
  /\ UNCHANGED <<openedAt, wakeAt, owned, openIncidents, path>>

(* The copy loop takes the events one by one, in timestamp order. *)
LooksAt(t, e) ==
  /\ phase[t] = "copying"
  /\ e \in todo[t]
  /\ \A f \in todo[t] : stamp[e] <= stamp[f]
  /\ todo' = [todo EXCEPT ![t] = @ \ {e}]

(* Mutant: a missing source is waited for. *)
CopyWhenThere(t, e) ==
  /\ LooksAt(t, e)
  /\ <<path[e], e>> \in files
  /\ owned' = [owned EXCEPT ![t] = @ \cup {e}]
  /\ files' = files \cup {<<t, e>>}
  /\ UNCHANGED <<bufferVars, phase, openedAt, wakeAt, evidence, openIncidents, path, undeleted>>

(* Mutant: the event whose path is rewritten is the one the buffer holds.  *)
CopyInPlace(t, e) ==
  /\ LooksAt(t, e)
  /\ <<path[e], e>> \in files
  /\ owned' = [owned EXCEPT ![t] = @ \cup {e}]
  /\ files' = files \cup {<<t, e>>}
  /\ path' = [path EXCEPT ![e] = t]
  /\ UNCHANGED <<bufferVars, phase, openedAt, wakeAt, evidence, openIncidents, undeleted>>

(* Mutant: the image is moved instead of copied. *)
CopyByMoving(t, e) ==
  /\ LooksAt(t, e)
  /\ \/ /\ <<path[e], e>> \in files
        /\ owned' = [owned EXCEPT ![t] = @ \cup {e}]
        /\ files' = (files \ {<<path[e], e>>}) \cup {<<t, e>>}
     \/ /\ <<path[e], e>> \notin files
        /\ UNCHANGED <<owned, files>>
  /\ UNCHANGED <<bufferVars, phase, openedAt, wakeAt, evidence, openIncidents, path, undeleted>>

(* _copy_screenshot on the next event.  The path is rewritten in a deep    *)
(* copy of the event; a source that is gone, or that cannot be copied,     *)
(* leaves the event as it is.                                              *)
CopyScreenshot(t, e) ==
  /\ LooksAt(t, e)
  /\ \/ /\ <<path[e], e>> \in files
        /\ owned' = [owned EXCEPT ![t] = @ \cup {e}]
        /\ files' = files \cup {<<t, e>>}
     \/ /\ <<path[e], e>> \notin files \/ CopyMayFail
        /\ UNCHANGED <<owned, files>>
  /\ UNCHANGED <<bufferVars, phase, openedAt, wakeAt, evidence, openIncidents, path, undeleted>>

(* raw_events.json is written; on_incident_ready is called. *)
WriteRaw(t) ==
  /\ phase[t] = "copying"
  /\ todo[t] = {}
  /\ phase' = [phase EXCEPT ![t] = "ready"]
  /\ UNCHANGED <<bufferVars, openedAt, wakeAt, evidence, todo, owned, openIncidents, path, files, undeleted>>

(* on_incident_ready returned; the finally clause frees the slot. *)
Close(t) ==
  /\ phase[t] = "ready"
  /\ openIncidents' = openIncidents - 1
  /\ phase' = [phase EXCEPT ![t] = "closed"]
  /\ UNCHANGED <<bufferVars, openedAt, wakeAt, evidence, todo, owned, path, files, undeleted>>

(* Mutant: the slot is freed on the path without an exception only. *)
FailWithoutFinally(t) ==
  /\ phase[t] \in {"copying", "ready"}
  /\ todo' = [todo EXCEPT ![t] = {}]
  /\ phase' = [phase EXCEPT ![t] = "failed"]
  /\ UNCHANGED <<bufferVars, openedAt, wakeAt, evidence, owned, openIncidents, path, files, undeleted>>

(* Creating a directory, writing raw_events.json or on_incident_ready      *)
(* raises: logged, and the finally clause frees the slot.                  *)
Fail(t) ==
  /\ phase[t] \in {"copying", "ready"}
  /\ openIncidents' = openIncidents - 1
  /\ todo' = [todo EXCEPT ![t] = {}]
  /\ phase' = [phase EXCEPT ![t] = "failed"]
  /\ UNCHANGED <<bufferVars, openedAt, wakeAt, evidence, owned, path, files, undeleted>>

-----------------------------------------------------------------------------
(* The process ends and is started again: threads, buffer and counter are  *)
(* gone, the files stay.                                                   *)
ManagerRestart ==
  /\ Restart
  /\ phase' = [t \in Triggers |->
                 IF phase[t] \in Holding THEN "lost"
                 ELSE IF phase[t] = "raised" THEN "none" ELSE phase[t]]
  /\ todo' = [t \in Triggers |-> {}]
  /\ openIncidents' = 0
  /\ UNCHANGED <<openedAt, wakeAt, evidence, owned, path, files, undeleted>>

(* The bound on the clock is reached. *)
ManagerQuiesce == Quiesce /\ UNCHANGED managerVars

Sweep == 0..Len(events) + 1

TriggerThread(t) ==
  \/ Admit(t)
  \/ Drop(t)
  \/ \E k \in Sweep : SnapshotPre(t, k)
  \/ StartThread(t)
  \/ SpawnFails(t)

IncidentThread(t) ==
  \/ \E k \in Sweep : Wake(t, k)
  \/ \E e \in todo[t] : CopyScreenshot(t, e)
  \/ WriteRaw(t)
  \/ Close(t)

ManagerNext ==
  \/ ManagerTick
  \/ \E e \in Events : Capture(e)
  \/ \E e \in pending, k \in Sweep : Publish(e, k)
  \/ \E k \in Sweep : StatusPoll(k)
  \/ \E t \in Triggers : TriggerThread(t) \/ IncidentThread(t) \/ Fail(t)
  \/ ManagerRestart
  \/ ManagerQuiesce

ManagerSpec == ManagerInit /\ [][ManagerNext]_vars

(* Threads that are runnable run, timed waits end, the clock advances; the *)
(* incident thread cannot hang in on_incident_ready because the HTTP call  *)
(* has a timeout.  No step is obliged to raise, nobody is bound to request *)
(* an incident by hand, and the process need not restart.                  *)
Fairness ==
  /\ WF_vars(ManagerTick)
  /\ \A e \in Events : WF_vars(e \in pending /\ \E k \in Sweep : Publish(e, k))
  /\ \A t \in Failures : WF_vars(Admit(t) \/ Drop(t))
  /\ \A t \in Triggers :
       /\ WF_vars((\E k \in Sweep : SnapshotPre(t, k)) \/ StartThread(t))
       /\ WF_vars(IncidentThread(t))

FairManagerSpec == ManagerSpec /\ Fairness

-----------------------------------------------------------------------------
(***************************************************************************)
(* Properties.                                                             *)
(***************************************************************************)

(* Every variable keeps its type; an incident owns, or has still to copy,  *)
(* only screenshots of its evidence, and its evidence was published.       *)
ManagerTypeOK ==
  /\ phase \in [Triggers -> Phases]
  /\ openedAt \in [Triggers -> Nat]
  /\ wakeAt \in [Triggers -> Nat]
  /\ evidence \in [Triggers -> SUBSET created]
  /\ todo \in [Triggers -> SUBSET Screens]
  /\ owned \in [Triggers -> SUBSET Screens]
  /\ \A t \in Triggers : todo[t] \cup owned[t] \subseteq evidence[t]
  /\ openIncidents \in Nat
  /\ path \in [Screens -> {Storage}]
  /\ files \subseteq ({Storage} \cup Triggers) \X Screens
  /\ undeleted \subseteq Screens

(* _open_incidents counts exactly the incidents that hold a slot, on every *)
(* path through handle_trigger and _finish_incident.                       *)
SlotsAccounted == openIncidents = Cardinality(In(Holding))

(* "It grabs the pre-incident window from the buffer immediately (so       *)
(* nothing is lost)": once the tail is merged, an incident has every event *)
(* that any collector stamped inside its window, up to the scheduling      *)
(* delay at both ends, although the oldest were evicted in the meantime.   *)
WindowComplete ==
  \A t \in In({"copying", "ready", "closed"}), e \in created \ past :
    /\ openedAt[t] + MaxDelay <= stamp[e] + PreWindow
    /\ openedAt[t] + MaxDelay <= stamp[e] + Retention
    /\ stamp[e] + MaxDelay < wakeAt[t]
    => e \in evidence[t]

(* A persisted incident lacks its own copy of a screenshot only when the   *)
(* event had outlived the retention window before the copy loop got to it. *)
OnlyExpiredUncopied ==
  \A t \in In({"ready", "closed"}), e \in Screens :
    e \in evidence[t] \ owned[t] => Age(e) > Retention

(* What persist_snapshot's docstring demands without exception.            *)
OwnsItsScreenshots ==
  \A t \in In({"ready", "closed"}) : evidence[t] \cap Screens \subseteq owned[t]

(* The copies an incident refers to are never deleted, although the buffer *)
(* still holds the same Event and will evict it.                           *)
CopiesDurable ==
  \A t \in Triggers : \A e \in owned[t] : <<t, e>> \in files

(* Images in the storage directory come and go with their events: while    *)
(* the event is published or buffered its image is there; an image that is *)
(* there belongs to such an event, to one whose unlink raised when it was  *)
(* evicted (that image stays for ever), or to an earlier process.          *)
ImagesTrackBuffer ==
  \A e \in Screens \ past :
    <<Storage, e>> \in files <=> e \in pending \cup InBuffer \cup undeleted

(* What the log message of a dropped trigger says: it is dropped only when *)
(* max_open_incidents are open.                                            *)
DropOnlyAtLimit ==
  [][ \A t \in Triggers :
        phase[t] # "dropped" /\ phase'[t] = "dropped" =>
          Cardinality(In(Live)) >= MaxOpen ]_vars

(* The counter implements the incident limit as it is specified with a set *)
(* of open incidents: at most MaxOpen are open, a trigger is refused only  *)
(* then, and the slot of a finished incident can be taken again.           *)
Limit == INSTANCE Admission WITH
  open <- In(Live),
  over <- In({"closed", "failed", "lost", "leaked"}),
  refused <- In({"dropped"})

AdmissionSpec == Limit!Spec

(* Every admitted incident gives its slot back, also when screenshots      *)
(* vanish under the copy loop or a step of its thread raises.              *)
SlotsReleased ==
  \A t \in Triggers : (phase[t] = "admitted") ~> (phase[t] \notin Live)
=============================================================================
