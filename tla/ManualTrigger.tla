--------------------------- MODULE ManualTrigger ---------------------------
(***************************************************************************)
(* The signal file by which users request an incident, and the thread that *)
(* polls for it (app/triggers/manual_trigger.py).                          *)
(*                                                                         *)
(* A request opens the file, which creates or truncates it, and may write  *)
(* a reason into what it opened, also after the poller has unlinked it.    *)
(* The poller looks, reads, unlinks and fires, and the process may end     *)
(* between any two of these.                                               *)
(***************************************************************************)
EXTENDS Integers, Sequences, FiniteSets

CONSTANTS
  Requests,       \* the requests users make, and the reasons they write
  NoReason,       \* nothing in the file, and the default reason
  Undecodable,    \* requests whose reason read_text cannot decode
  ReadMayFail,    \* whether read_text may raise an OSError
  UnlinkMayFail,  \* whether unlink may raise an OSError
  FireMayRaise,   \* whether handle_trigger may raise
  MaxFires,       \* bound: triggers
  ManualMaxRuns   \* bound: restarts of the process

ASSUME ManualAssumption ==
  /\ IsFiniteSet(Requests) /\ NoReason \notin Requests
  /\ Undecodable \subseteq Requests
  /\ {ReadMayFail, UnlinkMayFail, FireMayRaise} \subseteq BOOLEAN
  /\ MaxFires \in Nat /\ ManualMaxRuns \in Nat

VARIABLES
  exists,     \* whether there is a signal file
  text,       \* what it says
  writing,    \* the requests that hold the present file open
  touched,    \* the requests that were made
  pollerPc,   \* what the poller is about to do
  reason,     \* the local variable reason
  manualRun,  \* how often the process was restarted
  fired,      \* history: the reasons of the triggers
  owed,       \* history: requests no trigger was fired after
  lost,       \* history: those whose trigger an exception or a restart lost
  ready,      \* history: reasons that were complete when the poller looked
  kept        \* history: how often the file could not be unlinked

file == <<exists, text, writing>>
poller == <<pollerPc, reason>>
manualHistory == <<fired, owed, lost, ready, kept>>
manualVars == <<file, touched, poller, manualRun, manualHistory>>

ManualInit ==
  /\ exists = FALSE /\ text = NoReason /\ writing = {}
  /\ touched = {}
  /\ pollerPc = "wait" /\ reason = NoReason /\ manualRun = 0
  /\ fired = <<>> /\ owed = {} /\ lost = {} /\ ready = {} /\ kept = 0

(* A user touches the file, or opens it to write a reason. *)
Touch(q) ==
  /\ q \notin touched
  /\ touched' = touched \cup {q}
  /\ exists' = TRUE /\ text' = NoReason
  /\ writing' = writing \cup {q}
  /\ owed' = owed \cup {q}
  /\ ready' = ready \ {text}
  /\ UNCHANGED <<poller, manualRun, fired, lost, kept>>

(* The reason is written, over one that another request may have written. *)
WriteReason(q) ==
  /\ q \in writing
  /\ writing' = writing \ {q}
  /\ text' = q
  /\ ready' = ready \ {text}
  /\ UNCHANGED <<exists, touched, poller, manualRun, fired, owed, lost, kept>>

(* Mutant: the file is removed before it is read. *)
LookAndRemove ==
  /\ pollerPc = "wait" /\ exists /\ Len(fired) < MaxFires
  /\ pollerPc' = "read"
  /\ exists' = FALSE /\ text' = NoReason /\ writing' = {}
  /\ ready' = IF writing = {} THEN ready \cup ({text} \ {NoReason}) ELSE ready
  /\ UNCHANGED <<touched, reason, manualRun, fired, owed, lost, kept>>

(* The wait is over, and there is a file. *)
Look ==
  /\ pollerPc = "wait" /\ exists /\ Len(fired) < MaxFires
  /\ pollerPc' = "read"
  /\ ready' = IF writing = {} THEN ready \cup ({text} \ {NoReason}) ELSE ready
  /\ UNCHANGED <<file, touched, reason, manualRun, fired, owed, lost, kept>>

(* It says what the last writer wrote, if anything; an OSError is none. *)
ReadSignal ==
  /\ pollerPc = "read"
  /\ \/ text \notin Undecodable /\ reason' = text /\ ready' = ready
     \/ ReadMayFail /\ reason' = NoReason /\ ready' = ready \ {text}
  /\ pollerPc' = "unlink"
  /\ UNCHANGED <<file, touched, manualRun, fired, owed, lost, kept>>

(* Bytes that are no text are a ValueError, not an OSError.                *)
ReadRaises ==
  /\ pollerPc = "read" /\ text \in Undecodable
  /\ pollerPc' = "cleanup"
  /\ UNCHANGED <<file, touched, reason, manualRun, manualHistory>>

(* The finally clause removes the file, or logs that it cannot be removed, *)
(* and the exception ends the thread.                                      *)
CleanUp ==
  /\ pollerPc = "cleanup"
  /\ \/ exists' = FALSE /\ text' = NoReason /\ writing' = {} /\ lost' = lost \cup owed
     \/ UnlinkMayFail /\ UNCHANGED <<file, lost>>
  /\ pollerPc' = "dead"
  /\ UNCHANGED <<touched, reason, manualRun, fired, owed, ready, kept>>

(* Mutant: a file that says something else by now is left for the next     *)
(* poll.                                                                   *)
UnlinkUnchanged ==
  /\ pollerPc = "unlink"
  /\ IF text = reason
       THEN exists' = FALSE /\ text' = NoReason /\ writing' = {}
       ELSE UNCHANGED file
  /\ pollerPc' = "fire"
  /\ UNCHANGED <<touched, reason, manualRun, manualHistory>>

(* The name is gone, and whoever holds the file open writes into nothing;  *)
(* or it cannot be removed, which is logged.                               *)
Unlink ==
  /\ pollerPc = "unlink"
  /\ \/ exists' = FALSE /\ text' = NoReason /\ writing' = {} /\ kept' = kept
     \/ UnlinkMayFail /\ kept' = kept + 1 /\ UNCHANGED file
  /\ pollerPc' = "fire"
  /\ UNCHANGED <<touched, reason, manualRun, fired, owed, lost, ready>>

(* handle_trigger, which opens an incident or drops the trigger. *)
Fire ==
  /\ pollerPc = "fire"
  /\ fired' = Append(fired, reason)
  /\ owed' = {}
  /\ pollerPc' = "wait"
  /\ UNCHANGED <<file, touched, reason, manualRun, lost, ready, kept>>

(* It raises, and nothing catches it. *)
FireRaises ==
  /\ FireMayRaise
  /\ pollerPc = "fire"
  /\ pollerPc' = "dead"
  /\ lost' = lost \cup owed
  /\ UNCHANGED <<file, touched, reason, manualRun, fired, owed, ready, kept>>

(* Mutant: a file from before the start is removed. *)
RestartClean ==
  /\ manualRun < ManualMaxRuns
  /\ manualRun' = manualRun + 1
  /\ pollerPc' = "wait" /\ reason' = NoReason
  /\ exists' = FALSE /\ text' = NoReason /\ writing' = {}
  /\ lost' = IF pollerPc = "fire" THEN lost \cup owed ELSE lost
  /\ ready' = IF pollerPc = "wait" THEN ready ELSE {}
  /\ UNCHANGED <<touched, fired, owed, kept>>

(* The process ends and is started again: the file is still there. *)
ManualRestart ==
  /\ manualRun < ManualMaxRuns
  /\ manualRun' = manualRun + 1
  /\ pollerPc' = "wait" /\ reason' = NoReason
  /\ lost' = IF pollerPc = "fire" THEN lost \cup owed ELSE lost
  /\ ready' = IF pollerPc = "wait" THEN ready ELSE {}
  /\ UNCHANGED <<file, touched, fired, owed, kept>>

ManualNext ==
  \/ \E q \in Requests : Touch(q) \/ WriteReason(q)
  \/ Look \/ ReadSignal \/ ReadRaises \/ CleanUp \/ Unlink \/ Fire \/ FireRaises
  \/ ManualRestart

ManualSpec == ManualInit /\ [][ManualNext]_manualVars

-----------------------------------------------------------------------------
(***************************************************************************)
(* Properties.                                                             *)
(***************************************************************************)

(* "Touch the configured signal file and this poller picks it up": when    *)
(* the poller waits and no file is left, a trigger has been fired after    *)
(* each request, so its incident covers the moment of the request, even    *)
(* for requests made while an earlier one was read and unlinked.  Only an  *)
(* exception, or the process ending between unlink and trigger, loses one. *)
EveryRequestFires == pollerPc = "wait" /\ ~exists => owed \subseteq lost

(* A request fires one trigger, however its writing and the poller's steps *)
(* interleave and however often the process starts again; only a file that *)
(* cannot be unlinked fires again with every poll.                         *)
FiresAtMostRequests == Len(fired) <= Cardinality(touched) + kept

(* A reason that was complete when the poller looked, and that no later    *)
(* request wiped out, is the reason of a trigger.                          *)
ReasonReported == pollerPc = "wait" => \A q \in ready : \E i \in DOMAIN fired : fired[i] = q
=============================================================================
