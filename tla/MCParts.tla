------------------------------ MODULE MCParts ------------------------------
(***************************************************************************)
(* Instances, for TLC, of the parts that share no state with one another   *)
(* and never wait for one another.  A step of one of them leaves all that  *)
(* another is judged by as it is, so each is explored with the others at   *)
(* rest: "part" is the one that runs.  The modules are extended: what they *)
(* assume of their constants is evaluated for the constants of Parts.cfg,  *)
(* and the properties checked are those of the parts' theorems.            *)
(***************************************************************************)
EXTENDS CircularBuffer, OsEvents, CrashEvidence, TerminalTail, ManualTrigger, NetSampler

VARIABLE part

(* Two of the processes share a pid. *)
MCPidOf == [p1 |-> 1, p2 |-> 2, p3 |-> 1]

-----------------------------------------------------------------------------
PartsInit ==
  /\ part \in {"buffer", "osEvents", "crash", "tail", "manual", "net"}
  /\ Init
  /\ OsInit
  /\ CrashInit
  /\ TailInit
  /\ ManualInit
  /\ NetInit

RunBuffer ==
  /\ part = "buffer" /\ Next
  /\ UNCHANGED <<part, osVars, crashVars, tailVars, manualVars, netVars>>

RunOsEvents ==
  /\ part = "osEvents" /\ OsNext
  /\ UNCHANGED <<part, bufferVars, crashVars, tailVars, manualVars, netVars>>

RunCrash ==
  /\ part = "crash" /\ CrashNext
  /\ UNCHANGED <<part, bufferVars, osVars, tailVars, manualVars, netVars>>

RunTail ==
  /\ part = "tail" /\ TailNext
  /\ UNCHANGED <<part, bufferVars, osVars, crashVars, manualVars, netVars>>

RunManual ==
  /\ part = "manual" /\ ManualNext
  /\ UNCHANGED <<part, bufferVars, osVars, crashVars, tailVars, netVars>>

RunNet ==
  /\ part = "net" /\ NetNext
  /\ UNCHANGED <<part, bufferVars, osVars, crashVars, tailVars, manualVars>>

PartsNext ==
  \/ RunBuffer
  \/ RunOsEvents
  \/ RunCrash
  \/ RunTail
  \/ RunManual
  \/ RunNet

partsVars == <<part, bufferVars, osVars, crashVars, tailVars, manualVars, netVars>>

PartsSpec == PartsInit /\ [][PartsNext]_partsVars
=============================================================================
