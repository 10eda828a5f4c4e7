---------------------------- MODULE TerminalTail ----------------------------
(***************************************************************************)
(* The tail of the terminal event log (app/capture/terminal.py), next to   *)
(* the shells that append to it (scripts/blackbox_zsh_hook.sh) and to the  *)
(* dashboard that turns it on and off.                                     *)
(*                                                                         *)
(* The log is a sequence of fragments: a line that is written at once, or  *)
(* the head and the rest of one that is not.  What a line says does not    *)
(* matter, but whether it is JSON, and whether it is an object.            *)
(***************************************************************************)
EXTENDS Integers, Sequences

CONSTANTS
  Commands,    \* the commands run in some shell
  NotJson,     \* those whose line is not JSON (a quote in the directory, say)
  Rejected,    \* those whose line may be JSON that _handle_line does not expect
  Poll,        \* ticks the thread waits before each line
  Idle,        \* ticks it sleeps when there was none
  TailLag,     \* bound: ticks a step of the thread that is due may take
  MaxToggles,  \* bound: flips of the switch
  TailMaxTime  \* bound: last tick

ASSUME TailAssumption ==
  /\ NotJson \subseteq Commands /\ Rejected \subseteq Commands
  /\ NotJson \cap Rejected = {}
  /\ Poll \in Nat /\ Idle \in Nat /\ TailLag \in Nat \ {0}
  /\ MaxToggles \in Nat /\ TailMaxTime \in Nat

VARIABLES
  tailNow,
  log,         \* the fragments of the file
  running,     \* the commands that have begun and not ended
  switch,      \* "on", "stopping" while stop joins the thread, or "off"
  toggles,     \* how often it was flipped
  tailPc,      \* what the thread is about to do
  tailDue,     \* when its wait is over
  pos,         \* the position of its file object
  published,   \* history: positions of the lines published, in their order
  tailOpened,  \* history: where the thread began
  cuts,        \* history: where a readline ended in the middle of a line
  behind,      \* history: since when there are unread fragments, from where
  private      \* history: commands of which something was written while off:
               \* they ended while it was off

shells == <<log, running>>
tailThread == <<tailPc, tailDue, pos>>
tailHistory == <<published, tailOpened, cuts, behind, private>>
tailVars == <<tailNow, shells, switch, toggles, tailThread, tailHistory>>

NotBehind == [since |-> 0, from |-> 0]

TailInit ==
  /\ tailNow = 0 /\ log = <<>> /\ running = {}
  /\ switch = "off" /\ toggles = 0
  /\ tailPc = "none" /\ tailDue = 0 /\ pos = 0
  /\ published = <<>> /\ tailOpened = 0 /\ cuts = {}
  /\ behind = NotBehind /\ private = {}

Tailing == tailPc \in {"waiting", "reading"}
Busy == Tailing \/ tailPc = "opening"

TailTick ==
  /\ tailNow < TailMaxTime
  /\ Busy => tailNow < tailDue + TailLag
  /\ tailNow' = tailNow + 1
  /\ UNCHANGED <<shells, switch, toggles, tailThread, tailHistory>>

-----------------------------------------------------------------------------
(***************************************************************************)
(* The shells.                                                             *)
(***************************************************************************)

Ends(fragment) == fragment.part \in {"whole", "rest"}

Parts(c) == {log[i].part : i \in {j \in DOMAIN log : log[j].cmd = c}}

(* The time from one read to the next. *)
Period == Idle + Poll + 2 * TailLag

(* __blackbox_preexec: a command is typed and run.  The hook remembers it  *)
(* and writes nothing.                                                     *)
Run(c) ==
  /\ Parts(c) = {} /\ c \notin running
  /\ running' = running \cup {c}
  /\ UNCHANGED <<tailNow, log, switch, toggles, tailThread, tailHistory>>

(* Part of the line of c, which has ended, is appended. *)
AppendPart(c, part) ==
  /\ log' = Append(log, [cmd |-> c, part |-> part])
  /\ running' = running \ {c}
  /\ behind' = IF Tailing /\ pos = Len(log) THEN [since |-> tailNow, from |-> pos] ELSE behind
  /\ private' = IF switch = "off" THEN private \cup {c} ELSE private
  /\ UNCHANGED <<tailNow, switch, toggles, tailThread, published, tailOpened, cuts>>

(* __blackbox_precmd: c has ended, and its line is written, in one piece   *)
(* or in two.                                                              *)
Write(c) ==
  \/ c \in running /\ \E part \in {"whole", "head"} : AppendPart(c, part)
  \/ Parts(c) = {"head"} /\ AppendPart(c, "rest")

-----------------------------------------------------------------------------
(***************************************************************************)
(* The switch and the thread.                                              *)
(***************************************************************************)

TurnOn ==
  /\ switch = "off" /\ toggles < MaxToggles
  /\ switch' = "on" /\ toggles' = toggles + 1
  /\ tailPc' = "opening" /\ tailDue' = tailNow
  /\ UNCHANGED <<tailNow, shells, pos, tailHistory>>

(* stop sets the event and joins the thread. *)
TurnOff ==
  /\ switch = "on"
  /\ switch' = "stopping"
  /\ UNCHANGED <<tailNow, shells, toggles, tailThread, tailHistory>>

Joined ==
  /\ switch = "stopping" /\ ~Busy
  /\ switch' = "off" /\ tailPc' = "none"
  /\ UNCHANGED <<tailNow, shells, toggles, tailDue, pos, tailHistory>>

(* Mutant: a thread goes on from where the one before it stopped. *)
OpenAtLast ==
  /\ tailPc = "opening"
  /\ tailOpened' = pos
  /\ tailPc' = "waiting" /\ tailDue' = tailNow + Poll
  /\ UNCHANGED <<tailNow, shells, switch, toggles, pos, published, cuts, behind, private>>

(* Only new commands from now on. *)
OpenLog ==
  /\ tailPc = "opening"
  /\ pos' = Len(log) /\ tailOpened' = Len(log)
  /\ behind' = NotBehind
  /\ tailPc' = "waiting" /\ tailDue' = tailNow + Poll
  /\ UNCHANGED <<tailNow, shells, switch, toggles, published, cuts, private>>

(* It cannot be opened: the exception ends the thread. *)
OpenRaises ==
  /\ tailPc = "opening"
  /\ tailPc' = "dead"
  /\ UNCHANGED <<tailNow, shells, switch, toggles, tailDue, pos, tailHistory>>

(* The wait times out, or is ended by the event. *)
Wake ==
  /\ tailPc = "waiting" /\ tailNow >= tailDue /\ switch = "on"
  /\ tailPc' = "reading" /\ tailDue' = tailNow
  /\ UNCHANGED <<tailNow, shells, switch, toggles, pos, tailHistory>>

Stopped ==
  /\ tailPc = "waiting" /\ switch = "stopping"
  /\ tailPc' = "ended"
  /\ UNCHANGED <<tailNow, shells, switch, toggles, tailDue, pos, tailHistory>>

(* Mutant: the pause doubles when the log is quiet. *)
NoLineDoubles ==
  /\ tailPc = "reading" /\ pos = Len(log)
  /\ tailPc' = "waiting" /\ tailDue' = tailNow + 2 * (Idle + Poll)
  /\ UNCHANGED <<tailNow, shells, switch, toggles, pos, tailHistory>>

NoLine ==
  /\ tailPc = "reading" /\ pos = Len(log)
  /\ tailPc' = "waiting" /\ tailDue' = tailNow + Idle + Poll
  /\ UNCHANGED <<tailNow, shells, switch, toggles, pos, tailHistory>>

(* readline: up to the next end of a line, or else to the end of the file. *)
LineEnd ==
  CHOOSE n \in (pos + 1)..Len(log) :
    /\ \A i \in (pos + 1)..(n - 1) : ~Ends(log[i])
    /\ Ends(log[n]) \/ n = Len(log)

(* What was read is the whole line of one command. *)
OneLine(m, n) ==
  \/ m = n /\ log[n].part = "whole"
  \/ m + 1 = n /\ log[m].part = "head" /\ log[n] = [cmd |-> log[m].cmd, part |-> "rest"]

Parses(m, n) == OneLine(m, n) /\ log[n].cmd \notin NotJson

(* Mutant: what is left of a line that could not be parsed is skipped too. *)
HandleLineAndRest ==
  /\ tailPc = "reading" /\ pos < Len(log)
  /\ LET n == LineEnd IN
       /\ pos' = IF Parses(pos + 1, n) THEN n ELSE Len(log)
       /\ behind' = IF n = Len(log) THEN NotBehind ELSE behind
       /\ cuts' = IF Ends(log[n]) THEN cuts ELSE cuts \cup {n}
       /\ published' = IF Parses(pos + 1, n) THEN Append(published, n) ELSE published
  /\ tailPc' = "waiting" /\ tailDue' = tailNow + Poll
  /\ UNCHANGED <<tailNow, shells, switch, toggles, tailOpened, private>>

(* One line is read and published, or skipped when it is not JSON. *)
HandleLine ==
  /\ tailPc = "reading" /\ pos < Len(log)
  /\ LET n == LineEnd IN
       /\ pos' = n
       /\ behind' = IF n = Len(log) THEN NotBehind ELSE behind
       /\ cuts' = IF Ends(log[n]) THEN cuts ELSE cuts \cup {n}
       /\ published' = IF Parses(pos + 1, n) THEN Append(published, n) ELSE published
  /\ tailPc' = "waiting" /\ tailDue' = tailNow + Poll
  /\ UNCHANGED <<tailNow, shells, switch, toggles, tailOpened, private>>

(* The line is JSON and no object, or has a field of the wrong type: the   *)
(* exception ends the thread, which nothing restarts while it is on.       *)
HandleLineRaises ==
  /\ tailPc = "reading" /\ pos < Len(log)
  /\ LET n == LineEnd IN
       /\ Parses(pos + 1, n) /\ log[n].cmd \in Rejected
       /\ pos' = n
  /\ tailPc' = "dead"
  /\ UNCHANGED <<tailNow, shells, switch, toggles, tailDue, tailHistory>>

TailNext ==
  \/ TailTick \/ TurnOn \/ TurnOff \/ Joined
  \/ OpenLog \/ OpenRaises \/ Wake \/ Stopped \/ NoLine \/ HandleLine \/ HandleLineRaises
  \/ \E c \in Commands : Run(c) \/ Write(c)

TailSpec == TailInit /\ [][TailNext]_tailVars

-----------------------------------------------------------------------------
(***************************************************************************)
(* Properties.                                                             *)
(***************************************************************************)

(* The line that ends at n was in one piece when the reader came to it:    *)
(* nothing of another line before it, and no readline in the middle.       *)
Intact(m, n) ==
  /\ OneLine(m, n)
  /\ m - 1 \in cuts \cup {tailOpened} \/ Ends(log[m - 1])
  /\ m..(n - 1) \cap cuts = {}

(* A command is lost only when its line was met half written, got mixed up *)
(* with the line of another shell, or is not JSON: every other line behind *)
(* the reader has been published.                                          *)
LostOnlyIfBroken ==
  Tailing => \A m, n \in (tailOpened + 1)..pos :
    Intact(m, n) /\ log[n].cmd \notin NotJson =>
      \E i \in DOMAIN published : published[i] = n

(* "Only new commands from now on, never backfill prior history": a        *)
(* command that ended before capture was turned on, or while it was off,   *)
(* is never published, not even after it is turned on again.  (One that    *)
(* begins while it is off and ends while it is on is published: the hook   *)
(* writes the line of a command when it ends.)                             *)
PrivateWhileOff ==
  \A i \in DOMAIN published : log[published[i]].cmd \notin private

(* Events are stamped when they are published.  The reader takes one line  *)
(* each time it wakes: the delay of a command grows with the lines before  *)
(* it, by no more than one period for each, however they come in.          *)
BacklogBounded ==
  Tailing /\ switch = "on" =>
    \A n \in (pos + 1)..Len(log) : tailNow <= behind.since + (n - behind.from) * Period
=============================================================================
