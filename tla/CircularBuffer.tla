--------------------------- MODULE CircularBuffer ---------------------------
(***************************************************************************)
(* The time-windowed event store of Black Box (app/buffer), fed by the     *)
(* collector threads through the event bus (app/events).                   *)
(*                                                                         *)
(* An Event is stamped when its factory runs (events/normalizer.py) and is *)
(* appended later, when the publishing thread gets the buffer lock.  The   *)
(* threads race between these two points, so the deque is ordered by       *)
(* arrival and not by timestamp; eviction nevertheless looks only at the   *)
(* head of the deque.                                                      *)
(*                                                                         *)
(* Time is a counter of ticks.  MaxDelay bounds how many ticks a publisher *)
(* may spend between stamping an event and appending it.  MaxTime and      *)
(* MaxRuns bound the clock and the number of process restarts.             *)
(***************************************************************************)
EXTENDS Integers, Sequences

CONSTANTS
  Events,     \* the events collectors may publish (each Event has a fresh uuid)
  Retention,  \* buffer.retention_seconds
  MaxDelay,   \* bound: ticks between stamping and appending an event
  MaxTime,    \* bound: last tick of the clock
  MaxRuns     \* bound: number of restarts of the process

ASSUME BufferAssumption ==
  /\ Retention \in Nat
  /\ MaxDelay \in Nat
  /\ MaxTime \in Nat
  /\ MaxRuns \in Nat

VARIABLES
  now,      \* datetime.now(timezone.utc)
  run,      \* how often the process was restarted
  created,  \* events stamped so far
  past,     \* the created events that died with an earlier process
  stamp,    \* Event.timestamp, meaningful for created events
  pending,  \* events stamped by a publisher that has not appended them yet
  events    \* CircularBuffer._events, the oldest arrival first

bufferVars == <<now, run, created, past, stamp, pending, events>>

InBuffer == {events[i] : i \in DOMAIN events}

-----------------------------------------------------------------------------
(***************************************************************************)
(* Eviction.                                                               *)
(***************************************************************************)

(* Event.age_seconds against the current clock. *)
Age(e) == now - stamp[e]

(* Mutant: the comparison of the eviction loop is off by one. *)
ExpiredAtLimit(e) == Age(e) >= Retention

(* The test of the eviction loop: strictly older than the window. *)
Expired(e) == Age(e) > Retention

(* Mutant: the loop is an "if", at most one head is popped. *)
SweepsAtMostOne(q, k) ==
  k = IF q # <<>> /\ Expired(q[1]) THEN 1 ELSE 0

(* _evict_locked pops heads of the deque q while they are expired: it      *)
(* stops after k pops, at the first event young enough.                    *)
Sweeps(q, k) ==
  /\ \A i \in 1..k : Expired(q[i])
  /\ k < Len(q) => ~Expired(q[k + 1])

Kept(q, k) == SubSeq(q, k + 1, Len(q))

Popped(q, k) == {q[i] : i \in 1..k}

-----------------------------------------------------------------------------
Init ==
  /\ now = 0
  /\ run = 0
  /\ created = {}
  /\ past = {}
  /\ stamp = [e \in Events |-> 0]
  /\ pending = {}
  /\ events = <<>>

(* The clock advances; no publisher is stalled for more than MaxDelay.     *)
Tick ==
  /\ now < MaxTime
  /\ \A e \in pending : Age(e) < MaxDelay
  /\ now' = now + 1
  /\ UNCHANGED <<run, created, past, stamp, pending, events>>

(* A collector builds an Event: the timestamp is taken here. *)
Create(e) ==
  /\ e \notin created
  /\ created' = created \cup {e}
  /\ stamp' = [stamp EXCEPT ![e] = now]
  /\ pending' = pending \cup {e}
  /\ UNCHANGED <<now, run, past, events>>

(* Mutant: new events enter the deque at the end eviction looks at. *)
AddLeft(e, k) ==
  LET q == <<e>> \o events IN
  /\ e \in pending
  /\ k \in 0..Len(q)
  /\ Sweeps(q, k)
  /\ events' = Kept(q, k)
  /\ pending' = pending \ {e}
  /\ UNCHANGED <<now, run, created, past, stamp>>

(* CircularBuffer.add: append and evict k heads, all under the lock. *)
Add(e, k) ==
  LET q == Append(events, e) IN
  /\ e \in pending
  /\ k \in 0..Len(q)
  /\ Sweeps(q, k)
  /\ events' = Kept(q, k)
  /\ pending' = pending \ {e}
  /\ UNCHANGED <<now, run, created, past, stamp>>

(* The locked part of CircularBuffer.snapshot: evict, then copy. *)
Snapshot(k) ==
  /\ k \in 0..Len(events)
  /\ Sweeps(events, k)
  /\ events' = Kept(events, k)
  /\ UNCHANGED <<now, run, created, past, stamp, pending>>

(* The process ends and is started again: the buffer lives in memory only, *)
(* and what the publisher threads held is gone with them.                  *)
Restart ==
  /\ run < MaxRuns
  /\ run' = run + 1
  /\ past' = created
  /\ events' = <<>>
  /\ pending' = {}
  /\ UNCHANGED <<now, created, stamp>>

(* The bound on the clock is reached: nothing is left to observe. *)
Quiesce ==
  /\ now = MaxTime
  /\ UNCHANGED bufferVars

Next ==
  \/ Tick
  \/ \E e \in Events : Create(e)
  \/ \E e \in pending, k \in 0..Len(events) + 1 : Add(e, k)
  \/ \E k \in 0..Len(events) : Snapshot(k)
  \/ Restart
  \/ Quiesce

Spec == Init /\ [][Next]_bufferVars

-----------------------------------------------------------------------------
(***************************************************************************)
(* Properties.                                                             *)
(***************************************************************************)

(* Every variable keeps its type; only created events are in flight or     *)
(* buffered, and no timestamp lies in the future.                          *)
TypeOK ==
  /\ now \in Nat
  /\ run \in Nat
  /\ created \subseteq Events
  /\ past \subseteq created
  /\ stamp \in [Events -> Nat]
  /\ pending \subseteq created
  /\ events \in Seq(created)
  /\ \A e \in created : stamp[e] <= now

(* An event never sits in the buffer twice, nor both in the buffer and in  *)
(* the hands of a publisher: IncidentManager._merge relies on one Event    *)
(* per event_id.                                                           *)
NoDuplicates ==
  /\ \A i, j \in DOMAIN events : events[i] = events[j] => i = j
  /\ \A i \in DOMAIN events : events[i] \notin pending

(* The publishers' race reorders the deque by at most MaxDelay ticks: an   *)
(* event may stand behind one that is younger than itself, but not by more *)
(* than the time a publisher may stall between stamping and appending.     *)
ReorderBounded ==
  \A i, j \in DOMAIN events :
    i < j => stamp[events[i]] <= stamp[events[j]] + MaxDelay

(* Although eviction only looks at the head, whatever the buffer holds     *)
(* after an operation swept it is at most Retention + MaxDelay old: an     *)
(* expired event hidden behind a younger head is overdue by the publishers'*)
(* delay and no more.                                                      *)
RetentionBounded ==
  [][ (events' # events /\ run' = run) =>
        \A i \in DOMAIN events' : now' - stamp'[events'[i]] <= Retention + MaxDelay
    ]_bufferVars

(* The black box never forgets early: every event that any collector of    *)
(* the running process published is in the buffer until it is older than   *)
(* the retention window, whatever was appended or swept in between.        *)
WindowKept ==
  \A e \in created \ (past \cup pending) : Age(e) <= Retention => e \in InBuffer
=============================================================================
