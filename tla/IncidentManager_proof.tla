----------------------- MODULE IncidentManager_proof -----------------------
(***************************************************************************)
(* Proofs about CircularBuffer and, built on them, about IncidentManager,  *)
(* for every set of events and triggers and every setting.                 *)
(*                                                                         *)
(* The buffer.  The retention bound is not a property of the eviction loop *)
(* alone: the loop stops at the first young head, so an expired event may  *)
(* hide behind it.  The argument goes through the order of the deque       *)
(* (ReorderBounded), which in turn needs that a publisher never holds an   *)
(* event for more than MaxDelay ticks (PublishersPrompt).  Their           *)
(* conjunction with TypeOK, NoDuplicates and WindowKept is inductive.      *)
(*                                                                         *)
(* The manager is layered on the buffer: its steps are steps of the buffer *)
(* or leave it alone (BufferRefined), so the theorems about the buffer     *)
(* hold here too.  The invariants of the manager are proved one after the  *)
(* other, each from the ones before it.                                    *)
(***************************************************************************)
EXTENDS IncidentManager, SequenceTheorems, FiniteSetTheorems, TLAPS

-----------------------------------------------------------------------------
(***************************************************************************)
(* The buffer: its steps, its inductive invariant, its theorems.           *)
(***************************************************************************)

(* A publisher holds an event it stamped for at most MaxDelay ticks. *)
PublishersPrompt == \A e \in pending : now <= stamp[e] + MaxDelay

(* The facts about one deque q that appending and sweeping preserve. *)
WellOrdered(q) ==
  \A i, j \in DOMAIN q : i < j => stamp[q[i]] <= stamp[q[j]] + MaxDelay

Distinct(q) == \A i, j \in DOMAIN q : q[i] = q[j] => i = j

Disjoint(q, S) == \A i \in DOMAIN q : q[i] \notin S

BufferInv ==
  /\ TypeOK
  /\ NoDuplicates
  /\ PublishersPrompt
  /\ ReorderBounded
  /\ WindowKept

-----------------------------------------------------------------------------
(* What the sweep of a deque q leaves: a suffix of q, which loses nothing  *)
(* but the k popped heads (the slice of CircularBuffer._evict_locked).     *)
LEMMA KeptIsSuffix ==
  ASSUME NEW S, NEW q \in Seq(S), NEW k \in 0..Len(q)
  PROVE  /\ Kept(q, k) \in Seq(S)
         /\ Len(Kept(q, k)) = Len(q) - k
         /\ \A i \in 1..(Len(q) - k) : Kept(q, k)[i] = q[k + i]
<1> Len(q) \in Nat
  BY LenProperties
<1>1. CASE k = Len(q)
  <2>1. Kept(q, k) = << >>
    BY <1>1, SubSeqEmpty DEF Kept
  <2> QED BY <2>1, <1>1, EmptySeq
<1>2. CASE k < Len(q)
  <2>1. k + 1 \in 1..(Len(q) + 1)
    BY <1>2
  <2> QED BY <2>1, <1>2, SubSeqProperties DEF Kept
<1> QED BY <1>1, <1>2

(* The initial state satisfies the inductive invariant. *)
LEMMA BufferInit == Init => BufferInv
<1> SUFFICES ASSUME Init PROVE BufferInv
  OBVIOUS
<1>1. TypeOK
  BY EmptySeq DEF Init, TypeOK
<1>2. DOMAIN events = {}
  BY DEF Init
<1> QED BY <1>1, <1>2 
  DEF Init, BufferInv, NoDuplicates, PublishersPrompt, ReorderBounded, WindowKept

-----------------------------------------------------------------------------
(* Appending the event a publisher holds keeps the deque well ordered: the *)
(* event is at most MaxDelay old, and nothing buffered is from the future. *)
LEMMA AppendKeeps ==
  ASSUME BufferInv, NEW e \in pending
  PROVE  LET q == Append(events, e) IN
         /\ q \in Seq(created)
         /\ WellOrdered(q)
         /\ Distinct(q)
         /\ Disjoint(q, pending \ {e})
<1> DEFINE q == Append(events, e)
<1> USE DEF BufferInv
<1>1. events \in Seq(created) /\ e \in created
  BY DEF TypeOK
<1>2. /\ q \in Seq(created)
      /\ Len(q) = Len(events) + 1
      /\ \A i \in 1..Len(events) : q[i] = events[i]
      /\ q[Len(events) + 1] = e
  BY <1>1, AppendProperties
<1>3. DOMAIN q = 1..(Len(events) + 1) /\ DOMAIN events = 1..Len(events) /\ Len(events) \in Nat
  BY <1>1, <1>2, LenProperties
<1> HIDE DEF q
<1>4. \A i \in DOMAIN q : i \in DOMAIN events \/ (i = Len(events) + 1 /\ q[i] = e)
  BY <1>2, <1>3
<1>5. \A i \in DOMAIN events : q[i] = events[i] /\ events[i] \in created
  BY <1>1, <1>2, <1>3, ElementOfSeq
<1>6. WellOrdered(q)
  <2> SUFFICES ASSUME NEW i \in DOMAIN q, NEW j \in DOMAIN q, i < j
               PROVE  stamp[q[i]] <= stamp[q[j]] + MaxDelay
    BY DEF WellOrdered
  <2>1. i \in DOMAIN events
    BY <1>3
  <2>2. CASE j \in DOMAIN events
    BY <2>1, <2>2, <1>5 DEF ReorderBounded
  <2>3. CASE q[j] = e
    <3>1. stamp[events[i]] <= now /\ stamp[events[i]] \in Nat
      BY <2>1, <1>5 DEF TypeOK
    <3>2. now <= stamp[e] + MaxDelay /\ stamp[e] \in Nat /\ now \in Nat
      BY <1>1 DEF PublishersPrompt, TypeOK
    <3> QED BY <3>1, <3>2, <2>1, <2>3, <1>5, BufferAssumption
  <2> QED BY <2>2, <2>3, <1>4
<1>7. Distinct(q)
  BY <1>4, <1>5 DEF Distinct, NoDuplicates
<1>8. Disjoint(q, pending \ {e})
  BY <1>4, <1>5 DEF Disjoint, NoDuplicates
<1> QED BY <1>2, <1>6, <1>7, <1>8 DEF q

(* What is in the deque, and the appended event, are in the longer deque. *)
LEMMA AppendHolds ==
  ASSUME TypeOK, NEW e \in pending, NEW x, x = e \/ x \in InBuffer
  PROVE  \E i \in DOMAIN Append(events, e) : Append(events, e)[i] = x
<1> DEFINE q == Append(events, e)
<1>1. events \in Seq(created) /\ e \in created
  BY DEF TypeOK
<1>2. /\ q \in Seq(created)
      /\ Len(q) = Len(events) + 1
      /\ \A i \in 1..Len(events) : q[i] = events[i]
      /\ q[Len(events) + 1] = e
  BY <1>1, AppendProperties
<1>3. DOMAIN q = 1..(Len(events) + 1) /\ DOMAIN events = 1..Len(events) /\ Len(events) \in Nat
  BY <1>1, <1>2, LenProperties
<1> HIDE DEF q
<1>4. CASE x = e
  BY <1>2, <1>3, <1>4 DEF q
<1>5. CASE x \in InBuffer
  <2>1. PICK i \in DOMAIN events : events[i] = x
    BY <1>5 DEF InBuffer
  <2> QED BY <2>1, <1>2, <1>3 DEF q
<1> QED BY <1>4, <1>5

(* Popping heads keeps what holds of the deque. *)
LEMMA SweepKeeps ==
  ASSUME NEW S, NEW q \in Seq(S), NEW k \in 0..Len(q), NEW P,
         WellOrdered(q), Distinct(q), Disjoint(q, P)
  PROVE  /\ Kept(q, k) \in Seq(S)
         /\ WellOrdered(Kept(q, k))
         /\ Distinct(Kept(q, k))
         /\ Disjoint(Kept(q, k), P)
<1> DEFINE r == Kept(q, k)
<1>1. /\ r \in Seq(S)
      /\ Len(r) = Len(q) - k
      /\ \A i \in 1..(Len(q) - k) : r[i] = q[k + i]
  BY KeptIsSuffix
<1>2. DOMAIN r = 1..(Len(q) - k) /\ DOMAIN q = 1..Len(q) /\ Len(q) \in Nat
  BY <1>1, LenProperties
<1> HIDE DEF r
<1>3. \A i \in DOMAIN r : r[i] = q[k + i] /\ k + i \in DOMAIN q /\ i \in Nat
  BY <1>1, <1>2
<1>4. WellOrdered(r)
  <2> SUFFICES ASSUME NEW i \in DOMAIN r, NEW j \in DOMAIN r, i < j
               PROVE  stamp[r[i]] <= stamp[r[j]] + MaxDelay
    BY DEF WellOrdered
  <2>1. k + i < k + j
    BY <1>3
  <2> QED BY <2>1, <1>3 DEF WellOrdered
<1>5. Distinct(r)
  <2> SUFFICES ASSUME NEW i \in DOMAIN r, NEW j \in DOMAIN r, r[i] = r[j]
               PROVE  i = j
    BY DEF Distinct
  <2>1. k + i = k + j
    BY <1>3 DEF Distinct
  <2> QED BY <2>1, <1>3
<1>6. Disjoint(r, P)
  BY <1>3 DEF Disjoint
<1> QED BY <1>1, <1>4, <1>5, <1>6 DEF r

(* A sweep pops nothing but expired events. *)
LEMMA SweepLosesOnlyExpired ==
  ASSUME NEW S, NEW q \in Seq(S), NEW k \in 0..Len(q), Sweeps(q, k),
         NEW i \in DOMAIN q
  PROVE  Age(q[i]) > Retention \/ \E j \in DOMAIN Kept(q, k) : Kept(q, k)[j] = q[i]
<1> DEFINE r == Kept(q, k)
<1>1. /\ r \in Seq(S)
      /\ Len(r) = Len(q) - k
      /\ \A j \in 1..(Len(q) - k) : r[j] = q[k + j]
  BY KeptIsSuffix
<1>2. DOMAIN r = 1..(Len(q) - k) /\ DOMAIN q = 1..Len(q) /\ Len(q) \in Nat
  BY <1>1, LenProperties
<1> HIDE DEF r
<1>3. CASE i <= k
  <2>1. i \in 1..k
    BY <1>2, <1>3
  <2> QED BY <2>1 DEF Sweeps, Expired
<1>4. CASE k < i
  <2>1. i - k \in DOMAIN r /\ k + (i - k) = i
    BY <1>2, <1>4
  <2> QED BY <2>1, <1>1, <1>2 DEF r
<1> QED BY <1>2, <1>3, <1>4

-----------------------------------------------------------------------------
(* Every step preserves the inductive invariant. *)
LEMMA BufferStep == BufferInv /\ [Next]_bufferVars => BufferInv'
<1> SUFFICES ASSUME BufferInv, [Next]_bufferVars PROVE BufferInv'
  OBVIOUS
<1> USE BufferAssumption
<1> USE DEF BufferInv
<1>1. CASE Tick
  <2>1. UNCHANGED <<run, created, past, stamp, pending, events>> /\ now' = now + 1
    BY <1>1 DEF Tick
  <2>2. TypeOK'
    BY <2>1 DEF TypeOK
  <2>3. PublishersPrompt'
    BY <1>1 DEF Tick, PublishersPrompt, Age, TypeOK
  <2>4. WindowKept'
    BY <2>1 DEF WindowKept, Age, InBuffer, TypeOK
  <2> QED BY <2>1, <2>2, <2>3, <2>4 DEF NoDuplicates, ReorderBounded
<1>2. ASSUME NEW e \in Events, Create(e) PROVE BufferInv'
  <2> USE <1>2 DEF Create
  <2>1. \A i \in DOMAIN events : events[i] \in created /\ events[i] # e
    BY ElementOfSeq, LenProperties DEF TypeOK
  <2>2. TypeOK'
    <3>1. events' \in Seq(created')
      BY SeqMonotonic DEF TypeOK
    <3> QED BY <3>1 DEF TypeOK
  <2>3. NoDuplicates'
    BY <2>1 DEF NoDuplicates
  <2>4. PublishersPrompt'
    BY DEF PublishersPrompt, TypeOK
  <2>5. ReorderBounded'
    BY <2>1 DEF ReorderBounded, TypeOK
  <2>6. WindowKept'
    BY DEF WindowKept, Age, InBuffer
  <2> QED BY <2>2, <2>3, <2>4, <2>5, <2>6
<1>3. ASSUME NEW e \in pending, NEW k \in 0..Len(events) + 1, Add(e, k) PROVE BufferInv'
  <2> DEFINE q == Append(events, e)
  <2>1. /\ k \in 0..Len(q)
        /\ events' = Kept(q, k)
        /\ pending' = pending \ {e}
        /\ UNCHANGED <<now, run, created, past, stamp>>
    BY <1>3 DEF Add
  <2>2. q \in Seq(created) /\ WellOrdered(q) /\ Distinct(q) /\ Disjoint(q, pending \ {e})
    BY AppendKeeps
  <2> HIDE DEF q
  <2>3. /\ events' \in Seq(created)
        /\ WellOrdered(events')
        /\ Distinct(events')
        /\ Disjoint(events', pending')
    BY <2>1, <2>2, SweepKeeps
  <2>4. TypeOK' /\ PublishersPrompt'
    BY <2>1, <2>3 DEF TypeOK, PublishersPrompt
  <2>5. NoDuplicates' /\ ReorderBounded'
    BY <2>1, <2>3 DEF NoDuplicates, ReorderBounded, WellOrdered, Distinct, Disjoint
  <2>6. ASSUME NEW x \in created \ (past \cup pending'), Age(x) <= Retention
        PROVE  x \in InBuffer'
    <3>1. x = e \/ x \in InBuffer
      BY <2>1, <2>6 DEF WindowKept
    <3>2. PICK i \in DOMAIN q : q[i] = x
      BY <3>1, AppendHolds DEF q
    <3>3. ~(Age(x) > Retention)
      BY <2>6 DEF Age, TypeOK
    <3>4. Sweeps(q, k)
      BY <1>3 DEF Add, q
    <3> QED BY <2>1, <2>2, <3>2, <3>3, <3>4, SweepLosesOnlyExpired DEF InBuffer
  <2>7. WindowKept'
    BY <2>1, <2>6 DEF WindowKept, Age
  <2> QED BY <2>4, <2>5, <2>7
<1>4. ASSUME NEW k \in 0..Len(events), Snapshot(k) PROVE BufferInv'
  <2>1. events' = Kept(events, k) /\ UNCHANGED <<now, run, created, past, stamp, pending>>
    BY <1>4 DEF Snapshot
  <2>2. events \in Seq(created) /\ WellOrdered(events) /\ Distinct(events) /\ Disjoint(events, pending)
    BY DEF TypeOK, NoDuplicates, ReorderBounded, WellOrdered, Distinct, Disjoint
  <2>3. /\ events' \in Seq(created)
        /\ WellOrdered(events')
        /\ Distinct(events')
        /\ Disjoint(events', pending')
    BY <2>1, <2>2, SweepKeeps
  <2>4. TypeOK' /\ PublishersPrompt'
    BY <2>1, <2>3 DEF TypeOK, PublishersPrompt
  <2>5. NoDuplicates' /\ ReorderBounded'
    BY <2>1, <2>3 DEF NoDuplicates, ReorderBounded, WellOrdered, Distinct, Disjoint
  <2>6. ASSUME NEW x \in created \ (past \cup pending), Age(x) <= Retention
        PROVE  x \in InBuffer'
    <3>1. PICK i \in DOMAIN events : events[i] = x
      BY <2>6 DEF WindowKept, InBuffer
    <3>2. ~(Age(x) > Retention)
      BY <2>6 DEF Age, TypeOK
    <3>3. Sweeps(events, k)
      BY <1>4 DEF Snapshot
    <3> QED BY <2>1, <2>2, <3>1, <3>2, <3>3, SweepLosesOnlyExpired DEF InBuffer
  <2>7. WindowKept'
    BY <2>1, <2>6 DEF WindowKept, Age
  <2> QED BY <2>4, <2>5, <2>7
<1>5. CASE Restart
  <2>1. events' = << >> /\ DOMAIN events' = {} /\ pending' = {}
    BY <1>5 DEF Restart
  <2>2. TypeOK'
    BY <1>5, EmptySeq DEF Restart, TypeOK
  <2>3. WindowKept'
    BY <1>5 DEF Restart, WindowKept
  <2> QED BY <2>1, <2>2, <2>3 DEF NoDuplicates, ReorderBounded, PublishersPrompt
<1>6. CASE UNCHANGED bufferVars
  BY <1>6
  DEF bufferVars, TypeOK, NoDuplicates, ReorderBounded, PublishersPrompt, WindowKept, Age, InBuffer
<1>7. CASE Quiesce
  BY <1>6, <1>7 DEF Quiesce
<1> QED BY <1>1, <1>2, <1>3, <1>4, <1>5, <1>6, <1>7 DEF Next

(* The conjunction of the named invariants holds in every reachable state  *)
(* of the buffer, whatever the interleaving of its publishers.             *)
THEOREM BufferInvariance == Spec => []BufferInv
BY BufferInit, BufferStep, PTL DEF Spec

(* The variables of CircularBuffer keep their types, buffered events were  *)
(* created and no timestamp lies in the future.                            *)
THEOREM BufferTypeCorrect == Spec => []TypeOK
BY BufferInvariance, PTL DEF BufferInv

(* CircularBuffer._events never holds an event twice: one publish, one     *)
(* entry.                                                                  *)
THEOREM NoDuplicatesHolds == Spec => []NoDuplicates
BY BufferInvariance, PTL DEF BufferInv

(* However many publishers race between stamping and appending, the deque  *)
(* is out of timestamp order by at most their delay.                       *)
THEOREM ReorderBoundedHolds == Spec => []ReorderBounded
BY BufferInvariance, PTL DEF BufferInv

(* The black box forgets nothing that is still inside its window: a        *)
(* published event stays in the buffer until it is older than the          *)
(* retention window.                                                       *)
THEOREM WindowKeptHolds == Spec => []WindowKept
BY BufferInvariance, PTL DEF BufferInv

-----------------------------------------------------------------------------
(* When the loop of _evict_locked stops, its head is young enough, and so  *)
(* the events behind it are overdue by at most the publishers' delay.      *)
LEMMA SweepFreshens ==
  ASSUME TypeOK, NEW q \in Seq(created), WellOrdered(q),
         NEW k \in 0..Len(q), Sweeps(q, k)
  PROVE  \A i \in DOMAIN Kept(q, k) :
            now - stamp[Kept(q, k)[i]] <= Retention + MaxDelay
<1> DEFINE r == Kept(q, k)
<1>1. /\ r \in Seq(created)
      /\ Len(r) = Len(q) - k
      /\ \A i \in 1..(Len(q) - k) : r[i] = q[k + i]
  BY KeptIsSuffix
<1>2. DOMAIN r = 1..(Len(q) - k) /\ DOMAIN q = 1..Len(q) /\ Len(q) \in Nat
  BY <1>1, LenProperties
<1> HIDE DEF r
<1> SUFFICES ASSUME NEW i \in DOMAIN r
             PROVE  now - stamp[r[i]] <= Retention + MaxDelay
  BY DEF r
<1>3. k + 1 \in DOMAIN q /\ k + i \in DOMAIN q /\ r[i] = q[k + i]
  BY <1>1, <1>2
<1>4. q[k + 1] \in created /\ q[k + i] \in created
  BY <1>2, <1>3, ElementOfSeq
<1>5. now \in Nat /\ stamp[q[k + 1]] \in Nat /\ stamp[q[k + i]] \in Nat
  BY <1>4 DEF TypeOK
<1>6. now - stamp[q[k + 1]] <= Retention
  <2>1. k < Len(q)
    BY <1>2, <1>3
  <2>2. ~(now - stamp[q[k + 1]] > Retention)
    BY <2>1 DEF Sweeps, Expired, Age
  <2> QED BY <2>2, <1>5, BufferAssumption
<1>7. stamp[q[k + 1]] <= stamp[q[k + i]] + MaxDelay
  <2>1. CASE i = 1
    BY <2>1, <1>5, BufferAssumption
  <2>2. CASE i # 1
    <3>1. k + 1 < k + i
      BY <2>2, <1>2
    <3> QED BY <3>1, <1>3 DEF WellOrdered
  <2> QED BY <2>1, <2>2
<1> QED BY <1>3, <1>5, <1>6, <1>7, BufferAssumption

(* A step that changes the deque sweeps it, so what it leaves is no older  *)
(* than the window and the publishers' delay together.                     *)
LEMMA RetentionStep ==
  BufferInv /\ [Next]_bufferVars =>
    (events' # events /\ run' = run =>
       \A i \in DOMAIN events' : now' - stamp'[events'[i]] <= Retention + MaxDelay)
<1> SUFFICES ASSUME BufferInv, [Next]_bufferVars, events' # events, run' = run
             PROVE  \A i \in DOMAIN events' :
                       now' - stamp'[events'[i]] <= Retention + MaxDelay
  OBVIOUS
<1> USE DEF BufferInv
<1>1. ASSUME NEW e \in pending, NEW k \in 0..Len(events) + 1, Add(e, k)
      PROVE  \A i \in DOMAIN events' :
                now' - stamp'[events'[i]] <= Retention + MaxDelay
  <2> DEFINE q == Append(events, e)
  <2>1. k \in 0..Len(q) /\ Sweeps(q, k) /\ events' = Kept(q, k) /\ UNCHANGED <<now, stamp>>
    BY <1>1 DEF Add
  <2>2. q \in Seq(created) /\ WellOrdered(q)
    BY AppendKeeps
  <2> HIDE DEF q
  <2> QED BY <2>1, <2>2, SweepFreshens
<1>2. ASSUME NEW k \in 0..Len(events), Snapshot(k)
      PROVE  \A i \in DOMAIN events' :
                now' - stamp'[events'[i]] <= Retention + MaxDelay
  <2>1. Sweeps(events, k) /\ events' = Kept(events, k) /\ UNCHANGED <<now, stamp>>
    BY <1>2 DEF Snapshot
  <2>2. events \in Seq(created) /\ WellOrdered(events)
    BY DEF TypeOK, ReorderBounded, WellOrdered
  <2> QED BY <2>1, <2>2, SweepFreshens
<1>3. ~Restart
  BY DEF Restart, TypeOK
<1>4. ~Tick /\ ~Quiesce /\ ~UNCHANGED bufferVars /\ \A e \in Events : ~Create(e)
  BY DEF Tick, Quiesce, Create, bufferVars
<1> QED BY <1>1, <1>2, <1>3, <1>4 DEF Next

(* The retention promise of the buffer: whatever an operation leaves in it *)
(* is no older than buffer.retention_seconds plus the publishers' delay.   *)
THEOREM RetentionBoundedHolds == Spec => RetentionBounded
<1>1. BufferInv /\ [Next]_bufferVars =>
        [events' # events /\ run' = run =>
           \A i \in DOMAIN events' :
              now' - stamp'[events'[i]] <= Retention + MaxDelay]_bufferVars
  BY RetentionStep
<1> QED BY <1>1, BufferInvariance, PTL DEF Spec, RetentionBounded

-----------------------------------------------------------------------------
(***************************************************************************)
(* The buffer under the manager.                                           *)
(***************************************************************************)

(* What a step of the manager does to the buffer. *)
LEMMA StepOfBuffer == [ManagerNext]_vars => [Next]_bufferVars
<1> SUFFICES ASSUME [ManagerNext]_vars PROVE [Next]_bufferVars
  OBVIOUS
<1>1. CASE ManagerTick
  BY <1>1 DEF ManagerTick, Next
<1>2. ASSUME NEW e \in Events, Capture(e) PROVE Next
  BY <1>2 DEF Capture, Next
<1>3. ASSUME NEW e \in pending, NEW k \in Sweep, Publish(e, k) PROVE Next
  BY <1>3 DEF Publish, Next, Sweep
<1>4. ASSUME NEW k \in Sweep, Snapshot(k) PROVE Next
  BY <1>4 DEF Snapshot, Next
<1>5. ASSUME NEW t \in Triggers, TriggerThread(t) PROVE [Next]_bufferVars
  BY <1>4, <1>5 DEF TriggerThread, Admit, Drop, SnapshotPre, StartThread, SpawnFails
<1>6. ASSUME NEW t \in Triggers, IncidentThread(t) \/ Fail(t) PROVE [Next]_bufferVars
  BY <1>4, <1>6 DEF IncidentThread, Wake, CopyScreenshot, WriteRaw, Close, Fail
<1>7. CASE ManagerRestart
  BY <1>7 DEF ManagerRestart, Next
<1>8. CASE ManagerQuiesce
  BY <1>8 DEF ManagerQuiesce, Next
<1>9. CASE UNCHANGED vars
  BY <1>9 DEF vars
<1>10. ASSUME NEW k \in Sweep, StatusPoll(k) PROVE Next
  BY <1>4, <1>10 DEF StatusPoll
<1> QED
  BY <1>1, <1>2, <1>3, <1>5, <1>6, <1>7, <1>8, <1>9, <1>10 DEF ManagerNext

(* The buffer inside the manager is a CircularBuffer: a behaviour of the   *)
(* whole is one of the part, and all that is proved of the part holds.     *)
THEOREM BufferRefined == ManagerSpec => Spec
<1>1. ManagerInit => Init
  BY DEF ManagerInit
<1> QED BY <1>1, StepOfBuffer, PTL DEF ManagerSpec, Spec

(* What a sweep keeps and what it pops make up the deque. *)
LEMMA SweepSplits ==
  ASSUME NEW S, NEW q \in Seq(S), NEW k \in 0..Len(q), Distinct(q)
  PROVE  {Kept(q, k)[i] : i \in DOMAIN Kept(q, k)} = {q[i] : i \in DOMAIN q} \ Popped(q, k)
<1> DEFINE r == Kept(q, k)
<1>1. /\ r \in Seq(S)
      /\ Len(r) = Len(q) - k
      /\ \A i \in 1..(Len(q) - k) : r[i] = q[k + i]
  BY KeptIsSuffix
<1>2. DOMAIN r = 1..(Len(q) - k) /\ DOMAIN q = 1..Len(q) /\ Len(q) \in Nat
  BY <1>1, LenProperties
<1> HIDE DEF r
<1>3. ASSUME NEW i \in DOMAIN r
      PROVE  r[i] \in {q[j] : j \in DOMAIN q} \ Popped(q, k)
  <2>1. r[i] = q[k + i] /\ k + i \in DOMAIN q
    BY <1>1, <1>2
  <2>2. ASSUME NEW j \in 1..k, q[j] = q[k + i] PROVE FALSE
    BY <2>1, <2>2, <1>2 DEF Distinct
  <2> QED BY <2>1, <2>2 DEF Popped
<1>4. ASSUME NEW i \in DOMAIN q, q[i] \notin Popped(q, k)
      PROVE  \E j \in DOMAIN r : r[j] = q[i]
  <2>1. ~(i \in 1..k)
    BY <1>4 DEF Popped
  <2>2. i - k \in DOMAIN r /\ r[i - k] = q[k + (i - k)] /\ k + (i - k) = i
    BY <2>1, <1>1, <1>2
  <2> QED BY <2>2
<1> QED BY <1>3, <1>4 DEF r

(* The effect of a snapshot's sweep on the set of buffered events. *)
LEMMA SnapshotSplits ==
  ASSUME BufferInv, NEW k, Snapshot(k)
  PROVE  /\ InBuffer' = InBuffer \ Popped(events, k)
         /\ {events'[i] : i \in DOMAIN events'} = InBuffer'
         /\ Popped(events, k) \subseteq InBuffer
         /\ UNCHANGED <<now, run, created, past, stamp, pending>>
<1>1. k \in 0..Len(events) /\ events' = Kept(events, k) /\ UNCHANGED <<now, run, created, past, stamp, pending>>
  BY DEF Snapshot
<1>2. events \in Seq(created) /\ Distinct(events)
  BY DEF BufferInv, TypeOK, NoDuplicates, Distinct
<1>3. 1..k \subseteq DOMAIN events
  BY <1>1, <1>2, LenProperties
<1>4. {Kept(events, k)[i] : i \in DOMAIN Kept(events, k)} = InBuffer \ Popped(events, k)
  BY <1>1, <1>2, SweepSplits DEF InBuffer
<1>5. {events'[i] : i \in DOMAIN events'} = InBuffer'
  BY DEF InBuffer
<1>6. InBuffer' = {Kept(events, k)[i] : i \in DOMAIN Kept(events, k)}
  BY <1>1 DEF InBuffer
<1>7. Popped(events, k) \subseteq InBuffer
  BY <1>3 DEF InBuffer, Popped
<1> QED BY <1>1, <1>4, <1>5, <1>6, <1>7

(* The effect of publishing on the set of buffered events. *)
LEMMA AddSplits ==
  ASSUME BufferInv, NEW e \in pending, NEW k, Add(e, k)
  PROVE  /\ InBuffer' = (InBuffer \cup {e}) \ Popped(Append(events, e), k)
         /\ pending' = pending \ {e}
         /\ UNCHANGED <<now, run, created, past, stamp>>
<1> DEFINE q == Append(events, e)
<1>1. k \in 0..Len(q) /\ events' = Kept(q, k) /\ pending' = pending \ {e} /\ UNCHANGED <<now, run, created, past, stamp>>
  BY DEF Add
<1>2. q \in Seq(created) /\ Distinct(q)
  BY AppendKeeps
<1>3. {q[i] : i \in DOMAIN q} = InBuffer \cup {e}
  <2>1. \A x : x = e \/ x \in InBuffer => \E i \in DOMAIN q : q[i] = x
    BY AppendHolds DEF BufferInv
  <2>2. events \in Seq(created) /\ e \in created
    BY DEF BufferInv, TypeOK
  <2>3. \A i \in DOMAIN q : q[i] = e \/ q[i] \in InBuffer
    BY <2>2, AppendProperties, LenProperties DEF InBuffer
  <2> QED BY <2>1, <2>3
<1> HIDE DEF q
<1>4. InBuffer' = {Kept(q, k)[i] : i \in DOMAIN Kept(q, k)}
  BY <1>1 DEF InBuffer
<1> QED BY <1>1, <1>2, <1>3, <1>4, SweepSplits DEF q

-----------------------------------------------------------------------------
(***************************************************************************)
(* The slot counter.                                                       *)
(***************************************************************************)

PhaseOK == phase \in [Triggers -> Phases]

(* Only the publication of a failure event starts the handling of it. *)
RaisedByPublishing ==
  \A e \in Failures : phase[e] # "none" => e \in created \ pending

SlotInv == PhaseOK /\ RaisedByPublishing /\ SlotsAccounted

(* Taking a slot adds one incident to those that hold one. *)
LEMMA OneMore ==
  ASSUME PhaseOK, NEW t \in Triggers, NEW p \in Holding, phase[t] \notin Holding,
         phase' = [phase EXCEPT ![t] = p]
  PROVE  Cardinality(In(Holding)') = Cardinality(In(Holding)) + 1
<1>1. In(Holding)' = In(Holding) \cup {t} /\ t \notin In(Holding)
  BY DEF In, PhaseOK
<1>2. IsFiniteSet(In(Holding))
  BY ManagerAssumption, FS_Subset DEF In
<1> QED BY <1>1, <1>2, FS_AddElement

(* Giving a slot back takes one away. *)
LEMMA OneLess ==
  ASSUME PhaseOK, NEW t \in Triggers, NEW p, p \notin Holding, phase[t] \in Holding,
         phase' = [phase EXCEPT ![t] = p]
  PROVE  Cardinality(In(Holding)') = Cardinality(In(Holding)) - 1
<1>1. In(Holding)' = In(Holding) \ {t} /\ t \in In(Holding)
  BY DEF In, PhaseOK
<1>2. IsFiniteSet(In(Holding))
  BY ManagerAssumption, FS_Subset DEF In
<1> QED BY <1>1, <1>2, FS_RemoveElement

(* A step between two phases on the same side leaves the slots alone. *)
LEMMA SameSlots ==
  ASSUME PhaseOK, NEW t, NEW p, phase[t] \in Holding <=> p \in Holding,
         phase' = [phase EXCEPT ![t] = p]
  PROVE  In(Holding)' = In(Holding)
BY DEF In, PhaseOK

LEMMA SlotInit == ManagerInit => SlotInv
<1> SUFFICES ASSUME ManagerInit PROVE SlotInv
  OBVIOUS
<1>1. PhaseOK
  BY DEF ManagerInit, PhaseOK, Phases
<1>2. In(Holding) = {}
  BY DEF ManagerInit, In, Holding, Live, Opening, Finishing
<1>3. RaisedByPublishing
  BY DEF ManagerInit, RaisedByPublishing, Triggers
<1> QED BY <1>1, <1>2, <1>3, FS_EmptySet DEF ManagerInit, SlotInv, SlotsAccounted

(* What the steps of one trigger's handling do to its phase. *)
LEMMA PhaseStep ==
  ASSUME NEW t \in Triggers, SlotInv, UNCHANGED <<created, pending>>,
         NEW p \in Phases \ {"none"}, phase' = [phase EXCEPT ![t] = p],
         t \in Failures => phase[t] # "none"
  PROVE  PhaseOK' /\ RaisedByPublishing'
<1>1. PhaseOK'
  BY DEF SlotInv, PhaseOK
<1>2. ASSUME NEW e \in Failures, phase'[e] # "none" PROVE phase[e] # "none"
  BY <1>2 DEF SlotInv, PhaseOK, Triggers
<1> QED BY <1>1, <1>2 DEF SlotInv, RaisedByPublishing

(* Every step keeps the count of the slots. *)
LEMMA SlotStep == BufferInv /\ SlotInv /\ [ManagerNext]_vars => SlotInv'
<1> SUFFICES ASSUME BufferInv, SlotInv, [ManagerNext]_vars PROVE SlotInv'
  OBVIOUS
<1>0. ASSUME UNCHANGED <<phase, openIncidents>>, created \subseteq created', pending' \cap created \subseteq pending
      PROVE  SlotInv'
  BY <1>0 DEF SlotInv, SlotsAccounted, PhaseOK, RaisedByPublishing, In
<1>1. CASE ManagerTick
  BY <1>0, <1>1 DEF ManagerTick, Tick, managerVars
<1>2. ASSUME NEW e \in Events, Capture(e) PROVE SlotInv'
  BY <1>0, <1>2 DEF Capture, Create
<1>3. ASSUME NEW e \in pending, NEW k \in Sweep, Publish(e, k) PROVE SlotInv'
  <2>1. pending' = pending \ {e} /\ UNCHANGED created /\ UNCHANGED openIncidents
    BY <1>3 DEF Publish, Add
  <2>2. CASE e \notin Failures
    <3>1. UNCHANGED phase
      BY <1>3, <2>2 DEF Publish
    <3> QED BY <1>0, <2>1, <3>1
  <2>3. CASE e \in Failures
    <3>1. phase' = [phase EXCEPT ![e] = "raised"]
      BY <1>3, <2>3 DEF Publish
    <3>2. phase[e] = "none" /\ e \in Triggers /\ e \in created
      BY <2>3 DEF SlotInv, RaisedByPublishing, Triggers, BufferInv, TypeOK
    <3>3. In(Holding)' = In(Holding)
      BY <3>1, <3>2, SameSlots DEF SlotInv, Holding, Live, Opening, Finishing
    <3>4. PhaseOK'
      BY <3>1 DEF SlotInv, PhaseOK, Phases
    <3>5. ASSUME NEW f \in Failures, phase'[f] # "none" PROVE f = e \/ phase[f] # "none"
      BY <3>1, <3>5 DEF SlotInv, PhaseOK, Triggers
    <3>6. RaisedByPublishing'
      BY <3>2, <3>5, <2>1 DEF SlotInv, RaisedByPublishing
    <3> QED BY <2>1, <3>3, <3>4, <3>6 DEF SlotInv, SlotsAccounted
  <2> QED BY <2>2, <2>3
<1>4. ASSUME NEW k \in Sweep, StatusPoll(k) PROVE SlotInv'
  BY <1>0, <1>4 DEF StatusPoll, Snapshot
<1>5. ASSUME NEW t \in Triggers, Admit(t) PROVE SlotInv'
  <2>1. phase[t] \notin Holding /\ (t \in Failures => phase[t] # "none")
    BY <1>5, ManagerAssumption DEF Admit, Fires, Holding, Live, Opening, Finishing
  <2>2. /\ phase' = [phase EXCEPT ![t] = "admitted"]
        /\ openIncidents' = openIncidents + 1
        /\ UNCHANGED <<created, pending>>
    BY <1>5 DEF Admit, bufferVars
  <2>3. "admitted" \in Holding /\ "admitted" \in Phases \ {"none"}
    BY DEF Phases, Holding, Live, Opening, Finishing
  <2>4. Cardinality(In(Holding)') = Cardinality(In(Holding)) + 1
    BY <2>1, <2>2, <2>3, OneMore DEF SlotInv
  <2>5. PhaseOK' /\ RaisedByPublishing'
    BY <2>1, <2>2, <2>3, PhaseStep
  <2> QED BY <2>2, <2>4, <2>5 DEF SlotInv, SlotsAccounted
<1>6. ASSUME NEW t \in Triggers, NEW p \in Phases \ {"none"}, phase[t] \in Holding <=> p \in Holding,
             phase' = [phase EXCEPT ![t] = p], t \in Failures => phase[t] # "none",
             UNCHANGED <<created, pending, openIncidents>>
      PROVE  SlotInv'
  <2>1. In(Holding)' = In(Holding)
    BY <1>6, SameSlots DEF SlotInv
  <2>2. PhaseOK' /\ RaisedByPublishing'
    BY <1>6, PhaseStep
  <2> QED BY <1>6, <2>1, <2>2 DEF SlotInv, SlotsAccounted
<1>7. ASSUME NEW t \in Triggers, Drop(t) PROVE SlotInv'
  BY <1>6, <1>7, ManagerAssumption
  DEF Drop, Fires, bufferVars, Phases, Holding, Live, Opening, Finishing
<1>8. ASSUME NEW t \in Triggers, NEW k \in Sweep, SnapshotPre(t, k) PROVE SlotInv'
  BY <1>6, <1>8 DEF SnapshotPre, Snapshot, Phases, Holding, Live, Opening, Finishing
<1>9. ASSUME NEW t \in Triggers, StartThread(t) PROVE SlotInv'
  BY <1>6, <1>9 DEF StartThread, bufferVars, Phases, Holding, Live, Opening, Finishing
<1>10. ASSUME NEW t \in Triggers, SpawnFails(t) PROVE SlotInv'
  BY <1>6, <1>10 DEF SpawnFails, bufferVars, Phases, Holding, Live, Opening, Finishing
<1>11. ASSUME NEW t \in Triggers, NEW k \in Sweep, Wake(t, k) PROVE SlotInv'
  BY <1>6, <1>11 DEF Wake, Snapshot, Phases, Holding, Live, Opening, Finishing
<1>12. ASSUME NEW t \in Triggers, NEW e \in todo[t], CopyScreenshot(t, e) PROVE SlotInv'
  BY <1>0, <1>12 DEF CopyScreenshot, bufferVars
<1>13. ASSUME NEW t \in Triggers, WriteRaw(t) PROVE SlotInv'
  BY <1>6, <1>13 DEF WriteRaw, bufferVars, Phases, Holding, Live, Opening, Finishing
<1>14. ASSUME NEW t \in Triggers, Close(t) \/ Fail(t) PROVE SlotInv'
  <2>1. PICK p \in {"closed", "failed"} : phase' = [phase EXCEPT ![t] = p]
    BY <1>14 DEF Close, Fail
  <2>2. /\ phase[t] \in Holding
        /\ phase[t] # "none"
        /\ openIncidents' = openIncidents - 1
        /\ UNCHANGED <<created, pending>>
    BY <1>14 DEF Close, Fail, bufferVars, Holding, Live, Opening, Finishing
  <2>3. p \notin Holding /\ p \in Phases \ {"none"}
    BY DEF Phases, Holding, Live, Opening, Finishing
  <2>4. Cardinality(In(Holding)') = Cardinality(In(Holding)) - 1
    BY <2>1, <2>2, <2>3, OneLess DEF SlotInv
  <2>5. PhaseOK' /\ RaisedByPublishing'
    BY <2>1, <2>2, <2>3, PhaseStep
  <2> QED BY <2>2, <2>4, <2>5 DEF SlotInv, SlotsAccounted
<1>15. CASE ManagerRestart
  <2>1. \A t \in Triggers : phase'[t] \in Phases \ Holding
    BY <1>15 DEF ManagerRestart, SlotInv, PhaseOK, Phases, Holding, Live, Opening, Finishing
  <2>2. In(Holding)' = {}
    BY <2>1 DEF In
  <2>3. PhaseOK'
    BY <1>15, <2>1 DEF ManagerRestart, PhaseOK
  <2>4. \A t \in Triggers : phase'[t] # "none" => phase[t] # "none"
    BY <1>15 DEF ManagerRestart, Holding, Live, Opening, Finishing
  <2>5. RaisedByPublishing'
    BY <1>15, <2>4 DEF ManagerRestart, Restart, SlotInv, RaisedByPublishing, Triggers
  <2> QED BY <1>15, <2>2, <2>3, <2>5, FS_EmptySet DEF ManagerRestart, SlotInv, SlotsAccounted
<1>16. CASE ManagerQuiesce \/ UNCHANGED vars
  BY <1>0, <1>16 DEF ManagerQuiesce, Quiesce, vars, bufferVars, managerVars
<1> QED
  BY <1>1, <1>2, <1>3, <1>4, <1>5, <1>7, <1>8, <1>9, <1>10, <1>11, <1>12, <1>13, <1>14, <1>15, <1>16
  DEF ManagerNext, TriggerThread, IncidentThread

(* _open_incidents counts the incidents that hold a slot, for any number   *)
(* of triggers, limits, failures and restarts.                             *)
THEOREM SlotsAccountedHolds == ManagerSpec => []SlotsAccounted
<1>1. ManagerSpec => []BufferInv
  BY BufferRefined, BufferInvariance, PTL
<1>2. ManagerSpec => []SlotInv
  BY <1>1, SlotInit, SlotStep, PTL DEF ManagerSpec
<1>3. SlotInv => SlotsAccounted
  BY DEF SlotInv
<1> QED BY <1>2, <1>3, PTL

-----------------------------------------------------------------------------
(***************************************************************************)
(* The counter implements the abstract limit, as long as threads start.    *)
(***************************************************************************)

NothingLeaked == \A t \in Triggers : phase[t] # "leaked"

Over == {"closed", "failed", "lost", "leaked"}

LEMMA NothingLeakedStep ==
  ASSUME ~SpawnMayFail, SlotInv, NothingLeaked, [ManagerNext]_vars
  PROVE  NothingLeaked'
<1> USE DEF NothingLeaked
<1>0. CASE UNCHANGED phase
  BY <1>0
<1>1. ASSUME NEW e \in pending, NEW k \in Sweep, Publish(e, k) PROVE NothingLeaked'
  BY <1>1 DEF Publish, SlotInv, PhaseOK
<1>2. ASSUME NEW t \in Triggers, TriggerThread(t) \/ IncidentThread(t) \/ Fail(t)
      PROVE  NothingLeaked'
  BY <1>2
  DEF TriggerThread, IncidentThread, Admit, Drop, SnapshotPre, StartThread, SpawnFails, Wake,
      CopyScreenshot, WriteRaw, Close, Fail, SlotInv, PhaseOK
<1>3. CASE ManagerRestart
  BY <1>3 DEF ManagerRestart
<1> QED
  BY <1>0, <1>1, <1>2, <1>3
  DEF ManagerNext, ManagerTick, Capture, StatusPoll, ManagerQuiesce, managerVars, vars

(* Each step admits, refuses or closes one trigger, closes all of them at  *)
(* a restart, or does not touch the limit.                                 *)
LEMMA LimitStep ==
  ASSUME BufferInv, SlotInv, NothingLeaked, [ManagerNext]_vars
  PROVE  [Limit!Next]_(Limit!admissionVars)
<1> USE DEF Limit!admissionVars
<1> DEFINE Frozen == /\ In(Live)' = In(Live)
                     /\ In(Over)' = In(Over)
                     /\ In({"dropped"})' = In({"dropped"})
<1>0. CASE Frozen
  BY <1>0 DEF Over
<1>1. In(Live) = In(Holding)
  BY DEF NothingLeaked, In, Holding
<1>2. CASE UNCHANGED phase
  BY <1>2, <1>0 DEF In
<1>3. ASSUME NEW t \in Triggers, NEW p, phase' = [phase EXCEPT ![t] = p],
             phase[t] \in Live <=> p \in Live,
             phase[t] \notin Over \cup {"dropped"}, p \notin Over \cup {"dropped"}
      PROVE  Frozen
  BY <1>3 DEF In, SlotInv, PhaseOK
<1> USE DEF Live, Opening, Finishing, Over
<1>4. ASSUME NEW e \in pending, NEW k \in Sweep, Publish(e, k) PROVE Frozen
  <2>1. CASE e \in Failures
    <3>1. phase[e] = "none" /\ e \in Triggers
      BY <2>1 DEF SlotInv, RaisedByPublishing, Triggers
    <3>2. phase' = [phase EXCEPT ![e] = "raised"]
      BY <2>1, <1>4 DEF Publish
    <3> QED BY <3>1, <3>2, <1>3
  <2>2. CASE e \notin Failures
    BY <2>2, <1>4 DEF Publish, In
  <2> QED BY <2>1, <2>2
<1>5. ASSUME NEW t \in Triggers, Admit(t) PROVE Limit!Admit(t)
  <2>1. phase[t] \in {"none", "raised"} /\ phase' = [phase EXCEPT ![t] = "admitted"]
    BY <1>5 DEF Admit, Fires
  <2>2. In(Live)' = In(Live) \cup {t} /\ In(Over)' = In(Over) /\ In({"dropped"})' = In({"dropped"})
    BY <2>1 DEF In, SlotInv, PhaseOK
  <2>3. Cardinality(In(Live)) < MaxOpen
    BY <1>1, <1>5 DEF Admit, SlotInv, SlotsAccounted
  <2>4. t \notin In(Live) \cup In(Over) \cup In({"dropped"})
    BY <2>1 DEF In
  <2> QED BY <2>2, <2>3, <2>4 DEF Limit!Admit, Limit!Fresh, Limit!Cardinality, Cardinality
<1>6. ASSUME NEW t \in Triggers, Drop(t) PROVE Limit!Refuse(t)
  <2>1. phase[t] \in {"none", "raised"} /\ phase' = [phase EXCEPT ![t] = "dropped"]
    BY <1>6 DEF Drop, Fires
  <2>2. In(Live)' = In(Live) /\ In(Over)' = In(Over) /\ In({"dropped"})' = In({"dropped"}) \cup {t}
    BY <2>1 DEF In, SlotInv, PhaseOK
  <2>3. Cardinality(In(Live)) >= MaxOpen
    BY <1>1, <1>6 DEF Drop, SlotInv, SlotsAccounted
  <2>4. t \notin In(Live) \cup In(Over) \cup In({"dropped"})
    BY <2>1 DEF In
  <2> QED BY <2>2, <2>3, <2>4 DEF Limit!Refuse, Limit!Fresh, Limit!Cardinality, Cardinality
<1>7. ASSUME NEW t \in Triggers, Close(t) \/ Fail(t) PROVE Limit!Close(t)
  <2>1. PICK p \in {"closed", "failed"} : phase' = [phase EXCEPT ![t] = p]
    BY <1>7 DEF Close, Fail
  <2>2. phase[t] \in {"copying", "ready"}
    BY <1>7 DEF Close, Fail
  <2>3. /\ t \in In(Live)
        /\ In(Live)' = In(Live) \ {t}
        /\ In(Over)' = In(Over) \cup {t}
        /\ In({"dropped"})' = In({"dropped"})
    BY <2>1, <2>2 DEF In, SlotInv, PhaseOK
  <2> QED BY <2>3 DEF Limit!Close
<1>8. ASSUME NEW t \in Triggers,
             \/ \E k \in Sweep : SnapshotPre(t, k)
             \/ StartThread(t)
             \/ \E k \in Sweep : Wake(t, k)
             \/ WriteRaw(t)
      PROVE  Frozen
  <2>1. PICK p \in Live : phase' = [phase EXCEPT ![t] = p]
    BY <1>8 DEF SnapshotPre, StartThread, Wake, WriteRaw
  <2>2. phase[t] \in Live
    BY <1>8 DEF SnapshotPre, StartThread, Wake, WriteRaw
  <2> QED BY <2>1, <2>2, <1>3
<1>9. CASE ManagerRestart
  <2>1. /\ In(Live)' = {}
        /\ In(Over)' = In(Over) \cup In(Live)
        /\ In({"dropped"})' = In({"dropped"})
    BY <1>9 DEF ManagerRestart, In, Holding
  <2> QED BY <2>1 DEF Limit!Next, Limit!Crash
<1>10. ASSUME NEW t \in Triggers, SpawnFails(t) PROVE Limit!Close(t)
  <2>1. phase[t] = "snapped" /\ phase' = [phase EXCEPT ![t] = "leaked"]
    BY <1>10 DEF SpawnFails
  <2>2. /\ t \in In(Live)
        /\ In(Live)' = In(Live) \ {t}
        /\ In(Over)' = In(Over) \cup {t}
        /\ In({"dropped"})' = In({"dropped"})
    BY <2>1 DEF In, SlotInv, PhaseOK
  <2> QED BY <2>2 DEF Limit!Close
<1>11. ASSUME NEW t \in Triggers, NEW e \in todo[t], CopyScreenshot(t, e) PROVE UNCHANGED phase
  BY <1>11 DEF CopyScreenshot
<1> QED
  BY <1>0, <1>2, <1>4, <1>5, <1>6, <1>7, <1>8, <1>9, <1>10, <1>11
  DEF ManagerNext, ManagerTick, Capture, StatusPoll, ManagerQuiesce, managerVars, vars,
      TriggerThread, IncidentThread, Limit!Next

(* The incident limit as specified in Admission holds of the manager for   *)
(* any number of triggers and any limit, provided threads can be started:  *)
(* never more than MaxOpen open, refused only then, freed when over.       *)
THEOREM AdmissionImplemented ==
  ASSUME ~SpawnMayFail
  PROVE  ManagerSpec => AdmissionSpec
<1>1. ManagerInit => NothingLeaked /\ Limit!Init
  BY DEF ManagerInit, NothingLeaked, Limit!Init, In, Live, Opening, Finishing
<1>2. ManagerSpec => []BufferInv
  BY BufferRefined, BufferInvariance, PTL
<1>3. ManagerSpec => []SlotInv
  BY <1>2, SlotInit, SlotStep, PTL DEF ManagerSpec
<1>4. SlotInv /\ NothingLeaked /\ [ManagerNext]_vars => NothingLeaked'
  BY NothingLeakedStep
<1>5. ManagerSpec => []NothingLeaked
  BY <1>1, <1>3, <1>4, PTL DEF ManagerSpec
<1>6. BufferInv /\ SlotInv /\ NothingLeaked /\ [ManagerNext]_vars => [Limit!Next]_(Limit!admissionVars)
  BY LimitStep
<1> QED BY <1>1, <1>2, <1>3, <1>5, <1>6, PTL DEF ManagerSpec, AdmissionSpec, Limit!Spec

(* What the log message of a dropped trigger says is true as long as       *)
(* threads can be started, for any number of triggers and any limit: a     *)
(* thread that cannot be started is the only way to a drop below the limit.*)
THEOREM DropOnlyAtLimitHolds ==
  ASSUME ~SpawnMayFail
  PROVE  ManagerSpec => DropOnlyAtLimit
<1> DEFINE DropStep == \A t \in Triggers :
                         phase[t] # "dropped" /\ phase'[t] = "dropped" =>
                           Cardinality(In(Live)) >= MaxOpen
<1>1. ManagerSpec => []BufferInv
  BY BufferRefined, BufferInvariance, PTL
<1>2. ManagerSpec => []SlotInv
  BY <1>1, SlotInit, SlotStep, PTL DEF ManagerSpec
<1>3. ManagerInit => NothingLeaked
  BY DEF ManagerInit, NothingLeaked
<1>4. SlotInv /\ NothingLeaked /\ [ManagerNext]_vars => NothingLeaked'
  BY NothingLeakedStep
<1>5. BufferInv /\ SlotInv /\ NothingLeaked /\ [ManagerNext]_vars => DropStep
  <2> SUFFICES ASSUME BufferInv, SlotInv, NothingLeaked, [ManagerNext]_vars,
                      NEW t \in Triggers, phase[t] # "dropped", phase'[t] = "dropped"
               PROVE  Cardinality(In(Live)) >= MaxOpen
    OBVIOUS
  <2>1. t \in In({"dropped"})' /\ t \notin In({"dropped"})
    BY DEF In
  <2>2. [Limit!Next]_(Limit!admissionVars)
    BY LimitStep
  <2>3. PICK u \in Triggers : Limit!Refuse(u)
    BY <2>1, <2>2
    DEF Limit!Next, Limit!Admit, Limit!Close, Limit!Crash, Limit!admissionVars
  <2> QED BY <2>3 DEF Limit!Refuse, Limit!Cardinality, Cardinality
<1>6. ManagerSpec => []NothingLeaked
  BY <1>2, <1>3, <1>4, PTL DEF ManagerSpec
<1>7. ManagerSpec => [][DropStep]_vars
  BY <1>1, <1>2, <1>5, <1>6, PTL DEF ManagerSpec
<1> QED BY <1>7 DEF DropOnlyAtLimit

-----------------------------------------------------------------------------
(***************************************************************************)
(* Types, image files and copies.                                          *)
(***************************************************************************)

(* The data of an incident is typed, and nothing is copied before the tail *)
(* is merged: until then the evidence may still shrink.                    *)
DataOK ==
  /\ openedAt \in [Triggers -> Nat]
  /\ wakeAt \in [Triggers -> Nat]
  /\ evidence \in [Triggers -> SUBSET created]
  /\ todo \in [Triggers -> SUBSET Screens]
  /\ owned \in [Triggers -> SUBSET Screens]
  /\ \A t \in Triggers : todo[t] \cup owned[t] \subseteq evidence[t]
  /\ \A t \in Triggers : phase[t] \in {"none", "raised", "admitted", "snapped", "tail"} =>
                           todo[t] \cup owned[t] = {}

FilesOK ==
  /\ path = [e \in Screens |-> Storage]
  /\ files \subseteq ({Storage} \cup Triggers) \X Screens
  /\ undeleted \subseteq (created \cap Screens) \ (pending \cup InBuffer)

FileInv == DataOK /\ FilesOK /\ CopiesDurable /\ ImagesTrackBuffer

LEMMA FileInit == ManagerInit => FileInv
BY DEF ManagerInit, Init, FileInv, DataOK, FilesOK, CopiesDurable, ImagesTrackBuffer, InBuffer

(* The data of the incidents is typed from step to step. *)
LEMMA DataStep == BufferInv /\ SlotInv /\ DataOK /\ FilesOK /\ [ManagerNext]_vars => DataOK'
<1> SUFFICES ASSUME BufferInv, SlotInv, DataOK, FilesOK, [ManagerNext]_vars PROVE DataOK'
  OBVIOUS
<1> USE DEF SlotInv, PhaseOK, DataOK
<1>0. ASSUME UNCHANGED <<openedAt, wakeAt, evidence, todo, owned>>, created \subseteq created',
             \A t \in Triggers : phase'[t] = phase[t] \/ phase'[t] \notin {"none", "raised", "admitted", "snapped", "tail"}
                                                     \/ phase[t] \in {"none", "raised", "admitted", "snapped", "tail"}
      PROVE  DataOK'
  BY <1>0
<1>1. CASE UNCHANGED phase /\ UNCHANGED <<openedAt, wakeAt, evidence, todo, owned>> /\ created \subseteq created'
  BY <1>0, <1>1
<1>2. ASSUME NEW e \in Events, Capture(e) PROVE DataOK'
  BY <1>1, <1>2 DEF Capture, Create
<1>3. ASSUME NEW e \in pending, NEW k \in Sweep, Publish(e, k) PROVE DataOK'
  <2>1. e \in Failures => phase[e] = "none"
    BY DEF RaisedByPublishing
  <2> QED BY <1>0, <1>3, <2>1 DEF Publish, Add, Triggers
<1>4. ASSUME NEW t \in Triggers, Admit(t) PROVE DataOK'
  <2>1. phase[t] \in {"none", "raised"} /\ now \in Nat
    BY <1>4 DEF Admit, Fires, BufferInv, TypeOK
  <2> QED BY <1>4, <2>1 DEF Admit, bufferVars
<1>5. ASSUME NEW t \in Triggers, Drop(t) PROVE DataOK'
  BY <1>0, <1>5 DEF Drop, bufferVars
<1>6. ASSUME NEW t \in Triggers, NEW k \in Sweep, SnapshotPre(t, k) PROVE DataOK'
  <2>1. {events'[i] : i \in DOMAIN events'} \subseteq created /\ created' = created
    <3>1. Snapshot(k)
      BY <1>6 DEF SnapshotPre
    <3>2. InBuffer \subseteq created
      BY LenProperties DEF BufferInv, TypeOK, InBuffer
    <3> QED BY <3>1, <3>2, SnapshotSplits
  <2> QED BY <1>6, <2>1 DEF SnapshotPre
<1>7. ASSUME NEW t \in Triggers, StartThread(t) PROVE DataOK'
  <2>1. now + PostWait \in Nat
    BY ManagerAssumption DEF BufferInv, TypeOK
  <2>2. evidence' = [evidence EXCEPT ![t] = {e \in evidence[t] : Age(e) <= PreWindow}]
    BY <1>7 DEF StartThread
  <2> QED BY <1>7, <2>1, <2>2 DEF StartThread, bufferVars
<1>8. ASSUME NEW t \in Triggers, SpawnFails(t) PROVE DataOK'
  BY <1>8 DEF SpawnFails, bufferVars
<1>9. ASSUME NEW t \in Triggers, NEW k \in Sweep, Wake(t, k) PROVE DataOK'
  <2>1. {events'[i] : i \in DOMAIN events'} \subseteq created /\ created' = created
    <3>1. Snapshot(k)
      BY <1>9 DEF Wake
    <3>2. InBuffer \subseteq created
      BY LenProperties DEF BufferInv, TypeOK, InBuffer
    <3> QED BY <3>1, <3>2, SnapshotSplits
  <2>2. evidence' \in [Triggers -> SUBSET created]
    BY <1>9, <2>1 DEF Wake
  <2>3. \A u \in Triggers : evidence[u] \subseteq evidence'[u]
    BY <1>9 DEF Wake
  <2>4. todo' = [todo EXCEPT ![t] = evidence'[t] \cap Screens] /\ UNCHANGED <<openedAt, wakeAt, owned>>
    BY <1>9 DEF Wake
  <2>5. phase' = [phase EXCEPT ![t] = "copying"]
    BY <1>9 DEF Wake
  <2> QED BY <2>1, <2>2, <2>3, <2>4, <2>5
<1>10. ASSUME NEW t \in Triggers, NEW e \in todo[t], CopyScreenshot(t, e) PROVE DataOK'
  BY <1>10 DEF CopyScreenshot, LooksAt, bufferVars
<1>11. ASSUME NEW t \in Triggers, WriteRaw(t) \/ Close(t) PROVE DataOK'
  BY <1>0, <1>11 DEF WriteRaw, Close, bufferVars
<1>12. ASSUME NEW t \in Triggers, Fail(t) PROVE DataOK'
  BY <1>12 DEF Fail, bufferVars
<1>13. CASE ManagerRestart
  BY <1>13 DEF ManagerRestart, Restart, Holding, Live, Opening, Finishing
<1>14. ASSUME NEW k \in Sweep, StatusPoll(k) PROVE DataOK'
  BY <1>1, <1>14 DEF StatusPoll, Snapshot
<1> QED
  BY <1>1, <1>2, <1>3, <1>4, <1>5, <1>6, <1>7, <1>8, <1>9, <1>10, <1>11, <1>12, <1>13, <1>14
  DEF ManagerNext, ManagerTick, Tick, ManagerQuiesce, Quiesce, managerVars, bufferVars, vars,
      TriggerThread, IncidentThread

(* What one eviction does to the files: the images of the popped events    *)
(* in the storage directory go, but for those whose unlink raises, and     *)
(* nothing else.                                                           *)
LEMMA Deleted ==
  ASSUME FilesOK, NEW q, NEW k, DeleteImages(q, k), undeleted \cap Popped(q, k) = {}
  PROVE  /\ \A e \in Screens :
              <<Storage, e>> \in files' <=>
                <<Storage, e>> \in files /\ (e \notin Popped(q, k) \/ e \in undeleted')
         /\ \A t \in Triggers, e \in Screens : <<t, e>> \in files' <=> <<t, e>> \in files
         /\ files' \subseteq files
         /\ undeleted \subseteq undeleted'
         /\ undeleted' \subseteq undeleted \cup (Popped(q, k) \cap Screens)
<1>1. PICK failed \in SUBSET (Popped(q, k) \cap Screens) :
         /\ files' = files \ {<<Storage, e>> : e \in (Popped(q, k) \cap Screens) \ failed}
         /\ undeleted' = undeleted \cup failed
  BY DEF DeleteImages, FilesOK
<1>2. \A t \in Triggers : t # Storage
  BY ManagerAssumption
<1> QED BY <1>1, <1>2

(* A sweep takes an event out of the buffer and its image off the disk.    *)
LEMMA SnapshotFiles ==
  ASSUME BufferInv, SlotInv, DataOK, FilesOK, CopiesDurable, ImagesTrackBuffer,
         NEW k, Snapshot(k), DeleteImages(events, k), UNCHANGED <<owned, path>>
  PROVE  FilesOK' /\ CopiesDurable' /\ ImagesTrackBuffer'
<1>1. /\ InBuffer' = InBuffer \ Popped(events, k)
      /\ Popped(events, k) \subseteq InBuffer
      /\ UNCHANGED <<created, past, pending>>
  BY SnapshotSplits DEF Snapshot
<1>2. InBuffer \cap pending = {} /\ InBuffer \subseteq created
  BY LenProperties DEF BufferInv, NoDuplicates, TypeOK, InBuffer
<1>3. undeleted \cap Popped(events, k) = {}
  BY <1>1 DEF FilesOK
<1>4. FilesOK'
  BY <1>1, <1>2, <1>3, Deleted DEF FilesOK
<1>5. CopiesDurable'
  BY <1>3, Deleted DEF CopiesDurable, DataOK
<1>6. ImagesTrackBuffer'
  BY <1>1, <1>2, <1>3, Deleted DEF ImagesTrackBuffer
<1> QED BY <1>4, <1>5, <1>6

(* The same for the eviction that follows an append.                       *)
LEMMA PublishFiles ==
  ASSUME BufferInv, DataOK, FilesOK, CopiesDurable, ImagesTrackBuffer,
         NEW e \in pending, NEW k, Publish(e, k)
  PROVE  FilesOK' /\ CopiesDurable' /\ ImagesTrackBuffer'
<1> DEFINE q == Append(events, e)
<1>1. Add(e, k) /\ DeleteImages(q, k) /\ UNCHANGED <<owned, path>>
  BY DEF Publish
<1> HIDE DEF q
<1>2. /\ InBuffer' = (InBuffer \cup {e}) \ Popped(q, k)
      /\ pending' = pending \ {e}
      /\ UNCHANGED <<created, past>>
  BY <1>1, AddSplits DEF q, Add
<1>3. InBuffer \cap pending = {} /\ InBuffer \cup {e} \subseteq created
  BY LenProperties DEF BufferInv, NoDuplicates, TypeOK, InBuffer
<1>4. Popped(q, k) \subseteq InBuffer \cup {e}
  <2>1. k \in 0..Len(q)
    BY <1>1 DEF Add, q
  <2>2. events \in Seq(created) /\ e \in created
    BY DEF BufferInv, TypeOK
  <2>3. DOMAIN q = 1..(Len(events) + 1) /\ Len(q) = Len(events) + 1 /\ Len(events) \in Nat
    BY <2>2, AppendProperties, LenProperties DEF q
  <2>4. \A i \in DOMAIN q : q[i] \in InBuffer \cup {e}
    BY <2>2, AppendProperties, LenProperties DEF q, InBuffer
  <2> QED BY <2>1, <2>3, <2>4 DEF Popped
<1>5. undeleted \cap Popped(q, k) = {}
  BY <1>4 DEF FilesOK
<1>6. FilesOK'
  BY <1>1, <1>2, <1>3, <1>4, <1>5, Deleted DEF FilesOK
<1>7. CopiesDurable'
  BY <1>1, <1>5, Deleted DEF CopiesDurable, DataOK
<1>8. ImagesTrackBuffer'
  BY <1>1, <1>2, <1>3, <1>4, <1>5, Deleted DEF ImagesTrackBuffer
<1> QED BY <1>6, <1>7, <1>8

(* Every step keeps images and copies where they have to be.               *)
LEMMA FileStep == BufferInv /\ SlotInv /\ FileInv /\ [ManagerNext]_vars => FileInv'
<1> SUFFICES ASSUME BufferInv, SlotInv, FileInv, [ManagerNext]_vars PROVE FileInv'
  OBVIOUS
<1> DEFINE Goal == FilesOK' /\ CopiesDurable' /\ ImagesTrackBuffer'
<1>1. DataOK'
  BY DataStep DEF FileInv
<1> USE DEF FileInv
<1>2. CASE UNCHANGED <<owned, path, files, undeleted, created, past, pending, events>>
  BY <1>1, <1>2 DEF FilesOK, CopiesDurable, ImagesTrackBuffer, InBuffer
<1>3. ASSUME NEW k, Snapshot(k), DeleteImages(events, k), UNCHANGED <<owned, path>> PROVE Goal
  BY <1>3, SnapshotFiles
<1>4. ASSUME NEW e \in Events, Capture(e) PROVE Goal
  BY <1>4 DEF Capture, Create, FilesOK, CopiesDurable, ImagesTrackBuffer, InBuffer
<1>5. ASSUME NEW e \in pending, NEW k \in Sweep, Publish(e, k) PROVE Goal
  BY <1>5, PublishFiles
<1>6. ASSUME NEW t \in Triggers, TriggerThread(t) PROVE Goal
  <2>1. ASSUME NEW k \in Sweep, SnapshotPre(t, k) PROVE Goal
    BY <2>1, <1>3 DEF SnapshotPre
  <2> QED BY <1>2, <1>6, <2>1 DEF TriggerThread, Admit, Drop, StartThread, SpawnFails, bufferVars
<1>7. ASSUME NEW t \in Triggers, NEW k \in Sweep, Wake(t, k) PROVE Goal
  BY <1>7, <1>3 DEF Wake
<1>8. ASSUME NEW t \in Triggers, NEW e \in todo[t], CopyScreenshot(t, e) PROVE Goal
  <2>1. UNCHANGED <<path, undeleted, created, past, pending, events>>
    BY <1>8 DEF CopyScreenshot, bufferVars
  <2>2. \/ owned' = [owned EXCEPT ![t] = @ \cup {e}] /\ files' = files \cup {<<t, e>>}
        \/ UNCHANGED <<owned, files>>
    BY <1>8 DEF CopyScreenshot
  <2>3. t # Storage /\ e \in Screens
    BY ManagerAssumption DEF DataOK
  <2>4. CASE UNCHANGED <<owned, files>>
    BY <2>1, <2>4, <1>2
  <2>5. CASE owned' = [owned EXCEPT ![t] = @ \cup {e}] /\ files' = files \cup {<<t, e>>}
    <3>1. FilesOK'
      BY <2>1, <2>3, <2>5 DEF FilesOK, InBuffer
    <3>2. CopiesDurable'
      BY <2>5 DEF CopiesDurable, DataOK
    <3>3. ImagesTrackBuffer'
      BY <2>1, <2>3, <2>5 DEF ImagesTrackBuffer, InBuffer
    <3> QED BY <3>1, <3>2, <3>3
  <2> QED BY <2>2, <2>4, <2>5
<1>9. ASSUME NEW t \in Triggers, WriteRaw(t) \/ Close(t) \/ Fail(t) PROVE Goal
  BY <1>2, <1>9 DEF WriteRaw, Close, Fail, bufferVars
<1>10. CASE ManagerRestart
  <2>1. /\ past' = created /\ created' = created /\ pending' = {} /\ events' = <<>>
        /\ UNCHANGED <<owned, path, files, undeleted>>
    BY <1>10 DEF ManagerRestart, Restart
  <2>2. InBuffer' = {}
    BY <2>1 DEF InBuffer
  <2>3. InBuffer \cup pending \cup past \subseteq created
    BY LenProperties DEF BufferInv, TypeOK, InBuffer
  <2> QED BY <1>1, <2>1, <2>2, <2>3 DEF FilesOK, CopiesDurable, ImagesTrackBuffer
<1>11. ASSUME NEW k \in Sweep, StatusPoll(k) PROVE Goal
  BY <1>3, <1>11 DEF StatusPoll
<1> QED
  BY <1>1, <1>2, <1>4, <1>5, <1>6, <1>7, <1>8, <1>9, <1>10, <1>11
  DEF ManagerNext, ManagerTick, Tick, ManagerQuiesce, Quiesce, managerVars, bufferVars, vars, IncidentThread

(* All that is inductive about the manager. *)
THEOREM FileInvariance == ManagerSpec => [](BufferInv /\ SlotInv /\ FileInv)
<1>1. ManagerSpec => []BufferInv
  BY BufferRefined, BufferInvariance, PTL
<1> QED BY <1>1, SlotInit, SlotStep, FileInit, FileStep, PTL DEF ManagerSpec

(* Every variable keeps its type; in particular the counter never becomes  *)
(* negative, and the buffer's Events keep pointing into the storage        *)
(* directory whatever incidents do with their copies.                      *)
THEOREM ManagerTypeCorrect == ManagerSpec => []ManagerTypeOK
<1>1. SlotInv /\ FileInv => ManagerTypeOK
  <2> SUFFICES ASSUME SlotInv, FileInv PROVE ManagerTypeOK
    OBVIOUS
  <2>1. IsFiniteSet(In(Holding))
    BY ManagerAssumption, FS_Subset DEF In
  <2>2. openIncidents \in Nat
    BY <2>1, FS_CardinalityType DEF SlotInv, SlotsAccounted
  <2> QED BY <2>2 DEF SlotInv, PhaseOK, FileInv, DataOK, FilesOK, ManagerTypeOK
<1> QED BY <1>1, FileInvariance, PTL

(* No eviction ever deletes a copy an incident refers to.                  *)
THEOREM CopiesDurableHolds == ManagerSpec => []CopiesDurable
<1>1. FileInv => CopiesDurable
  BY DEF FileInv
<1> QED BY <1>1, FileInvariance, PTL

(* The storage directory holds exactly the images of the events that are   *)
(* published or buffered and of those whose deletion raised, apart from    *)
(* those of earlier processes.                                             *)
THEOREM ImagesTrackBufferHolds == ManagerSpec => []ImagesTrackBuffer
<1>1. FileInv => ImagesTrackBuffer
  BY DEF FileInv
<1> QED BY <1>1, FileInvariance, PTL

-----------------------------------------------------------------------------
(***************************************************************************)
(* The window of an incident.                                              *)
(***************************************************************************)

(* How far the clock can be from the times an incident remembers.          *)
Timely ==
  \A t \in Triggers :
    /\ phase[t] \in Opening \cup {"tail"} => openedAt[t] <= now
    /\ phase[t] \in Opening => now <= openedAt[t] + MaxDelay
    /\ phase[t] = "tail" => /\ wakeAt[t] <= openedAt[t] + MaxDelay + PostWait
                            /\ now <= wakeAt[t] + MaxDelay
    /\ phase[t] \in {"copying", "ready", "closed"} => wakeAt[t] <= now

(* The event is young enough, for the window and for the buffer, until the *)
(* handling of the trigger has taken its snapshot.                         *)
Reaches(t, e) ==
  /\ openedAt[t] + MaxDelay <= stamp[e] + PreWindow
  /\ openedAt[t] + MaxDelay <= stamp[e] + Retention

(* During the tail an event of the window is in hand, or it was stamped so *)
(* late that the buffer still has it when the tail is over.                *)
InHand ==
  \A t \in Triggers, e \in created \ past :
    phase[t] \in {"snapped", "tail"} /\ Reaches(t, e) =>
      e \in evidence[t] \/ openedAt[t] <= stamp[e] + MaxDelay

WindowInv == Timely /\ InHand /\ WindowComplete

LEMMA WindowInit == ManagerInit => WindowInv
BY DEF ManagerInit, Init, WindowInv, Timely, InHand, WindowComplete, In, Opening

(* What the earlier invariants say of the times.                           *)
LEMMA TimesTyped ==
  ASSUME BufferInv, DataOK
  PROVE  /\ now \in Int /\ MaxDelay \in Nat /\ Retention \in Nat /\ PreWindow \in Nat /\ PostWait \in Nat
         /\ \A t \in Triggers : openedAt[t] \in Int /\ wakeAt[t] \in Int
         /\ \A e \in created : stamp[e] \in Int /\ stamp[e] <= now
         /\ \A e \in created \ past : e \notin pending /\ now - stamp[e] <= Retention => e \in InBuffer
         /\ \A e \in pending : now <= stamp[e] + MaxDelay
BY BufferAssumption, ManagerAssumption
DEF BufferInv, TypeOK, WindowKept, PublishersPrompt, Age, DataOK

(* Steps that touch neither clock, buffer nor any incident but t.          *)
LEMMA TimelyStep == BufferInv /\ SlotInv /\ DataOK /\ Timely /\ [ManagerNext]_vars => Timely'
<1> SUFFICES ASSUME BufferInv, SlotInv, DataOK, Timely, [ManagerNext]_vars PROVE Timely'
  OBVIOUS
<1> USE TimesTyped
<1> USE DEF Timely, Opening, SlotInv, PhaseOK
<1>0. CASE UNCHANGED <<now, phase, openedAt, wakeAt>>
  BY <1>0
<1>1. CASE ManagerTick
  <2>1. now' = now + 1 /\ UNCHANGED <<phase, openedAt, wakeAt>> /\ \A t \in Triggers : Scheduled(t)
    BY <1>1 DEF ManagerTick, Tick, managerVars
  <2> QED BY <2>1 DEF Scheduled
<1>2. ASSUME NEW e \in pending, NEW k \in Sweep, Publish(e, k) PROVE Timely'
  BY <1>2 DEF Publish, Add
<1>3. ASSUME NEW t \in Triggers, Admit(t) PROVE Timely'
  BY <1>3 DEF Admit, bufferVars, DataOK
<1>4. ASSUME NEW t \in Triggers, Drop(t) \/ SpawnFails(t) \/ WriteRaw(t) \/ Close(t) \/ Fail(t)
      PROVE  Timely'
  BY <1>4 DEF Drop, SpawnFails, WriteRaw, Close, Fail, bufferVars
<1>5. ASSUME NEW t \in Triggers, NEW k \in Sweep, SnapshotPre(t, k) PROVE Timely'
  BY <1>5 DEF SnapshotPre, Snapshot
<1>6. ASSUME NEW t \in Triggers, StartThread(t) PROVE Timely'
  BY <1>6 DEF StartThread, bufferVars, DataOK
<1>7. ASSUME NEW t \in Triggers, NEW k \in Sweep, Wake(t, k) PROVE Timely'
  BY <1>7 DEF Wake, Snapshot
<1>8. CASE ManagerRestart
  BY <1>8 DEF ManagerRestart, Restart, Holding, Live, Finishing
<1> QED
  BY <1>0, <1>1, <1>2, <1>3, <1>4, <1>5, <1>6, <1>7, <1>8
  DEF ManagerNext, TriggerThread, IncidentThread, Capture, Create, StatusPoll, Snapshot,
      CopyScreenshot, ManagerQuiesce, Quiesce, managerVars, bufferVars, vars

(* The window stays within reach from the trigger to the end of the tail,  *)
(* and is complete from then on, when the tail and the delays fit into the *)
(* retention window.                                                       *)
LEMMA WindowStep ==
  ASSUME PostWait + 3 * MaxDelay <= Retention,
         BufferInv, BufferInv', SlotInv, DataOK, WindowInv, [ManagerNext]_vars
  PROVE  InHand' /\ WindowComplete'
<1> DEFINE Goal == InHand' /\ WindowComplete'
<1> USE TimesTyped
<1> USE DEF WindowInv
<1>0. CASE UNCHANGED <<created, past, stamp, phase, openedAt, wakeAt, evidence>>
  BY <1>0 DEF InHand, WindowComplete, Reaches, In
<1>1. ASSUME NEW e \in Events, Capture(e) PROVE Goal
  <2>1. /\ created' = created \cup {e} /\ e \notin created
        /\ stamp' = [stamp EXCEPT ![e] = now]
        /\ UNCHANGED <<past, phase, openedAt, wakeAt, evidence>>
    BY <1>1 DEF Capture, Create
  <2>2. stamp'[e] = now /\ \A x \in created : stamp'[x] = stamp[x]
    BY <2>1 DEF BufferInv, TypeOK
  <2>3. InHand'
    <3>1. \A t \in Triggers : phase[t] \in {"snapped", "tail"} => openedAt[t] <= now + MaxDelay
      BY DEF Timely, Opening
    <3> QED BY <2>1, <2>2, <3>1 DEF InHand, Reaches
  <2>4. WindowComplete'
    BY <2>1, <2>2 DEF WindowComplete, In, Timely
  <2> QED BY <2>3, <2>4
<1>2. ASSUME NEW t \in Triggers, NEW p \in Phases \ {"snapped", "tail", "copying"},
             phase' = [phase EXCEPT ![t] = p], p \in {"ready", "closed"} => phase[t] \in {"copying", "ready"},
             UNCHANGED <<created, past, stamp, wakeAt>>,
             \A u \in Triggers : u # t => openedAt'[u] = openedAt[u] /\ evidence'[u] = evidence[u],
             p \in {"ready", "closed"} => UNCHANGED <<openedAt, evidence>>
      PROVE  Goal
  BY <1>2 DEF InHand, WindowComplete, Reaches, In, SlotInv, PhaseOK
<1>3. ASSUME NEW e \in pending, NEW k \in Sweep, Publish(e, k) PROVE Goal
  <2>1. CASE e \in Failures
    BY <2>1, <1>2, <1>3 DEF Publish, Add, Triggers, Phases
  <2>2. CASE e \notin Failures
    BY <2>2, <1>0, <1>3 DEF Publish, Add
  <2> QED BY <2>1, <2>2
<1>4. ASSUME NEW t \in Triggers, Admit(t) \/ Drop(t) \/ SpawnFails(t) \/ WriteRaw(t) \/ Close(t) \/ Fail(t)
      PROVE  Goal
  <2>1. CASE Admit(t)
    BY <2>1, <1>2 DEF Admit, bufferVars, Phases, Holding, Live, Opening, DataOK
  <2>2. CASE Drop(t) \/ SpawnFails(t) \/ Fail(t)
    BY <2>2, <1>2 DEF Drop, SpawnFails, Fail, bufferVars, Phases, Holding, DataOK
  <2>3. CASE WriteRaw(t) \/ Close(t)
    BY <2>3, <1>2 DEF WriteRaw, Close, bufferVars, Phases, Holding, Live, Finishing
  <2> QED BY <1>4, <2>1, <2>2, <2>3
<1>5. ASSUME NEW t \in Triggers, NEW k \in Sweep, SnapshotPre(t, k) PROVE Goal
  <2>1. /\ phase[t] = "admitted"
        /\ phase' = [phase EXCEPT ![t] = "snapped"]
        /\ evidence' = [evidence EXCEPT ![t] = InBuffer']
        /\ UNCHANGED <<openedAt, wakeAt>>
    BY <1>5 DEF SnapshotPre, InBuffer
  <2>2. UNCHANGED <<now, created, past, stamp, pending>>
    BY <1>5 DEF SnapshotPre, Snapshot
  <2>3. openedAt[t] <= now /\ now <= openedAt[t] + MaxDelay
    BY <2>1 DEF Timely, Opening
  <2>4. ASSUME NEW e \in created \ past, Reaches(t, e)
        PROVE  e \in InBuffer' \/ openedAt[t] <= stamp[e] + MaxDelay
    <3>1. e \notin pending => Age(e) <= Retention /\ e \in InBuffer'
      BY <2>2, <2>3, <2>4 DEF Reaches, BufferInv, WindowKept, Age
    <3>2. e \in pending => openedAt[t] <= stamp[e] + MaxDelay
      BY <2>3
    <3> QED BY <3>1, <3>2
  <2>5. InHand'
    BY <2>1, <2>2, <2>4 DEF InHand, Reaches, SlotInv, PhaseOK, DataOK
  <2>6. WindowComplete'
    BY <2>1, <2>2 DEF WindowComplete, In, SlotInv, PhaseOK, DataOK
  <2> QED BY <2>5, <2>6
<1>6. ASSUME NEW t \in Triggers, StartThread(t) PROVE Goal
  <2>1. /\ phase[t] = "snapped"
        /\ phase' = [phase EXCEPT ![t] = "tail"]
        /\ evidence' = [evidence EXCEPT ![t] = {e \in evidence[t] : Age(e) <= PreWindow}]
        /\ wakeAt' = [wakeAt EXCEPT ![t] = now + PostWait]
        /\ UNCHANGED <<now, created, past, stamp, openedAt>>
    BY <1>6 DEF StartThread, bufferVars
  <2>2. now <= openedAt[t] + MaxDelay
    BY <2>1 DEF Timely, Opening
  <2>3. ASSUME NEW e \in created \ past, Reaches(t, e), e \in evidence[t] PROVE e \in evidence'[t]
    BY <2>1, <2>2, <2>3 DEF Reaches, Age, DataOK
  <2>4. InHand'
    BY <2>1, <2>3 DEF InHand, Reaches, SlotInv, PhaseOK, DataOK
  <2>5. WindowComplete'
    BY <2>1 DEF WindowComplete, In, SlotInv, PhaseOK, DataOK
  <2> QED BY <2>4, <2>5
<1>7. ASSUME NEW t \in Triggers, NEW k \in Sweep, Wake(t, k) PROVE Goal
  <2>1. /\ phase[t] = "tail" /\ wakeAt[t] <= now
        /\ phase' = [phase EXCEPT ![t] = "copying"]
        /\ evidence' = [evidence EXCEPT ![t] = evidence[t] \cup InBuffer']
        /\ UNCHANGED <<openedAt, wakeAt>>
    BY <1>7 DEF Wake, InBuffer
  <2>2. UNCHANGED <<now, created, past, stamp, pending>>
    BY <1>7 DEF Wake, Snapshot
  <2>3. wakeAt[t] <= openedAt[t] + MaxDelay + PostWait /\ now <= wakeAt[t] + MaxDelay
    BY <2>1 DEF Timely
  <2>4. ASSUME NEW e \in created \ past, Reaches(t, e), stamp[e] + MaxDelay < wakeAt[t]
        PROVE  e \in evidence'[t]
    <3>1. CASE openedAt[t] <= stamp[e] + MaxDelay
      <4>1. e \notin pending
        BY <2>1, <2>4
      <4>2. now - stamp[e] <= Retention
        BY <3>1, <2>3
      <4>3. e \in InBuffer'
        BY <4>1, <4>2, <2>2 DEF BufferInv, WindowKept, Age
      <4> QED BY <4>3, <2>1 DEF DataOK
    <3>2. CASE e \in evidence[t]
      BY <3>2, <2>1 DEF DataOK
    <3> QED BY <3>1, <3>2, <2>1, <2>4 DEF InHand
  <2>5. InHand'
    BY <2>1, <2>2 DEF InHand, Reaches, SlotInv, PhaseOK, DataOK
  <2>6. WindowComplete'
    BY <2>1, <2>2, <2>4 DEF WindowComplete, Reaches, In, SlotInv, PhaseOK, DataOK
  <2> QED BY <2>5, <2>6
<1>8. CASE ManagerRestart
  BY <1>8 DEF ManagerRestart, Restart, InHand, WindowComplete, In
<1> QED
  BY <1>0, <1>1, <1>3, <1>4, <1>5, <1>6, <1>7, <1>8
  DEF ManagerNext, TriggerThread, IncidentThread, StatusPoll, Snapshot, CopyScreenshot,
      ManagerTick, Tick, ManagerQuiesce, Quiesce, managerVars, bufferVars, vars

(* "So nothing is lost": for any window, tail and delay that fit into the  *)
(* retention window, and any number of events and incidents, the merged    *)
(* evidence of an incident has every event of its window.                  *)
THEOREM WindowCompleteHolds ==
  ASSUME PostWait + 3 * MaxDelay <= Retention
  PROVE  ManagerSpec => []WindowComplete
<1>1. BufferInv /\ SlotInv /\ FileInv /\ WindowInv /\ BufferInv' /\ [ManagerNext]_vars => WindowInv'
  BY TimelyStep, WindowStep DEF WindowInv, FileInv
<1>2. ManagerSpec => []WindowInv
  BY <1>1, WindowInit, FileInvariance, PTL DEF ManagerSpec
<1>3. WindowInv => WindowComplete
  BY DEF WindowInv
<1> QED BY <1>2, <1>3, PTL

-----------------------------------------------------------------------------
(***************************************************************************)
(* Screenshots an incident could not copy.                                 *)
(***************************************************************************)

(* Events of an earlier process are neither published nor buffered.        *)
PastIsGone == past \cap (pending \cup InBuffer) = {}

(* The evidence of an incident of this process was in this process's       *)
(* buffer; before the first snapshot there is none.                        *)
EvidenceSeen ==
  \A t \in Triggers :
    /\ phase[t] \in {"none", "raised", "admitted"} => evidence[t] = {}
    /\ phase[t] \in Live => evidence[t] \cap (past \cup pending) = {}

(* What the copy loop has passed without a copy had expired.               *)
PassedExpired ==
  \A t \in In({"copying", "ready", "closed"}), e \in Screens :
    e \in evidence[t] \ (owned[t] \cup todo[t]) => Age(e) > Retention

(* Nothing is left to copy once the loop is over.                          *)
LoopOver == \A t \in In({"ready", "closed"}) : todo[t] = {}

UncopiedInv == PastIsGone /\ EvidenceSeen /\ PassedExpired /\ LoopOver

LEMMA UncopiedInit == ManagerInit => UncopiedInv
BY DEF ManagerInit, Init, UncopiedInv, PastIsGone, EvidenceSeen, PassedExpired, LoopOver, In

LEMMA PastStep == BufferInv /\ PastIsGone /\ [ManagerNext]_vars => PastIsGone'
<1> SUFFICES ASSUME BufferInv, PastIsGone, [ManagerNext]_vars PROVE PastIsGone'
  OBVIOUS
<1> USE DEF PastIsGone
<1>0. CASE UNCHANGED <<past, pending, events>>
  BY <1>0 DEF InBuffer
<1>1. ASSUME NEW e \in Events, Create(e) PROVE PastIsGone'
  BY <1>1 DEF Create, BufferInv, TypeOK, InBuffer
<1>2. ASSUME NEW e \in pending, NEW k, Add(e, k) PROVE PastIsGone'
  BY <1>2, AddSplits
<1>3. ASSUME NEW k, Snapshot(k) PROVE PastIsGone'
  BY <1>3, SnapshotSplits
<1>4. CASE Restart
  BY <1>4 DEF Restart, InBuffer
<1> QED
  BY <1>0, <1>1, <1>2, <1>3, <1>4, StepOfBuffer DEF Next, Tick, Quiesce, bufferVars

(* Evidence is taken from the buffer only.                                 *)
LEMMA SeenStep ==
  ASSUME BufferInv, SlotInv, DataOK, PastIsGone, PastIsGone', EvidenceSeen, [ManagerNext]_vars
  PROVE  EvidenceSeen'
<1> USE DEF SlotInv, PhaseOK, EvidenceSeen
<1> USE DEF Live, Opening, Finishing
<1>0. CASE UNCHANGED <<phase, evidence, past, pending>>
  BY <1>0
<1>1. ASSUME NEW e \in Events, Capture(e) PROVE EvidenceSeen'
  BY <1>1 DEF Capture, Create, DataOK
<1>2. ASSUME NEW e \in pending, NEW k \in Sweep, Publish(e, k) PROVE EvidenceSeen'
  <2>1. e \in Failures => phase[e] = "none"
    BY DEF RaisedByPublishing
  <2> QED BY <1>2, <2>1 DEF Publish, Add, Triggers
<1>3. ASSUME NEW t \in Triggers,
             Admit(t) \/ Drop(t) \/ StartThread(t) \/ SpawnFails(t) \/ WriteRaw(t) \/ Close(t) \/ Fail(t)
      PROVE  EvidenceSeen'
  <2>1. UNCHANGED <<past, pending>> /\ \A u \in Triggers : evidence'[u] \subseteq evidence[u]
    BY <1>3 DEF Admit, Drop, StartThread, SpawnFails, WriteRaw, Close, Fail, bufferVars, DataOK
  <2>2. \A u \in Triggers : u # t => phase'[u] = phase[u]
    BY <1>3 DEF Admit, Drop, StartThread, SpawnFails, WriteRaw, Close, Fail
  <2>3. /\ phase'[t] \in {"none", "raised", "admitted"} => phase[t] \in {"none", "raised", "admitted"}
        /\ phase'[t] \in Live => phase[t] \in Live \/ phase'[t] = "admitted"
    BY <1>3 DEF Admit, Fires, Drop, StartThread, SpawnFails, WriteRaw, Close, Fail
  <2> QED BY <2>1, <2>2, <2>3
<1>4. ASSUME NEW t \in Triggers, NEW k \in Sweep, SnapshotPre(t, k) \/ Wake(t, k) PROVE EvidenceSeen'
  <2>1. Snapshot(k)
    BY <1>4 DEF SnapshotPre, Wake
  <2>2. {events'[i] : i \in DOMAIN events'} = InBuffer' /\ UNCHANGED <<past, pending>>
    BY <2>1, SnapshotSplits
  <2>3. InBuffer' \cap (past \cup pending) = {}
    <3>1. InBuffer \cap pending = {}
      BY DEF BufferInv, NoDuplicates, InBuffer
    <3> QED BY <3>1, <2>1, SnapshotSplits DEF PastIsGone
  <2>4. \/ evidence' = [evidence EXCEPT ![t] = InBuffer']
        \/ evidence' = [evidence EXCEPT ![t] = @ \cup InBuffer']
    BY <1>4, <2>2 DEF SnapshotPre, Wake
  <2>5. phase[t] \in Live /\ phase' = [phase EXCEPT ![t] = phase'[t]] /\ phase'[t] \in {"snapped", "copying"}
    BY <1>4 DEF SnapshotPre, Wake
  <2> QED BY <2>2, <2>3, <2>4, <2>5 DEF DataOK
<1>5. CASE ManagerRestart
  BY <1>5 DEF ManagerRestart, Holding
<1> QED
  BY <1>0, <1>1, <1>2, <1>3, <1>4, <1>5
  DEF ManagerNext, TriggerThread, IncidentThread, StatusPoll, Snapshot, CopyScreenshot,
      ManagerTick, Tick, ManagerQuiesce, Quiesce, managerVars, bufferVars, vars

(* Ages only grow, and an image that is missing belongs to an event the    *)
(* buffer has let go of.                                                   *)
LEMMA PassedStep ==
  ASSUME ~CopyMayFail, BufferInv, SlotInv, FileInv, UncopiedInv, [ManagerNext]_vars
  PROVE  PassedExpired' /\ LoopOver'
<1> DEFINE Goal == PassedExpired' /\ LoopOver'
<1> USE TimesTyped
<1> USE DEF FileInv, UncopiedInv, SlotInv, PhaseOK
<1>0. ASSUME UNCHANGED <<evidence, owned, todo>>, now' \in Int, now <= now',
             \A e \in created : stamp'[e] = stamp[e],
             \A t \in Triggers : /\ phase'[t] \in {"copying", "ready", "closed"} =>
                                      phase[t] \in {"copying", "ready", "closed"}
                                 /\ phase'[t] \in {"ready", "closed"} =>
                                      phase[t] \in {"ready", "closed"} \/ todo[t] = {}
      PROVE  Goal
  BY <1>0 DEF PassedExpired, LoopOver, In, Age, DataOK
<1>1. ASSUME NEW e \in Events, Capture(e) PROVE Goal
  BY <1>0, <1>1 DEF Capture, Create, BufferInv, TypeOK
<1>2. ASSUME NEW e \in pending, NEW k \in Sweep, Publish(e, k) PROVE Goal
  BY <1>0, <1>2 DEF Publish, Add, Triggers
<1>3. ASSUME NEW t \in Triggers, Admit(t) \/ Drop(t) \/ WriteRaw(t) \/ Close(t) PROVE Goal
  BY <1>0, <1>3 DEF Admit, Drop, WriteRaw, Close, bufferVars
<1>4. ASSUME NEW t \in Triggers, UNCHANGED <<now, stamp>>,
             phase'[t] \notin {"copying", "ready", "closed"},
             \A u \in Triggers : u # t => /\ phase'[u] = phase[u] /\ evidence'[u] = evidence[u]
                                          /\ owned'[u] = owned[u] /\ todo'[u] = todo[u]
      PROVE  Goal
  BY <1>4 DEF PassedExpired, LoopOver, In, Age
<1>5. ASSUME NEW t \in Triggers, NEW k \in Sweep, SnapshotPre(t, k) PROVE Goal
  BY <1>4, <1>5 DEF SnapshotPre, Snapshot, DataOK
<1>6. ASSUME NEW t \in Triggers, StartThread(t) \/ SpawnFails(t) \/ Fail(t) PROVE Goal
  BY <1>4, <1>6 DEF StartThread, SpawnFails, Fail, bufferVars, DataOK
<1>7. ASSUME NEW t \in Triggers, NEW k \in Sweep, Wake(t, k) PROVE Goal
  BY <1>7 DEF Wake, Snapshot, PassedExpired, LoopOver, In, Age, DataOK
<1>8. ASSUME NEW t \in Triggers, NEW e \in todo[t], CopyScreenshot(t, e) PROVE Goal
  <2>1. /\ phase[t] = "copying"
        /\ todo' = [todo EXCEPT ![t] = todo[t] \ {e}]
        /\ UNCHANGED <<now, stamp, phase, evidence>>
    BY <1>8 DEF CopyScreenshot, LooksAt, bufferVars
  <2>2. LoopOver'
    BY <2>1 DEF LoopOver, In, DataOK
  <2>3. CASE owned' = [owned EXCEPT ![t] = @ \cup {e}]
    BY <2>1, <2>2, <2>3 DEF PassedExpired, In, Age, DataOK
  <2>4. CASE <<path[e], e>> \notin files /\ UNCHANGED owned
    <3>1. e \in Screens /\ e \in evidence[t] /\ e \in created
      BY DEF DataOK
    <3>2. e \notin past \cup pending
      BY <2>1, <3>1 DEF EvidenceSeen, Live, Finishing
    <3>3. e \notin InBuffer
      BY <2>4, <3>1, <3>2 DEF ImagesTrackBuffer, FilesOK
    <3>4. Age(e) > Retention
      BY <3>1, <3>2, <3>3 DEF Age
    <3> QED BY <2>1, <2>2, <2>4, <3>4 DEF PassedExpired, In, Age, DataOK
  <2> QED BY <1>8, <2>3, <2>4 DEF CopyScreenshot
<1>9. CASE ManagerRestart
  BY <1>9 DEF ManagerRestart, Restart, PassedExpired, LoopOver, In, Age, Holding, Live, Finishing
<1>10. CASE ManagerTick
  BY <1>0, <1>10 DEF ManagerTick, Tick, managerVars
<1> QED
  BY <1>0, <1>1, <1>2, <1>3, <1>5, <1>6, <1>7, <1>8, <1>9, <1>10
  DEF ManagerNext, TriggerThread, IncidentThread, StatusPoll, Snapshot,
      ManagerQuiesce, Quiesce, managerVars, bufferVars, vars

(* A persisted incident lacks a screenshot only when the event had         *)
(* outlived the retention window, provided the copying itself works.       *)
THEOREM OnlyExpiredUncopiedHolds ==
  ASSUME ~CopyMayFail
  PROVE  ManagerSpec => []OnlyExpiredUncopied
<1>1. BufferInv /\ SlotInv /\ FileInv /\ UncopiedInv /\ [ManagerNext]_vars => UncopiedInv'
  BY PastStep, SeenStep, PassedStep DEF UncopiedInv, FileInv
<1>2. ManagerSpec => []UncopiedInv
  BY <1>1, UncopiedInit, FileInvariance, PTL DEF ManagerSpec
<1>3. UncopiedInv => OnlyExpiredUncopied
  BY DEF UncopiedInv, PassedExpired, LoopOver, OnlyExpiredUncopied, In
<1> QED BY <1>2, <1>3, PTL

=============================================================================
