--------------------- MODULE CollectorLifecycle_proof ---------------------
(***************************************************************************)
(* Proofs about the threads of the collectors, for any collectors, threads *)
(* and sequences of toggles, and with any start() or thread that fails.    *)
(***************************************************************************)
EXTENDS CollectorLifecycle, Integers, TLAPS

Places == {"opening", "waiting", "busy", "gone", "dead"}

TypeInv ==
  /\ enabled \in [Collectors -> BOOLEAN]
  /\ thread \in [Collectors -> Workers \cup {None, Unborn}]
  /\ stopping \in [Collectors -> BOOLEAN]
  /\ worker \in [Collectors -> [Workers -> Places]]
  /\ phase \in {"starting", "running", "stopping", "down", "aborted"}
  /\ todo \in Seq(Collectors)
  /\ joining \in Collectors \cup {None}

(* stop() leaves no running thread behind that it remembers: a disabled    *)
(* collector has none, once the stop that disabling it called is over.     *)
Forgotten ==
  \A c \in Toggleable : ~enabled[c] /\ joining # c => thread[c] \in {None, Unborn}

(* No thread runs that a stop() would not wait for. *)
Known == \A c \in Collectors \ Slow : Alive(c) \subseteq {thread[c]}

(* Shutdown has forgotten the thread of every collector it has dealt with. *)
Stopped ==
  phase \in {"stopping", "down"} =>
    \A c \in Collectors :
      thread[c] = None \/ joining = c \/ \E i \in 1..Len(todo) : todo[i] = c

LastStopDone == phase = "down" => todo = << >> /\ joining = None

LifeInv == TypeInv /\ Forgotten /\ Known /\ Stopped /\ LastStopDone

-----------------------------------------------------------------------------
LEMMA HeadTail ==
  ASSUME NEW S, NEW s \in Seq(S), s # << >>
  PROVE  /\ Head(s) \in S /\ Tail(s) \in Seq(S)
         /\ \A i \in 1..Len(s) : s[i] = Head(s)
              \/ \E j \in 1..Len(Tail(s)) : Tail(s)[j] = s[i]
<1>1. Len(s) \in Nat \ {0} /\ Len(Tail(s)) = Len(s) - 1 /\ Head(s) = s[1]
  OBVIOUS
<1>2. \A j \in 1..Len(Tail(s)) : Tail(s)[j] = s[j + 1]
  OBVIOUS
<1>3. \A i \in 1..Len(s) : i = 1 \/ (i - 1 \in 1..Len(Tail(s)) /\ (i - 1) + 1 = i)
  BY <1>1
<1> QED BY <1>1, <1>2, <1>3

LEMMA LifeInit == Init => LifeInv
<1> SUFFICES ASSUME Init PROVE LifeInv
  OBVIOUS
<1>1. TypeInv
  BY LifecycleAssumption DEF Init, TypeInv, Places
<1>2. Forgotten
  BY LifecycleAssumption DEF Init, Forgotten
<1>3. \A c \in Collectors : Alive(c) = {}
  BY DEF Init, Alive
<1> QED BY <1>1, <1>2, <1>3 DEF Init, LifeInv, Known, Stopped, LastStopDone

(* A start of collector c, from BlackBox.start or from set_enabled(True). *)
LEMMA StartKeeps ==
  ASSUME TypeInv, Forgotten, Known, NEW c \in Collectors, Start(c),
         enabled' \in [Collectors -> BOOLEAN],
         \A d \in Collectors : enabled[d] => enabled'[d],
         phase \in {"starting", "running"}, phase' \in {"starting", "running", "aborted"},
         joining' = joining, todo' \in Seq(Collectors)
  PROVE  LifeInv'
<1>1. CASE UNCHANGED <<thread, stopping, worker>>
  <2>1. TypeInv'
    BY <1>1 DEF TypeInv
  <2>2. Forgotten'
    BY <1>1, LifecycleAssumption DEF Forgotten, TypeInv
  <2>3. Known'
    BY <1>1 DEF Known, Alive
  <2> QED BY <2>1, <2>2, <2>3 DEF LifeInv, Stopped, LastStopDone
<1>2. ASSUME NEW w \in Workers, Launch(c, w), enabled'[c], thread[c] = None
      PROVE  LifeInv'
  <2>1. TypeInv'
    BY <1>2 DEF TypeInv, Launch, Places
  <2>2. Forgotten'
    BY <1>2, LifecycleAssumption DEF TypeInv, Forgotten, Launch
  <2>3. Known'
    <3> SUFFICES ASSUME NEW d \in Collectors \ Slow PROVE Alive(d)' \subseteq {thread'[d]}
      BY DEF Known
    <3>1. CASE d # c
      BY <1>2, <3>1 DEF TypeInv, Known, Alive, Launch
    <3>2. CASE d = c
      <4>1. Alive(c) = {}
        BY <1>2, <3>2, LifecycleAssumption DEF Known, Alive
      <4> QED BY <1>2, <3>2, <4>1 DEF TypeInv, Alive, Launch
    <3> QED BY <3>1, <3>2
  <2> QED BY <2>1, <2>2, <2>3 DEF LifeInv, Stopped, LastStopDone
<1>3. CASE LaunchFails(c) /\ enabled'[c] /\ thread[c] = None
  <2>1. /\ stopping' = [stopping EXCEPT ![c] = FALSE]
        /\ thread' = thread \/ thread' = [thread EXCEPT ![c] = Unborn]
        /\ UNCHANGED worker
    BY <1>3 DEF LaunchFails
  <2>2. TypeInv'
    BY <2>1 DEF TypeInv
  <2>3. Forgotten'
    BY <2>1, LifecycleAssumption DEF TypeInv, Forgotten
  <2>4. \A d \in Collectors : Alive(d)' = Alive(d)
    BY <2>1 DEF Alive
  <2>5. Known'
    <3> SUFFICES ASSUME NEW d \in Collectors \ Slow PROVE Alive(d)' \subseteq {thread'[d]}
      BY DEF Known
    <3>1. CASE d # c
      BY <2>1, <2>4, <3>1 DEF TypeInv, Known
    <3>2. CASE d = c
      BY <1>3, <2>4, <3>2, LifecycleAssumption DEF Known, Alive
    <3> QED BY <3>1, <3>2
  <2> QED BY <2>2, <2>3, <2>5 DEF LifeInv, Stopped, LastStopDone
<1> QED BY <1>1, <1>2, <1>3 DEF Start

(* One collector's thread moves; a thread that is gone stays gone. *)
LEMMA MoveKeeps ==
  ASSUME LifeInv, NEW c \in Collectors, NEW w \in Workers, NEW to \in Places,
         worker[c][w] \notin {"gone", "dead"}, Move(c, w, to)
  PROVE  LifeInv'
<1>1. TypeInv'
  BY DEF LifeInv, TypeInv, Move, process
<1>2. \A d \in Collectors : Alive(d)' \subseteq Alive(d)
  BY DEF LifeInv, TypeInv, Move, Alive
<1> QED BY <1>1, <1>2 DEF LifeInv, Forgotten, Known, Stopped, LastStopDone, Move, process

(* A stop that has returned: its thread is gone, or is abandoned. *)
LEMMA ReturnKeeps ==
  ASSUME LifeInv, NEW c \in Collectors, joining = c,
         c \in Slow \/ thread[c] \notin Alive(c),
         thread' = [thread EXCEPT ![c] = None], joining' = None,
         UNCHANGED <<enabled, stopping, worker, process>>
  PROVE  LifeInv'
<1>1. TypeInv' /\ Stopped' /\ LastStopDone'
  BY DEF LifeInv, TypeInv, Stopped, LastStopDone, process
<1>2. Forgotten'
  BY LifecycleAssumption DEF LifeInv, TypeInv, Forgotten
<1>3. Known'
  BY DEF LifeInv, TypeInv, Known, Alive
<1> QED BY <1>1, <1>2, <1>3 DEF LifeInv

LEMMA LifeStep == LifeInv /\ [Next]_vars => LifeInv'
<1> SUFFICES ASSUME LifeInv, [Next]_vars PROVE LifeInv'
  OBVIOUS
<1>1. CASE StartNext
  <2>1. CASE todo = << >>
    BY <1>1, <2>1 DEF StartNext, LifeInv, TypeInv, Forgotten, Known, Stopped, LastStopDone, Alive
  <2>2. CASE todo # << >>
    <3>1. Head(todo) \in Collectors /\ Tail(todo) \in Seq(Collectors)
      BY <2>2, HeadTail DEF LifeInv, TypeInv
    <3> QED BY <1>1, <2>2, <3>1, StartKeeps DEF StartNext, LifeInv, TypeInv
  <2> QED BY <2>1, <2>2
<1>2. CASE Signal
  <2>1. \A c \in Collectors : \E i \in 1..Len(Order) : Order[i] = c
    BY DEF Collectors
  <2> QED BY <1>2, <2>1, LifecycleAssumption DEF Signal, LifeInv, TypeInv, Forgotten, Known, Stopped, LastStopDone, Alive
<1>3. CASE StopNext
  <2>1. CASE todo = << >>
    BY <1>3, <2>1 DEF StopNext, LifeInv, TypeInv, Forgotten, Known, Stopped, LastStopDone, Alive
  <2>2. CASE todo # << >>
    <3> DEFINE c == Head(todo)
    <3>1. /\ c \in Collectors /\ Tail(todo) \in Seq(Collectors)
          /\ \A i \in 1..Len(todo) : todo[i] = c
               \/ \E j \in 1..Len(Tail(todo)) : Tail(todo)[j] = todo[i]
      BY <2>2, HeadTail DEF LifeInv, TypeInv
    <3>2. /\ joining = None /\ joining' = IF thread[c] \in Workers THEN c ELSE None
          /\ stopping' = [stopping EXCEPT ![c] = TRUE]
          /\ todo' = Tail(todo) /\ phase = "stopping"
          /\ phase' = IF thread[c] = Unborn THEN "aborted" ELSE "stopping"
          /\ UNCHANGED <<enabled, thread, worker>>
      BY <1>3, <2>2 DEF StopNext, Stop
    <3>3. TypeInv'
      BY <3>1, <3>2 DEF LifeInv, TypeInv
    <3>4. Forgotten'
      BY <3>2, LifecycleAssumption DEF LifeInv, Forgotten
    <3>5. Stopped'
      <4> SUFFICES ASSUME phase' \in {"stopping", "down"}, NEW d \in Collectors
                   PROVE  \/ thread'[d] = None
                          \/ joining' = d
                          \/ \E i \in 1..Len(Tail(todo)) : Tail(todo)[i] = d
        BY <3>2 DEF Stopped
      <4>1. thread[c] # Unborn
        BY <3>2
      <4>2. CASE d = c
        BY <3>1, <3>2, <4>1, <4>2 DEF LifeInv, TypeInv
      <4>3. CASE d # c
        <5>1. thread[d] = None \/ \E i \in 1..Len(todo) : todo[i] = d
          BY <3>2, LifecycleAssumption DEF LifeInv, Stopped
        <5> QED BY <3>1, <3>2, <4>3, <5>1
      <4> QED BY <4>2, <4>3
    <3> QED BY <3>2, <3>3, <3>4, <3>5 DEF LifeInv, Known, LastStopDone, Alive
  <2> QED BY <2>1, <2>2
<1>4. ASSUME NEW c \in Toggleable, Enable(c) PROVE LifeInv'
  <2>1. c \in Collectors
    BY LifecycleAssumption
  <2> QED BY <1>4, <2>1, StartKeeps DEF Enable, LifeInv, TypeInv, process
<1>5. ASSUME NEW c \in Toggleable, Disable(c) PROVE LifeInv'
  <2>1. c \in Collectors
    BY LifecycleAssumption
  <2>2. TypeInv'
    BY <1>5, <2>1 DEF Disable, Stop, LifeInv, TypeInv, process
  <2>3. Forgotten'
    BY <1>5, <2>1, LifecycleAssumption DEF Disable, Stop, LifeInv, TypeInv, Forgotten
  <2> QED BY <1>5, <2>2, <2>3 DEF Disable, Stop, process, LifeInv, Known, Stopped, LastStopDone, Alive
<1>6. ASSUME NEW c \in Collectors, Joined(c) \/ JoinExpires(c) PROVE LifeInv'
  BY <1>6, ReturnKeeps DEF Joined, JoinExpires
<1>7. ASSUME NEW c \in Collectors, NEW w \in Workers, Run(c, w) \/ Die(c, w) PROVE LifeInv'
  BY <1>7, MoveKeeps DEF Run, Die, Opened, Look, Publish, Places
<1>8. CASE UNCHANGED vars
  BY <1>8 DEF vars, LifeInv, TypeInv, Forgotten, Known, Stopped, LastStopDone, Alive
<1> QED BY <1>1, <1>2, <1>3, <1>4, <1>5, <1>6, <1>7, <1>8 DEF Next

LEMMA LifeInvariance == Spec => []LifeInv
BY LifeInit, LifeStep, PTL DEF Spec

(* Off means off, for any toggles and any threads that die, of every       *)
(* collector that does not outlast the join of its stop().                 *)
THEOREM OffMeansOffHolds == Spec => []OffMeansOff
<1>1. LifeInv => OffMeansOff
  BY LifecycleAssumption DEF LifeInv, Forgotten, Known, OffMeansOff, Alive
<1> QED BY <1>1, LifeInvariance, PTL

(* When BlackBox.stop returns, the collectors it waited for are silent.    *)
THEOREM DownIsSilentHolds == Spec => []DownIsSilent
<1>1. LifeInv => DownIsSilent
  BY LifecycleAssumption DEF LifeInv, LastStopDone, Stopped, Known, DownIsSilent, Alive
<1> QED BY <1>1, LifeInvariance, PTL

(* Turning a collector on starts a thread, also when the last one died or  *)
(* was given up, or tells the caller that it cannot, unless an earlier     *)
(* Thread.start of that collector raised.                                  *)
THEOREM FlipOnStartsHolds == Spec => FlipOnStarts
<1>1. LifeInv /\ [Next]_vars =>
        [ \A c \in Toggleable : ~enabled[c] /\ enabled'[c] =>
            Alive(c)' \ Alive(c) # {} \/ answer' = "raised" \/ thread[c] = Unborn ]_vars
  <2> SUFFICES ASSUME LifeInv, Next, NEW c \in Toggleable, ~enabled[c], enabled'[c]
               PROVE  Alive(c)' \ Alive(c) # {} \/ answer' = "raised" \/ thread[c] = Unborn
    OBVIOUS
  <2>1. c \in Collectors
    BY LifecycleAssumption
  <2>2. Enable(c)
    BY <2>1, LifecycleAssumption
       DEF LifeInv, TypeInv, Next, StartNext, Signal, StopNext, Enable, Disable, Joined,
           JoinExpires, Run, Die, Opened, Look, Publish, Move, Stop
  <2>3. thread[c] \in {None, Unborn}
    BY <2>1, <2>2, LifecycleAssumption DEF Enable, LifeInv, Forgotten
  <2>4. CASE thread[c] = None
    <3>1. LaunchFails(c) \/ \E w \in Workers : Launch(c, w)
      BY <2>2, <2>4 DEF Enable, Start
    <3>2. ASSUME NEW w \in Workers, Launch(c, w) PROVE w \in Alive(c)' \ Alive(c)
      BY <2>1, <3>2 DEF Launch, Alive, LifeInv, TypeInv
    <3> QED BY <3>1, <3>2 DEF LaunchFails
  <2> QED BY <2>3, <2>4
<1> QED BY <1>1, LifeInvariance, PTL DEF Spec, FlipOnStarts
=============================================================================
