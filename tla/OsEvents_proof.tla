-------------------------- MODULE OsEvents_proof --------------------------
(***************************************************************************)
(* Proofs about the collector of crash reports and log entries, for any    *)
(* reports and entries, any delays within their bounds and any restarts.   *)
(***************************************************************************)
EXTENDS OsEvents, FiniteSetTheorems, TLAPS

States == {"absent", "partial", "complete"}

-----------------------------------------------------------------------------
(***************************************************************************)
(* A report is announced once.                                             *)
(***************************************************************************)

ReportTypes ==
  /\ disk \in [Reports -> States]
  /\ announced \in [Reports -> Seq(States)]
  /\ osPc \in {"built", "wait", "reports", "query", "publish", "dead"}

(* A report that was announced is a file, which the listings of this run   *)
(* drop once start has seeded the known reports, if it could see it.       *)
OnceInv ==
  /\ ReportTypes
  /\ todo \subseteq Files /\ todo \cap seen = {}
  /\ osPc # "reports" => todo = {}
  /\ \A r \in Reports \ unseeded :
       announced[r] # <<>> => disk[r] # "absent" /\ (osPc \in {"built", "dead"} \/ r \in seen)
  /\ ReportsOnce

LEMMA OnceInit == OsInit => OnceInv
BY DEF OsInit, OnceInv, ReportTypes, States, Files, ReportsOnce

LEMMA OnceEmit ==
  ASSUME OnceInv, NEW r \in Reports, EmitReport(r)
  PROVE  OnceInv'
<1>1. /\ UNCHANGED <<disk, osPc, unseeded>> /\ osPc = "reports" /\ r \in todo
      /\ todo' = todo \ {r} /\ seen' = seen \cup {r}
      /\ announced' = [announced EXCEPT ![r] = Append(@, disk[r])]
  BY DEF EmitReport, system
<1>2. r \notin unseeded => announced[r] = <<>>
  BY <1>1 DEF OnceInv
<1>3. /\ r \notin unseeded => announced'[r] = <<disk[r]>>
      /\ \A s \in Reports \ {r} : announced'[s] = announced[s]
  <2>1. /\ announced'[r] = Append(announced[r], disk[r])
        /\ \A s \in Reports \ {r} : announced'[s] = announced[s]
    BY <1>1 DEF OnceInv, ReportTypes
  <2>2. Append(<<>>, disk[r]) = <<disk[r]>>
    OBVIOUS
  <2> QED BY <1>2, <2>1, <2>2
<1>4. ReportTypes'
  <2>1. disk[r] \in States /\ announced[r] \in Seq(States)
    BY DEF OnceInv, ReportTypes
  <2>2. Append(announced[r], disk[r]) \in Seq(States)
    BY <2>1
  <2> QED BY <1>1, <2>2 DEF OnceInv, ReportTypes
<1>5. ReportsOnce'
  <2>1. r \notin unseeded => Len(announced'[r]) <= 1
    BY <1>3, <1>1 DEF OnceInv, ReportTypes
  <2>2. \A s \in Reports \ {r} : Len(announced'[s]) = Len(announced[s])
    BY <1>3
  <2> SUFFICES ASSUME NEW s \in Reports \ unseeded
               PROVE  Len(announced'[s]) <= 1
    BY <1>1 DEF ReportsOnce
  <2>3. CASE s = r
    BY <2>1, <2>3
  <2>4. CASE s # r
    BY <2>2, <2>4 DEF OnceInv, ReportsOnce
  <2> QED BY <2>3, <2>4
<1>6. todo' \subseteq Files' /\ todo' \cap seen' = {}
  BY <1>1 DEF OnceInv, Files
<1>7. \A s \in Reports \ unseeded : announced'[s] # <<>> => disk[s] # "absent" /\ s \in seen'
  <2>1. r \in Files
    BY <1>1 DEF OnceInv
  <2> QED BY <1>1, <1>3, <2>1 DEF OnceInv, Files
<1> QED BY <1>1, <1>4, <1>5, <1>6, <1>7 DEF OnceInv

LEMMA OnceStep == OnceInv /\ [OsNext]_osVars => OnceInv'
<1> SUFFICES ASSUME OnceInv, [OsNext]_osVars
             PROVE  OnceInv'
  OBVIOUS
<1> USE DEF OnceInv, ReportTypes, ReportsOnce, Files
<1>1. CASE UNCHANGED osVars
  BY <1>1 DEF osVars, system, osThread, osHistory
<1>2. CASE Start \/ List \/ StartMissing \/ StartRaises \/ ListFails
  BY <1>2 DEF Start, List, StartMissing, StartRaises, ListFails, system, osHistory
<1>3. CASE Ask \/ Query \/ QueryFails \/ Publish
  BY <1>3 DEF Ask, Query, QueryFails, Publish, system, osHistory
<1>4. CASE \E r \in Reports : EmitReport(r)
  BY <1>4, OnceEmit
<1>5. CASE \E b \in OsMalformed : PublishRaises(b)
  BY <1>5 DEF PublishRaises, system
<1>6. CASE OsTick \/ OsRestart
  BY <1>6 DEF OsTick, OsRestart, osThread, osHistory
<1>7. CASE \E r \in Reports : WriteReport(r) \/ CompleteReport(r)
  BY <1>7 DEF WriteReport, CompleteReport, States, osThread, osHistory
<1>8. CASE \E e \in Entries : LogEntry(e)
  BY <1>8 DEF LogEntry, osThread, osHistory
<1> QED BY <1>1, <1>2, <1>3, <1>4, <1>5, <1>6, <1>7, <1>8 DEF OsNext, OsCollector, Environment

(* The reports that were announced are known to the run, in every state.   *)
THEOREM OnceInvariance == OsSpec => []OnceInv
BY OnceInit, OnceStep, PTL DEF OsSpec

(* A crash report is announced at most once, in whatever state it is read  *)
(* and however often the process starts again (_check_crash_reports).      *)
THEOREM ReportsOnceHolds == OsSpec => []ReportsOnce
<1>1. OnceInv => ReportsOnce
  BY DEF OnceInv
<1> QED BY <1>1, OnceInvariance, PTL

-----------------------------------------------------------------------------
(***************************************************************************)
(* Behind the watermark nothing is lost.                                   *)
(***************************************************************************)

LEMMA FromSecondBelow ==
  ASSUME Second \in Nat \ {0}, NEW t \in Nat
  PROVE  FromSecond(t) <= t /\ FromSecond(t) \in Nat
<1>1. t = Second * (t \div Second) + (t % Second) /\ t % Second \in 0..(Second - 1)
  OBVIOUS
<1>2. t \div Second \in Nat
  OBVIOUS
<1> QED BY <1>1, <1>2, Z3 DEF FromSecond

LogTypes ==
  /\ osNow \in Nat /\ osDue \in Nat /\ watermark \in Nat /\ start \in Nat /\ since \in Nat
  /\ watermark <= osNow /\ start <= watermark
  /\ entryStamp \in [Entries -> Nat \cup {OsNever}]
  /\ delivered \in [Entries -> Nat]
  /\ osPc \in {"built", "wait", "reports", "query", "publish", "dead"}

(* Entries of this run before time t are done with. *)
DoneBefore(t) ==
  \A e \in Entries :
    entryStamp[e] # OsNever /\ since <= entryStamp[e] /\ entryStamp[e] < t
      => delivered[e] >= 1 \/ e \in missed \cup skipped

LogInv ==
  /\ LogTypes
  /\ DoneBefore(DoneWith)
  /\ osPc = "publish" => \A e \in Entries :
       entryStamp[e] # OsNever /\ start <= entryStamp[e] /\ entryStamp[e] < watermark => e \in result

LEMMA LogInit == OsInit => LogInv
BY OsEventsAssumption DEF OsInit, LogInv, LogTypes, DoneBefore, DoneWith

(* The entries that are emitted have been published or skipped.            *)
LEMMA EmitFacts ==
  ASSUME LogTypes, NEW entries, Emit(entries)
  PROVE  /\ delivered' \in [Entries -> Nat]
         /\ skipped \subseteq skipped'
         /\ \A e \in Entries :
              \/ delivered'[e] = delivered[e]
              \/ delivered'[e] = delivered[e] + 1 /\ e \in entries
         /\ \A e \in entries \cap Entries : delivered'[e] >= 1 \/ e \in skipped'
<1>1. PICK skip \in SUBSET (entries \cap Unparsable) :
        /\ delivered' = [e \in Entries |-> delivered[e] + (IF e \in entries \ skip THEN 1 ELSE 0)]
        /\ skipped' = skipped \cup skip
  BY DEF Emit
<1>2. \A e \in Entries : delivered[e] \in Nat
  BY DEF LogTypes
<1>3. \A e \in Entries : delivered'[e] = delivered[e] + (IF e \in entries \ skip THEN 1 ELSE 0)
  BY <1>1
<1>4. delivered' \in [Entries -> Nat]
  BY <1>1, <1>2
<1>5. \A e \in entries \cap Entries : e \notin skip => delivered'[e] >= 1
  BY <1>2, <1>3
<1>6. \A e \in Entries :
        \/ delivered'[e] = delivered[e]
        \/ delivered'[e] = delivered[e] + 1 /\ e \in entries
  BY <1>2, <1>3
<1> QED BY <1>1, <1>4, <1>5, <1>6

LEMMA LogStep ==
  LogInv /\ [OsNext]_osVars => LogInv'
<1> SUFFICES ASSUME LogInv, [OsNext]_osVars
             PROVE  LogInv'
  OBVIOUS
<1> USE OsEventsAssumption DEF LogInv, LogTypes, DoneBefore, DoneWith
<1>1. CASE UNCHANGED osVars
  BY <1>1 DEF osVars, system, osThread, osHistory
<1>2. CASE Start \/ List \/ ListFails \/ StartMissing
  BY <1>2 DEF Start, List, ListFails, StartMissing, system, osHistory
<1>3. CASE Ask
  BY <1>3 DEF Ask, system, osHistory
<1>4. CASE Query
  <2>1. FromSecond(start) <= start /\ FromSecond(start) \in Nat
    BY FromSecondBelow, OsEventsAssumption
  <2>2. \A e \in Entries : entryStamp[e] # OsNever /\ start <= entryStamp[e] => e \in result'
    BY <1>4, <2>1 DEF Query
  <2> QED BY <1>4, <2>2 DEF Query, system, osHistory
<1>5. CASE QueryFails
  <2>1. \A e \in Entries :
          entryStamp[e] # OsNever /\ start <= entryStamp[e] /\ entryStamp[e] < watermark => e \in missed'
    BY <1>5 DEF QueryFails
  <2> QED BY <1>5, <2>1 DEF QueryFails, system
<1>6. CASE Publish
  <2>1. LogTypes /\ Emit(result)
    BY <1>6 DEF Publish
  <2>2. /\ delivered' \in [Entries -> Nat] /\ skipped \subseteq skipped'
        /\ \A e \in Entries : delivered'[e] >= delivered[e]
        /\ \A e \in result \cap Entries : delivered'[e] >= 1 \/ e \in skipped'
    BY <2>1, EmitFacts
  <2> QED BY <1>6, <2>2 DEF Publish, system
<1>7. CASE \E r \in Reports : EmitReport(r)
  BY <1>7 DEF EmitReport, system
<1>8. ASSUME NEW b \in OsMalformed, PublishRaises(b)
      PROVE  LogInv'
  <2>1. LogTypes /\ Emit({e \in result : entryStamp[e] < entryStamp[b]})
    BY <1>8 DEF PublishRaises
  <2>2. /\ delivered' \in [Entries -> Nat] /\ skipped \subseteq skipped'
        /\ \A e \in Entries : delivered'[e] >= delivered[e]
    BY <2>1, EmitFacts
  <2> QED BY <1>8, <2>2 DEF PublishRaises, system
<1>9. CASE OsTick
  BY <1>9 DEF OsTick, osThread, osHistory
<1>10. CASE OsRestart
  BY <1>10 DEF OsRestart
<1>11. CASE \E r \in Reports : WriteReport(r) \/ CompleteReport(r)
  BY <1>11 DEF WriteReport, CompleteReport, osThread, osHistory
<1>12. ASSUME NEW e \in Entries, LogEntry(e)
       PROVE  LogInv'
  <2>1. /\ UNCHANGED <<osNow, osThread, osHistory>>
        /\ entryStamp' \in [Entries -> Nat \cup {OsNever}]
        /\ entryStamp'[e] = osNow /\ \A f \in Entries \ {e} : entryStamp'[f] = entryStamp[f]
    BY <1>12 DEF LogEntry
  <2>2. LogTypes'
    BY <2>1 DEF osThread, osHistory
  <2> QED BY <2>1, <2>2 DEF osThread, osHistory
<1>13. CASE StartRaises
  <2>1. start' <= watermark /\ start' = start /\ watermark' = watermark
    BY <1>13 DEF StartRaises
  <2> QED BY <1>13, <2>1 DEF StartRaises, system, osHistory
<1> QED
  BY <1>1, <1>2, <1>3, <1>4, <1>5, <1>6, <1>7, <1>8, <1>9, <1>10, <1>11, <1>12, <1>13
  DEF OsNext, OsCollector, Environment

(* An entry of this run that is older than what the thread is done with    *)
(* has been published, its line was skipped, or a query that failed had it *)
(* in its window (_poll_unified_log); the thread that a record killed is   *)
(* done with no more than what came before its last query.                 *)
THEOREM LogCoveredHolds ==
  OsSpec => []LogCovered
<1>1. OsInit => LogInv
  BY LogInit
<1>2. LogInv /\ [OsNext]_osVars => LogInv'
  BY LogStep
<1>3. LogInv => LogCovered
  BY DEF LogInv, LogTypes, DoneBefore, DoneWith, LogCovered
<1> QED BY <1>1, <1>2, <1>3, PTL DEF OsSpec

-----------------------------------------------------------------------------
(***************************************************************************)
(* A report is announced within a poll.                                    *)
(***************************************************************************)

(* What a report that is on disk has waited for when the thread is due: in *)
(* the poll that just missed it, for the reports that were handled before  *)
(* ("Handled"), and in the next one, also for the query and the interval.  *)
Handled == Cardinality(Reports) - Cardinality(todo)
Missed == Cardinality(Reports) * OsLag
NextPoll == Missed + QueryTimeout + PollInterval + 2 * OsLag

WaitedFor(r) ==
  /\ osPc = "wait" => osDue <= waitsSince[r] + Missed + QueryTimeout + PollInterval + OsLag
  /\ osPc = "reports" /\ r \notin todo => osDue <= waitsSince[r] + (Handled - 1) * OsLag
  /\ osPc = "reports" /\ r \in todo => osDue <= waitsSince[r] + NextPoll + Handled * OsLag
  /\ osPc = "query" => osDue <= waitsSince[r] + Missed
  /\ osPc = "publish" => osDue <= waitsSince[r] + Missed + QueryTimeout

PromptTypes ==
  /\ osNow \in Nat /\ osDue \in Nat
  /\ waitsSince \in [Reports -> Nat \cup {OsNever}]
  /\ osPc # "dead" => osNow <= osDue + (IF osPc = "query" THEN QueryTimeout ELSE OsLag)
  /\ osPc # "wait" => osDue <= osNow
  /\ osPc = "wait" => osDue <= osNow + PollInterval

PromptInv ==
  /\ PromptTypes
  /\ osPc \notin {"built", "dead"} =>
       \A r \in Files \ seen : waitsSince[r] \in Nat /\ WaitedFor(r)

LEMMA HandledBounds ==
  ASSUME todo \subseteq Reports
  PROVE  /\ Handled \in 0..Cardinality(Reports) /\ Cardinality(todo) \in Nat
         /\ Cardinality(Reports) \in Nat
         /\ \A r \in Reports \ todo : Handled >= 1
         /\ todo # {} => Handled < Cardinality(Reports)
         /\ \A r \in todo : Cardinality(todo \ {r}) = Cardinality(todo) - 1
<1>1. IsFiniteSet(Reports) /\ IsFiniteSet(todo) /\ Cardinality(todo) <= Cardinality(Reports)
      /\ (Cardinality(todo) = Cardinality(Reports) => todo = Reports)
  BY FS_Subset, OsEventsAssumption
<1>2. Cardinality(todo) \in Nat /\ Cardinality(Reports) \in Nat
  BY <1>1, FS_CardinalityType
<1>3. todo # {} => Cardinality(todo) # 0
  BY <1>1, FS_EmptySet
<1>4. \A r \in todo : Cardinality(todo \ {r}) = Cardinality(todo) - 1
  BY <1>1, FS_RemoveElement
<1> QED BY <1>1, <1>2, <1>3, <1>4 DEF Handled

LEMMA Products ==
  ASSUME todo \subseteq Reports
  PROVE  /\ OsLag \in Nat /\ QueryTimeout \in Nat /\ PollInterval \in Nat
         /\ Missed \in Nat /\ NextPoll = Missed + QueryTimeout + PollInterval + 2 * OsLag
         /\ Handled \in Nat /\ Handled * OsLag \in Nat
         /\ (Handled - 1) * OsLag = Handled * OsLag - OsLag
         /\ (Handled + 1) * OsLag = Handled * OsLag + OsLag
         /\ Handled * OsLag <= Missed
         /\ todo # {} => Handled * OsLag + OsLag <= Missed
         /\ \A r \in Reports \ todo : Handled * OsLag >= OsLag
         /\ Deadline = PollInterval + QueryTimeout + 2 * Missed + 2 * OsLag
<1>1. \A n, k, l \in Nat :
        /\ n * l \in Nat
        /\ (n - 1) * l = n * l - l /\ (n + 1) * l = n * l + l
        /\ (2 * n + 2) * l = 2 * (n * l) + 2 * l
        /\ k <= n => k * l <= n * l
        /\ k < n => k * l + l <= n * l
        /\ n >= 1 => n * l >= l
  BY Z3
<1>2. OsLag \in Nat /\ QueryTimeout \in Nat /\ PollInterval \in Nat
  BY OsEventsAssumption
<1> DEFINE n == Cardinality(Reports)
<1>3. n \in Nat /\ Handled \in Nat /\ Handled <= n /\ (todo # {} => Handled < n)
      /\ \A r \in Reports \ todo : Handled >= 1
  BY HandledBounds
<1>4. Missed = n * OsLag /\ Deadline = PollInterval + QueryTimeout + (2 * n + 2) * OsLag
  BY DEF Missed, Deadline
<1> HIDE DEF n
<1> QED BY <1>1, <1>2, <1>3, <1>4 DEF NextPoll

LEMMA PromptInit == OsInit => PromptInv
BY OsEventsAssumption DEF OsInit, PromptInv, PromptTypes

(* A step after which the thread is not where it waits for a report.       *)
LEMMA PromptRest ==
  ASSUME PromptInv, UNCHANGED <<osNow, disk, waitsSince>>, PromptTypes',
         osPc' \in {"built", "dead"} \/ Files \subseteq seen'
  PROVE  PromptInv'
BY DEF PromptInv, Files

(* A step that takes what it takes: every report still to be seen waits    *)
(* for the thread's next.                                                  *)
LEMMA PromptThread ==
  ASSUME OnceInv, PromptInv, List \/ Ask \/ Query \/ QueryFails \/ Publish
  PROVE  PromptInv'
<1>1. UNCHANGED <<osNow, disk, waitsSince, seen>>
  BY DEF List, Ask, Query, QueryFails, Publish, system, osHistory
<1>2. PromptTypes'
  <2>1. PromptTypes /\ OsLag \in Nat /\ QueryTimeout \in Nat /\ PollInterval \in Nat
    BY OsEventsAssumption DEF PromptInv
  <2>2. CASE List \/ Ask \/ Query
    BY <1>1, <2>1, <2>2 DEF PromptTypes, List, Ask, Query
  <2>3. CASE QueryFails \/ Publish
    BY <1>1, <2>1, <2>3 DEF PromptTypes, QueryFails, Publish
  <2> QED BY <2>2, <2>3
<1>3. ASSUME NEW r \in Files \ seen
      PROVE  WaitedFor(r)'
  <2>1. waitsSince[r] \in Nat /\ WaitedFor(r) /\ r \in Reports
    BY DEF PromptInv, Files, List, Ask, Query, QueryFails, Publish
  <2>2. osNow \in Nat /\ osDue \in Nat /\ todo \subseteq Reports
    BY DEF PromptInv, PromptTypes, OnceInv, Files
  <2>3. CASE List
    <3>1. todo' \subseteq Reports /\ r \in todo' /\ osPc' = "reports" /\ osDue' = osNow
      BY <2>3 DEF List, Files
    <3>2. osNow <= waitsSince[r] + NextPoll
      BY <2>1, <2>2, <2>3, Products DEF List, WaitedFor, PromptInv, PromptTypes
    <3>3. Handled' * OsLag \in Nat
      <4>1. IsFiniteSet(Reports) /\ IsFiniteSet(todo') /\ Cardinality(todo') <= Cardinality(Reports)
        BY <3>1, FS_Subset, OsEventsAssumption
      <4>2. Handled' \in Nat /\ OsLag \in Nat
        BY <4>1, FS_CardinalityType, OsEventsAssumption DEF Handled
      <4>3. \A k, l \in Nat : k * l \in Nat
        BY Z3
      <4> QED BY <4>2, <4>3
    <3>4. NextPoll' = NextPoll /\ NextPoll \in Nat
      BY <2>2, Products DEF NextPoll, Missed
    <3>5. osDue' <= waitsSince[r] + NextPoll' + Handled' * OsLag
      BY <2>1, <2>2, <3>1, <3>2, <3>3, <3>4
    <3> QED BY <1>1, <3>1, <3>5 DEF WaitedFor
  <2>4. CASE Ask
    <3>1. osPc' = "query" /\ osDue' = osNow /\ Missed' = Missed /\ osPc = "reports" /\ r \notin todo
      BY <2>4 DEF Ask, Missed
    <3>2. osNow <= osDue + OsLag /\ osDue <= waitsSince[r] + (Handled - 1) * OsLag
      BY <2>1, <3>1 DEF WaitedFor, PromptInv, PromptTypes
    <3> QED BY <1>1, <2>1, <2>2, <3>1, <3>2, Products DEF WaitedFor
  <2>5. CASE Query
    <3>1. osPc' = "publish" /\ osDue' = osNow /\ Missed' = Missed /\ osPc = "query"
      BY <2>5 DEF Query, Missed
    <3>2. osNow <= osDue + QueryTimeout /\ osDue <= waitsSince[r] + Missed
      BY <2>1, <3>1 DEF WaitedFor, PromptInv, PromptTypes
    <3> QED BY <1>1, <2>1, <2>2, <3>1, <3>2, Products DEF WaitedFor
  <2>6. CASE QueryFails
    <3>1. osPc' = "wait" /\ osDue' = osNow + PollInterval /\ Missed' = Missed /\ osPc = "query"
      BY <2>6 DEF QueryFails, Missed
    <3>2. osNow <= osDue + QueryTimeout /\ osDue <= waitsSince[r] + Missed
      BY <2>1, <3>1 DEF WaitedFor, PromptInv, PromptTypes
    <3> QED BY <1>1, <2>1, <2>2, <3>1, <3>2, Products DEF WaitedFor
  <2>7. CASE Publish
    <3>1. osPc' = "wait" /\ osDue' = osNow + PollInterval /\ Missed' = Missed /\ osPc = "publish"
      BY <2>7 DEF Publish, Missed
    <3>2. osNow <= osDue + OsLag /\ osDue <= waitsSince[r] + Missed + QueryTimeout
      BY <2>1, <3>1 DEF WaitedFor, PromptInv, PromptTypes
    <3> QED BY <1>1, <2>1, <2>2, <3>1, <3>2, Products DEF WaitedFor
  <2> QED BY <2>3, <2>4, <2>5, <2>6, <2>7
<1>4. osPc \notin {"built", "dead"}
  BY DEF List, Ask, Query, QueryFails, Publish
<1> QED BY <1>1, <1>2, <1>3, <1>4 DEF PromptInv, Files

LEMMA PromptEmit ==
  ASSUME OnceInv, PromptInv, NEW q \in Reports, EmitReport(q)
  PROVE  PromptInv'
<1>1. /\ UNCHANGED <<osNow, disk, waitsSince, osPc>> /\ osPc = "reports" /\ q \in todo
      /\ todo' = todo \ {q} /\ seen' = seen \cup {q} /\ osDue' = osNow
  BY DEF EmitReport, system
<1>2. todo \subseteq Reports
  BY DEF OnceInv, Files
<1>3. Handled' = Handled + 1 /\ (Handled + 1) * OsLag = Handled * OsLag + OsLag /\ NextPoll' = NextPoll
      /\ Handled \in Nat
  BY <1>1, <1>2, HandledBounds, Products DEF Handled, NextPoll, Missed
<1>4. PromptTypes'
  BY <1>1, Products, <1>2 DEF PromptInv, PromptTypes
<1>5. ASSUME NEW r \in Files \ seen, r # q
      PROVE  waitsSince[r] \in Nat /\ WaitedFor(r)'
  <2>1. waitsSince[r] \in Nat /\ WaitedFor(r) /\ osNow <= osDue + OsLag /\ osNow \in Nat /\ osDue \in Nat
    BY <1>1 DEF PromptInv, PromptTypes
  <2>2. CASE r \in todo
    <3>1. osDue <= waitsSince[r] + NextPoll + Handled * OsLag
      BY <1>1, <2>1, <2>2 DEF WaitedFor
    <3>2. osDue' <= waitsSince[r] + NextPoll + (Handled + 1) * OsLag
      BY <1>1, <1>2, <1>3, <2>1, <3>1, Products
    <3> QED BY <1>1, <1>3, <1>5, <2>1, <2>2, <3>2 DEF WaitedFor
  <2>3. CASE r \notin todo
    <3>1. osDue <= waitsSince[r] + (Handled - 1) * OsLag
      BY <1>1, <2>1, <2>3 DEF WaitedFor
    <3>2. Handled' - 1 = Handled
      BY <1>3
    <3>3. osDue' <= waitsSince[r] + Handled * OsLag
      BY <1>1, <1>2, <2>1, <3>1, Products
    <3> QED BY <1>1, <2>1, <2>3, <3>2, <3>3 DEF WaitedFor
  <2> QED BY <2>2, <2>3
<1> QED BY <1>1, <1>4, <1>5 DEF PromptInv, Files

(* The reports that a listing should have found wait anew.                 *)
LEMMA PromptMissed ==
  ASSUME OnceInv, PromptInv, StartMissing \/ ListFails
  PROVE  PromptInv'
<1>1. /\ UNCHANGED <<osNow, disk, seen, todo>> /\ waitsSince' = MissedBy /\ todo = {}
      /\ \/ osPc' = "wait" /\ osDue' = osNow + PollInterval
         \/ osPc' = "reports" /\ osDue' = osNow
  BY DEF StartMissing, ListFails, OnceInv, system
<1>2. PromptTypes'
  <2>1. PromptTypes /\ OsLag \in Nat /\ PollInterval \in Nat
    BY OsEventsAssumption DEF PromptInv
  <2>2. MissedBy \in [Reports -> Nat \cup {OsNever}]
    BY <2>1 DEF MissedBy, PromptTypes
  <2> QED BY <1>1, <2>1, <2>2 DEF PromptTypes
<1>3. ASSUME NEW r \in Files \ seen
      PROVE  waitsSince'[r] \in Nat /\ WaitedFor(r)'
  <2>1. waitsSince'[r] = osNow /\ osNow \in Nat /\ r \in Reports \ todo
    BY <1>1 DEF MissedBy, Files, PromptInv, PromptTypes
  <2>2. UNCHANGED <<Handled, Missed, NextPoll>> /\ todo \subseteq Reports
    BY <1>1 DEF Handled, Missed, NextPoll
  <2>3. (Handled - 1) * OsLag \in Nat
    BY <2>1, <2>2, Products
  <2> QED BY <1>1, <2>1, <2>2, <2>3, Products DEF WaitedFor
<1> QED BY <1>1, <1>2, <1>3 DEF PromptInv, Files

LEMMA PromptTick ==
  ASSUME PromptInv, OsTick
  PROVE  PromptInv'
<1>1. UNCHANGED <<disk, waitsSince, osPc, osDue, seen, todo>> /\ osNow' = osNow + 1
      /\ (osPc = "dead" \/ osNow < osDue + (IF osPc = "query" THEN QueryTimeout ELSE OsLag))
  BY DEF OsTick, osThread, osHistory
<1>2. PromptTypes'
  BY <1>1, OsEventsAssumption DEF PromptInv, PromptTypes
<1>3. ASSUME NEW r, WaitedFor(r)
      PROVE  WaitedFor(r)'
  BY <1>1, <1>3 DEF WaitedFor, Handled, NextPoll, Missed
<1> QED BY <1>1, <1>2, <1>3 DEF PromptInv, Files

LEMMA PromptReport ==
  ASSUME OnceInv, PromptInv, NEW q \in Reports, WriteReport(q)
  PROVE  PromptInv'
<1>1. /\ UNCHANGED <<osNow, osPc, osDue, seen, todo>> /\ q \notin Files
      /\ Files' = Files \cup {q}
      /\ waitsSince' = [waitsSince EXCEPT ![q] = osNow]
  BY DEF WriteReport, osThread, Files, OnceInv, ReportTypes
<1>2. PromptTypes'
  BY <1>1 DEF PromptInv, PromptTypes
<1>3. ASSUME NEW r \in Reports, r # q, WaitedFor(r)
      PROVE  WaitedFor(r)'
  <2>1. waitsSince'[r] = waitsSince[r]
    BY <1>1, <1>3 DEF PromptInv, PromptTypes
  <2> QED BY <1>1, <1>3, <2>1 DEF WaitedFor, Handled, NextPoll, Missed
<1>4. waitsSince'[q] = osNow /\ osNow \in Nat /\ osDue \in Nat
  BY <1>1 DEF PromptInv, PromptTypes
<1>5. WaitedFor(q)'
  <2>1. todo \subseteq Reports /\ q \in Reports \ todo
    BY <1>1 DEF OnceInv, Files
  <2>2. (osPc # "wait" => osDue <= osNow) /\ (osPc = "wait" => osDue <= osNow + PollInterval)
    BY DEF PromptInv, PromptTypes
  <2>3. UNCHANGED <<Handled, Missed, NextPoll>>
    BY <1>1 DEF Handled, Missed, NextPoll
  <2>4. (Handled - 1) * OsLag \in Nat
    BY <2>1, Products
  <2> QED BY <1>1, <1>4, <2>1, <2>2, <2>3, <2>4, Products DEF WaitedFor
<1> QED
  BY <1>1, <1>2, <1>3, <1>4, <1>5 DEF PromptInv, PromptTypes, Files

LEMMA PromptStep ==
  OnceInv /\ PromptInv /\ [OsNext]_osVars => PromptInv'
<1> SUFFICES ASSUME OnceInv, PromptInv, [OsNext]_osVars
             PROVE  PromptInv'
  OBVIOUS
<1>1. ASSUME UNCHANGED <<osNow, osDue, waitsSince, disk, osPc, seen, todo>>
      PROVE  PromptInv'
  BY <1>1 DEF PromptInv, PromptTypes, WaitedFor, Handled, NextPoll, Missed, Files
<1>2. CASE UNCHANGED osVars
  BY <1>1, <1>2 DEF osVars, system, osThread, osHistory
<1>3. CASE Start \/ StartRaises
  BY <1>3, PromptRest, OsEventsAssumption
  DEF Start, StartRaises, system, osHistory, PromptInv, PromptTypes
<1>4. CASE List \/ Ask \/ Query \/ QueryFails \/ Publish
  BY <1>4, PromptThread
<1>5. CASE \E r \in Reports : EmitReport(r)
  BY <1>5, PromptEmit
<1>6. CASE \E b \in OsMalformed : PublishRaises(b)
  BY <1>6, PromptRest, OsEventsAssumption DEF PublishRaises, system, PromptInv, PromptTypes
<1>7. CASE OsTick
  BY <1>7, PromptTick
<1>8. CASE OsRestart
  BY <1>8, PromptRest, OsEventsAssumption DEF OsRestart, PromptInv, PromptTypes
<1>9. CASE \E r \in Reports : WriteReport(r)
  BY <1>9, PromptReport
<1>10. ASSUME NEW r \in Reports, CompleteReport(r)
       PROVE  PromptInv'
  <2>1. UNCHANGED <<osNow, osDue, waitsSince, osPc, seen, todo, Files>>
    BY <1>10 DEF CompleteReport, osThread, osHistory, Files, OnceInv, ReportTypes
  <2> QED BY <2>1 DEF PromptInv, PromptTypes, WaitedFor, Handled, NextPoll, Missed
<1>11. CASE \E e \in Entries : LogEntry(e)
  BY <1>1, <1>11 DEF LogEntry, osThread, osHistory
<1>12. CASE StartMissing \/ ListFails
  BY <1>12, PromptMissed
<1> QED
  BY <1>2, <1>3, <1>4, <1>5, <1>6, <1>7, <1>8, <1>9, <1>10, <1>11, <1>12
  DEF OsNext, OsCollector, Environment

(* A report is announced within a poll interval, the timeout of one query  *)
(* of the log and two delays of the thread for each report, in every state *)
(* of the collector, counted from the last listing that failed (_run).     *)
THEOREM ReportsPromptHolds ==
  OsSpec => []ReportsPrompt
<1>1. OsInit => PromptInv
  BY PromptInit
<1>2. OnceInv /\ PromptInv /\ [OsNext]_osVars => PromptInv'
  BY PromptStep
<1>3. OnceInv /\ PromptInv => ReportsPrompt
  <2> SUFFICES ASSUME OnceInv, PromptInv, osPc \notin {"built", "dead"}, NEW r \in Files \ seen
               PROVE  osNow <= waitsSince[r] + Deadline
    BY DEF ReportsPrompt
  <2>1. waitsSince[r] \in Nat /\ WaitedFor(r) /\ osNow \in Nat /\ osDue \in Nat
        /\ osNow <= osDue + (IF osPc = "query" THEN QueryTimeout ELSE OsLag)
    BY DEF PromptInv, PromptTypes
  <2>2. todo \subseteq Reports /\ r \in Reports /\ osPc \in {"wait", "reports", "query", "publish"}
    BY DEF OnceInv, ReportTypes, Files
  <2>3. CASE osPc = "reports" /\ r \in todo
    <3>1. osDue <= waitsSince[r] + NextPoll + Handled * OsLag /\ todo # {}
      BY <2>1, <2>3 DEF WaitedFor
    <3> QED BY <2>1, <2>2, <2>3, <3>1, Products
  <2>4. CASE osPc = "reports" /\ r \notin todo
    <3>1. osDue <= waitsSince[r] + (Handled - 1) * OsLag
      BY <2>1, <2>4 DEF WaitedFor
    <3> QED BY <2>1, <2>2, <2>4, <3>1, Products
  <2>5. CASE osPc # "reports"
    BY <2>1, <2>2, <2>5, Products DEF WaitedFor
  <2> QED BY <2>3, <2>4, <2>5
<1> QED BY <1>1, <1>2, <1>3, OnceInvariance, PTL DEF OsSpec

-----------------------------------------------------------------------------
(***************************************************************************)
(* An entry is published at most twice.                                    *)
(***************************************************************************)

(* An entry that was published is a second older than the next question,   *)
(* and one that was published twice a second older than the start of the   *)
(* next query, which the fraction cut off does not reach.                  *)
TwiceInv ==
  \A e \in Entries :
    /\ entryStamp[e] # OsNever => entryStamp[e] <= osNow
    /\ delivered[e] <= 2
    /\ delivered[e] >= 1 =>
         /\ entryStamp[e] # OsNever
         /\ osPc = "wait" => osDue >= entryStamp[e] + Second
         /\ osPc = "reports" => osNow >= entryStamp[e] + Second
         /\ osPc \in {"query", "publish"} => watermark >= entryStamp[e] + Second
    /\ delivered[e] = 2 =>
         (IF osPc \in {"query", "publish"} THEN start ELSE watermark) >= entryStamp[e] + Second
    /\ osPc = "publish" /\ e \in result => entryStamp[e] # OsNever /\ delivered[e] < 2

LEMMA TwiceInit == OsInit => TwiceInv
BY OsEventsAssumption DEF OsInit, TwiceInv

LEMMA TwiceQuery ==
  ASSUME LogTypes, TwiceInv, Query
  PROVE  TwiceInv'
<1>1. start < FromSecond(start) + Second /\ FromSecond(start) \in Nat /\ Second \in Nat
  <2>1. /\ start = Second * (start \div Second) + (start % Second)
        /\ start % Second \in 0..(Second - 1)
    BY OsEventsAssumption DEF LogTypes
  <2>2. start \div Second \in Nat
    BY OsEventsAssumption DEF LogTypes
  <2> QED BY <2>1, <2>2, Z3, OsEventsAssumption DEF LogTypes, FromSecond
<1>2. UNCHANGED <<osNow, entryStamp, watermark, start, delivered>> /\ osPc = "query" /\ osPc' = "publish"
  BY DEF Query, system, osHistory
<1>3. \A e \in Entries : e \in result' => entryStamp[e] # OsNever /\ entryStamp[e] >= FromSecond(start)
  BY DEF Query
<1>4. ASSUME NEW e \in Entries, e \in result'
      PROVE  entryStamp[e] # OsNever /\ delivered[e] < 2
  <2>1. entryStamp[e] \in Nat /\ delivered[e] \in Nat /\ start \in Nat
    BY <1>3, <1>4 DEF LogTypes
  <2>2. start < entryStamp[e] + Second
    BY <1>1, <1>3, <1>4, <2>1
  <2> QED BY <1>1, <1>2, <1>3, <1>4, <2>1, <2>2 DEF TwiceInv
<1> QED BY <1>2, <1>4 DEF TwiceInv

(* Each entry is published once more, or not at all.                       *)
LEMMA TwicePublished ==
  ASSUME LogTypes, TwiceInv, PollInterval >= Second,
         osPc = "publish", UNCHANGED <<osNow, entryStamp, watermark, start>>,
         (osPc' = "wait" /\ osDue' = osNow + PollInterval) \/ osPc' = "dead",
         \A e \in Entries :
           delivered'[e] = delivered[e] \/ (delivered'[e] = delivered[e] + 1 /\ e \in result)
  PROVE  TwiceInv'
<1> SUFFICES ASSUME NEW e \in Entries
             PROVE  /\ entryStamp[e] # OsNever => entryStamp[e] <= osNow
                    /\ delivered'[e] <= 2
                    /\ delivered'[e] >= 1 =>
                         entryStamp[e] # OsNever /\ (osPc' = "wait" => osDue' >= entryStamp[e] + Second)
                    /\ delivered'[e] = 2 => watermark >= entryStamp[e] + Second
  BY DEF TwiceInv
<1>1. /\ delivered[e] \in Nat /\ osNow \in Nat /\ watermark \in Nat /\ start \in Nat
      /\ start <= watermark /\ entryStamp[e] \in Nat \cup {OsNever}
      /\ Second \in Nat /\ PollInterval \in Nat
  BY OsEventsAssumption DEF LogTypes
<1>2. /\ entryStamp[e] # OsNever => entryStamp[e] <= osNow
      /\ delivered[e] <= 2
      /\ delivered[e] >= 1 => entryStamp[e] # OsNever /\ watermark >= entryStamp[e] + Second
      /\ delivered[e] = 2 => start >= entryStamp[e] + Second
      /\ e \in result => entryStamp[e] # OsNever /\ delivered[e] < 2
  BY DEF TwiceInv
<1> QED BY <1>1, <1>2

LEMMA TwiceStep ==
  ASSUME PollInterval >= Second
  PROVE  LogInv /\ TwiceInv /\ [OsNext]_osVars => TwiceInv'
<1> SUFFICES ASSUME LogTypes, TwiceInv, [OsNext]_osVars
             PROVE  TwiceInv'
  BY DEF LogInv
<1> USE OsEventsAssumption DEF LogTypes
<1>1. ASSUME UNCHANGED <<entryStamp, osPc, osDue, watermark, start, result, delivered>>,
             osNow' \in Nat, osNow <= osNow'
      PROVE  TwiceInv'
  BY <1>1 DEF TwiceInv
<1>2. CASE UNCHANGED osVars
  BY <1>1, <1>2 DEF osVars, system, osThread, osHistory
<1>3. CASE Start \/ StartMissing \/ StartRaises
  BY <1>3 DEF TwiceInv, Start, StartMissing, StartRaises, system, osHistory
<1>4. CASE List \/ ListFails
  BY <1>4 DEF TwiceInv, List, ListFails, system, osHistory
<1>5. CASE Ask
  BY <1>5 DEF TwiceInv, Ask, system, osHistory
<1>6. CASE Query
  BY <1>6, TwiceQuery
<1>7. CASE QueryFails
  BY <1>7 DEF TwiceInv, QueryFails, system
<1>8. CASE Publish
  <2>1. ASSUME NEW e \in Entries
        PROVE  delivered'[e] = delivered[e] \/ (delivered'[e] = delivered[e] + 1 /\ e \in result)
    <3>1. Emit(result)
      BY <1>8 DEF Publish
    <3> QED BY <3>1, EmitFacts
  <2> QED BY <1>8, <2>1, TwicePublished DEF Publish, system
<1>9. ASSUME NEW b \in OsMalformed, PublishRaises(b)
      PROVE  TwiceInv'
  <2>1. ASSUME NEW e \in Entries
        PROVE  delivered'[e] = delivered[e] \/ (delivered'[e] = delivered[e] + 1 /\ e \in result)
    <3>1. Emit({f \in result : entryStamp[f] < entryStamp[b]})
      BY <1>9 DEF PublishRaises
    <3> QED BY <3>1, EmitFacts
  <2> QED BY <1>9, <2>1, TwicePublished DEF PublishRaises, system
<1>10. CASE \E r \in Reports : EmitReport(r)
  BY <1>10 DEF TwiceInv, EmitReport, system
<1>11. CASE OsTick
  BY <1>1, <1>11 DEF OsTick, osThread, osHistory
<1>12. CASE OsRestart
  BY <1>12 DEF TwiceInv, OsRestart
<1>13. CASE \E r \in Reports : WriteReport(r) \/ CompleteReport(r)
  BY <1>1, <1>13 DEF WriteReport, CompleteReport, osThread, osHistory
<1>14. ASSUME NEW f \in Entries, LogEntry(f)
       PROVE  TwiceInv'
  <2>1. /\ UNCHANGED <<osNow, osPc, osDue, watermark, start, result, delivered>>
        /\ entryStamp[f] = OsNever /\ entryStamp'[f] = osNow
        /\ \A e \in Entries \ {f} : entryStamp'[e] = entryStamp[e]
    BY <1>14 DEF LogEntry, osThread, osHistory
  <2>2. delivered[f] \in Nat /\ ~(delivered[f] >= 1)
    BY <2>1 DEF TwiceInv
  <2>3. delivered[f] = 0 /\ ~(osPc = "publish" /\ f \in result)
    BY <2>1, <2>2 DEF TwiceInv
  <2> QED BY <2>1, <2>3 DEF TwiceInv
<1> QED
  BY <1>2, <1>3, <1>4, <1>5, <1>6, <1>7, <1>8, <1>9, <1>10, <1>11, <1>12, <1>13, <1>14
  DEF OsNext, OsCollector, Environment

(* With a poll of a second or longer, an entry that two queries overlap on *)
(* is published twice and never again, across restarts too.                *)
THEOREM DeliveredAtMostTwiceHolds ==
  ASSUME PollInterval >= Second
  PROVE  OsSpec => []DeliveredAtMostTwice
<1>1. OsInit => LogInv /\ TwiceInv
  BY LogInit, TwiceInit
<1>2. LogInv /\ TwiceInv /\ [OsNext]_osVars => LogInv' /\ TwiceInv'
  BY LogStep, TwiceStep
<1>3. TwiceInv => DeliveredAtMostTwice
  BY DEF TwiceInv, DeliveredAtMostTwice
<1> QED BY <1>1, <1>2, <1>3, PTL DEF OsSpec
=============================================================================
