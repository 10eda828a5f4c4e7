----------------------------- MODULE Parts_proof -----------------------------
(***************************************************************************)
(* Proofs about three of the parts that MCParts puts next to one another:  *)
(* the tail of the terminal log, the signal file and the network sampler.  *)
(* Their variables are disjoint, and no theorem is about two of them.      *)
(***************************************************************************)
EXTENDS TerminalTail, ManualTrigger, NetSampler,
        FiniteSetTheorems, WellFoundedInduction, TLAPS

-----------------------------------------------------------------------------
(***************************************************************************)
(* TerminalTail, for any commands, any way their lines are torn and mixed, *)
(* and any polling interval.                                               *)
(*                                                                         *)
(* What has been read is known by three facts: the reader stands at the    *)
(* end of a line, at a cut or where it began (AtBoundary); the fragments   *)
(* of a command are one, or a head and later its rest, and there are none  *)
(* while it runs (LinesOnce); and those of a private command begin before  *)
(* the reader did (PrivateBefore).                                         *)
(* The delay is bounded by a budget of one period for each line that is    *)
(* still to be read (OnTime).                                              *)
(***************************************************************************)
Fragments == [cmd : Commands, part : {"whole", "head", "rest"}]

TailTypes ==
  /\ tailNow \in Nat /\ tailDue \in Nat
  /\ log \in Seq(Fragments) /\ published \in Seq(Nat)
  /\ pos \in 0..Len(log) /\ tailOpened \in 0..pos /\ cuts \subseteq 0..pos
  /\ behind \in [since : Nat, from : Nat]
  /\ switch = "off" => tailPc = "none"

LinesOnce ==
  /\ \A i, j \in 1..Len(log) :
       i < j /\ log[i].cmd = log[j].cmd => log[i].part = "head" /\ log[j].part = "rest"
  /\ \A i \in 1..Len(log) : log[i].cmd \notin running

PublishedEnds ==
  \A i \in 1..Len(published) : published[i] \in 1..Len(log) /\ Ends(log[published[i]])

AtBoundary == Tailing => pos \in cuts \cup {tailOpened} \/ Ends(log[pos])

PrivateBefore ==
  \A c \in private :
    \E k \in 1..Len(log) : log[k].cmd = c /\ (Tailing => k <= tailOpened)

ReaderInv ==
  /\ TailTypes /\ LinesOnce /\ PublishedEnds /\ AtBoundary /\ PrivateBefore
  /\ LostOnlyIfBroken /\ PrivateWhileOff

(* What is left of the time until a step that is due has been taken, and   *)
(* the time that the line at the reader has for being read.                *)
Slack == IF tailPc = "waiting" THEN 2 * TailLag ELSE TailLag
Budget == behind.since + (pos + 1 - behind.from) * Period

OnTime ==
  /\ Busy => tailNow <= tailDue + TailLag
  /\ tailPc = "waiting" => tailDue <= tailNow + Idle + Poll
  /\ tailPc = "reading" => tailDue <= tailNow
  /\ Tailing /\ switch = "on" /\ pos < Len(log) =>
       behind.from <= pos /\ tailDue + Slack <= Budget

-----------------------------------------------------------------------------
LEMMA FragmentAppended ==
  ASSUME NEW S, NEW s \in Seq(S), NEW e \in S
  PROVE  /\ Append(s, e) \in Seq(S) /\ Len(s) \in Nat
         /\ Len(Append(s, e)) = Len(s) + 1
         /\ Append(s, e)[Len(s) + 1] = e
         /\ \A i \in 1..Len(s) : s[i] \in S /\ Append(s, e)[i] = s[i]
OBVIOUS

LEMMA FragmentType ==
  ASSUME NEW S, NEW s \in Seq(S)
  PROVE  Len(s) \in Nat /\ DOMAIN s = 1..Len(s) /\ \A i \in 1..Len(s) : s[i] \in S
OBVIOUS

LEMMA LeastNatural ==
  ASSUME NEW T \in SUBSET Nat, T # {}
  PROVE  \E n \in T : \A k \in T : n <= k
<1> DEFINE Less == {p \in Nat \X Nat : p[1] < p[2]}
<1>1. IsWellFoundedOn(Less, Nat)
  BY NatLessThanWellFounded DEF OpToRel
<1> HIDE DEF Less
<1>2. PICK n \in T : \A k \in T : <<k, n>> \notin Less
  BY <1>1, WFMin
<1>3. \A k \in T : ~(k < n)
  BY <1>2 DEF Less
<1> QED BY <1>3

(* readline stops at the first end of a line behind the reader, or at the  *)
(* end of the file.                                                        *)
LEMMA LineEndIsFirst ==
  ASSUME pos \in Nat, Len(log) \in Nat, pos < Len(log)
  PROVE  /\ LineEnd \in (pos + 1)..Len(log)
         /\ \A i \in (pos + 1)..(LineEnd - 1) : ~Ends(log[i])
         /\ Ends(log[LineEnd]) \/ LineEnd = Len(log)
<1> DEFINE Stops == {n \in Nat : n \in (pos + 1)..Len(log) /\ (Ends(log[n]) \/ n = Len(log))}
           IsEnd(n) == /\ \A i \in (pos + 1)..(n - 1) : ~Ends(log[i])
                       /\ Ends(log[n]) \/ n = Len(log)
<1>1. Len(log) \in Stops /\ Stops \in SUBSET Nat
  OBVIOUS
<1>2. PICK n \in Stops : \A k \in Stops : n <= k
  BY <1>1, LeastNatural
<1>3. \A i \in (pos + 1)..(n - 1) : ~Ends(log[i])
  BY <1>2
<1>4. \E k \in (pos + 1)..Len(log) : IsEnd(k)
  BY <1>2, <1>3, Zenon
<1> HIDE DEF IsEnd
<1>5. LineEnd = CHOOSE k \in (pos + 1)..Len(log) : IsEnd(k)
  BY Zenon DEF LineEnd, IsEnd
<1>6. LineEnd \in (pos + 1)..Len(log) /\ IsEnd(LineEnd)
  BY <1>4, <1>5, Zenon
<1> QED BY <1>6, Zenon DEF IsEnd

LEMMA ReaderInit == TailInit => ReaderInv
<1> SUFFICES ASSUME TailInit PROVE ReaderInv
  OBVIOUS
<1>1. TailTypes
  BY DEF TailInit, TailTypes, NotBehind, Fragments
<1>2. LinesOnce /\ PublishedEnds /\ AtBoundary /\ PrivateBefore
  BY DEF TailInit, LinesOnce, PublishedEnds, AtBoundary, PrivateBefore, Tailing
<1>3. LostOnlyIfBroken /\ PrivateWhileOff
  BY DEF TailInit, LostOnlyIfBroken, PrivateWhileOff, Tailing
<1> QED BY <1>1, <1>2, <1>3 DEF ReaderInv

(* What a shell appends concerns neither what has been read nor what has   *)
(* been published; a command of which an end is published writes no more.  *)
LEMMA ReaderWrite ==
  ASSUME ReaderInv, NEW c \in Commands, Write(c)
  PROVE  ReaderInv'
<1>1. PICK part \in {"whole", "head", "rest"} :
        /\ AppendPart(c, part)
        /\ c \in running \/ (Parts(c) = {"head"} /\ part = "rest")
  BY DEF Write
<1> DEFINE f == [cmd |-> c, part |-> part]
<1>2. /\ log' = Append(log, f) /\ f \in Fragments
      /\ running' = running \ {c}
      /\ UNCHANGED <<tailNow, switch, tailPc, tailDue, pos, published, tailOpened, cuts>>
  BY <1>1 DEF AppendPart, Fragments, tailThread
<1>3. /\ log' \in Seq(Fragments) /\ Len(log) \in Nat /\ Len(log') = Len(log) + 1
      /\ log'[Len(log) + 1] = f /\ \A i \in 1..Len(log) : log'[i] = log[i]
  BY <1>2, FragmentAppended DEF ReaderInv, TailTypes
<1>4. \A i \in 1..Len(log) : log[i].cmd = c => log[i].part = "head" /\ part = "rest"
  <2>1. \A i \in 1..Len(log) : log[i].cmd = c => log[i].part \in Parts(c)
    BY FragmentType DEF Parts, ReaderInv, TailTypes
  <2>2. c \notin running \/ \A i \in 1..Len(log) : log[i].cmd # c
    BY DEF ReaderInv, LinesOnce
  <2> QED BY <1>1, <2>1, <2>2
<1>5. TailTypes'
  <2>1. behind' \in [since : Nat, from : Nat]
    BY <1>1 DEF AppendPart, ReaderInv, TailTypes
  <2> QED BY <1>2, <1>3, <2>1 DEF ReaderInv, TailTypes
<1>6. LinesOnce'
  <2>1. \A i \in 1..Len(log') : (i \in 1..Len(log) /\ log'[i] = log[i]) \/ (i = Len(log) + 1 /\ log'[i] = f)
    BY <1>3
  <2>2. \A i, j \in 1..Len(log') :
          i < j /\ log'[i].cmd = log'[j].cmd => log'[i].part = "head" /\ log'[j].part = "rest"
    BY <1>3, <1>4 DEF ReaderInv, LinesOnce
  <2>3. \A i \in 1..Len(log') : log'[i].cmd \notin running'
    BY <1>2, <2>1 DEF ReaderInv, LinesOnce
  <2> QED BY <2>2, <2>3 DEF LinesOnce
<1>7. PublishedEnds'
  BY <1>2, <1>3 DEF ReaderInv, PublishedEnds, Ends
<1>8. AtBoundary'
  <2>1. pos \in 0..Len(log) /\ tailOpened \in 0..pos
    BY DEF ReaderInv, TailTypes
  <2>2. CASE pos = 0
    BY <1>2, <2>1, <2>2 DEF AtBoundary
  <2>3. CASE pos \in 1..Len(log)
    BY <1>2, <1>3, <2>3 DEF ReaderInv, AtBoundary, Ends, Tailing
  <2> QED BY <2>1, <2>2, <2>3
<1>9. PrivateBefore'
  <2>1. \A d \in private : \E k \in 1..Len(log') : log'[k].cmd = d /\ (Tailing => k <= tailOpened)'
    BY <1>2, <1>3 DEF ReaderInv, PrivateBefore, Tailing
  <2>2. CASE switch = "off"
    <3>1. ~Tailing'
      BY <1>2, <2>2 DEF ReaderInv, TailTypes, Tailing
    <3>2. Len(log') \in 1..Len(log') /\ log'[Len(log')].cmd = c
      BY <1>3
    <3>3. private' = private \cup {c}
      BY <1>1, <2>2 DEF AppendPart
    <3> QED BY <2>1, <3>1, <3>2, <3>3, Zenon DEF PrivateBefore
  <2>3. CASE switch # "off"
    BY <1>1, <2>1, <2>3 DEF AppendPart, PrivateBefore
  <2> QED BY <2>2, <2>3
<1>10. LostOnlyIfBroken'
  <2> SUFFICES ASSUME Tailing, NEW m \in (tailOpened + 1)..pos, NEW n \in (tailOpened + 1)..pos,
                      Intact(m, n)', log'[n].cmd \notin NotJson
               PROVE  \E i \in DOMAIN published : published[i] = n
    BY <1>2, Zenon DEF LostOnlyIfBroken, Tailing
  <2>1. /\ m \in 1..Len(log) /\ n \in 1..Len(log) /\ log'[m] = log[m] /\ log'[n] = log[n]
        /\ m - 1 = tailOpened \/ (m - 1 \in 1..Len(log) /\ log'[m - 1] = log[m - 1])
    <3>1. tailOpened \in 0..pos /\ pos \in 0..Len(log)
      BY DEF ReaderInv, TailTypes
    <3>2. m \in 1..Len(log) /\ n \in 1..Len(log) /\ (m - 1 = tailOpened \/ m - 1 \in 1..Len(log))
      BY <1>3, <3>1
    <3> QED BY <1>3, <3>2
  <2>2. OneLine(m, n) /\ m..(n - 1) \cap cuts = {}
    BY <1>2, <2>1 DEF Intact, OneLine
  <2>3. m - 1 \in cuts \cup {tailOpened} \/ Ends(log[m - 1])
    BY <1>2, <2>1 DEF Intact, Ends
  <2> QED BY <2>1, <2>2, <2>3 DEF Intact, ReaderInv, LostOnlyIfBroken
<1>11. PrivateWhileOff'
  <2> SUFFICES ASSUME NEW i \in DOMAIN published
               PROVE  log'[published[i]].cmd \notin private'
    BY <1>2 DEF PrivateWhileOff
  <2>1. published[i] \in 1..Len(log) /\ Ends(log[published[i]])
    BY FragmentType DEF ReaderInv, TailTypes, PublishedEnds
  <2>2. log'[published[i]] = log[published[i]] /\ log[published[i]].cmd # c
    BY <1>3, <1>4, <2>1 DEF Ends
  <2>3. private' \subseteq private \cup {c}
    BY <1>1 DEF AppendPart
  <2> QED BY <2>2, <2>3 DEF ReaderInv, PrivateWhileOff
<1> QED BY <1>5, <1>6, <1>7, <1>8, <1>9, <1>10, <1>11 DEF ReaderInv

(* One line further: n is the end of the line that begins at pos + 1.      *)
LEMMA LineRead ==
  ASSUME ReaderInv, tailPc = "reading", pos < Len(log)
  PROVE  /\ pos \in Nat /\ Len(log) \in Nat /\ tailOpened \in 0..pos /\ cuts \subseteq 0..pos
         /\ LineEnd \in (pos + 1)..Len(log)
         /\ \A i \in (pos + 1)..(LineEnd - 1) : ~Ends(log[i])
         /\ Ends(log[LineEnd]) \/ LineEnd = Len(log)
<1>1. pos \in Nat /\ Len(log) \in Nat /\ tailOpened \in 0..pos /\ cuts \subseteq 0..pos
  BY FragmentType DEF ReaderInv, TailTypes
<1> QED BY <1>1, LineEndIsFirst

LEMMA ReaderHandles ==
  ASSUME ReaderInv, HandleLine
  PROVE  ReaderInv'
<1> DEFINE n == LineEnd
<1>1. /\ tailPc = "reading" /\ tailPc' = "waiting" /\ pos < Len(log) /\ pos' = n
      /\ behind' = (IF n = Len(log) THEN NotBehind ELSE behind)
      /\ cuts' = (IF Ends(log[n]) THEN cuts ELSE cuts \cup {n})
      /\ published' = (IF Parses(pos + 1, n) THEN Append(published, n) ELSE published)
      /\ tailDue' = tailNow + Poll
      /\ UNCHANGED <<tailNow, log, running, switch, tailOpened, private>>
  BY DEF HandleLine, shells
<1>2. /\ pos \in Nat /\ Len(log) \in Nat /\ tailOpened \in 0..pos /\ cuts \subseteq 0..pos
      /\ n \in (pos + 1)..Len(log)
      /\ \A i \in (pos + 1)..(n - 1) : ~Ends(log[i])
      /\ Ends(log[n]) \/ n = Len(log)
  BY <1>1, LineRead
<1> HIDE DEF n
<1>3. published \in Seq(Nat) /\ n \in Nat
  BY <1>2 DEF ReaderInv, TailTypes
<1>4. /\ published' \in Seq(Nat)
      /\ \A i \in 1..Len(published) : i \in 1..Len(published') /\ published'[i] = published[i]
      /\ \A i \in 1..Len(published') :
           (i \in 1..Len(published) /\ published'[i] = published[i])
           \/ (Parses(pos + 1, n) /\ published'[i] = n)
      /\ Parses(pos + 1, n) => \E i \in 1..Len(published') : published'[i] = n
  <2>1. CASE Parses(pos + 1, n)
    <3>1. published' = Append(published, n)
      BY <1>1, <2>1
    <3>2. /\ published' \in Seq(Nat) /\ Len(published) \in Nat
          /\ Len(published') = Len(published) + 1 /\ published'[Len(published) + 1] = n
          /\ \A i \in 1..Len(published) : published'[i] = published[i]
      BY <1>3, <3>1, FragmentAppended
    <3> QED BY <2>1, <3>2
  <2>2. CASE ~Parses(pos + 1, n)
    BY <1>1, <1>3, <2>2
  <2> QED BY <2>1, <2>2
<1>5. TailTypes'
  <2>1. behind' \in [since : Nat, from : Nat] /\ tailDue' \in Nat
    BY <1>1, TailAssumption DEF ReaderInv, TailTypes, NotBehind
  <2> QED BY <1>1, <1>2, <1>4, <2>1 DEF ReaderInv, TailTypes
<1>6. LinesOnce'
  BY <1>1 DEF ReaderInv, LinesOnce
<1>7. Parses(pos + 1, n) => Ends(log[n]) /\ log[n].cmd \notin private
  <2> SUFFICES ASSUME Parses(pos + 1, n) PROVE Ends(log[n]) /\ log[n].cmd \notin private
    OBVIOUS
  <2>1. OneLine(pos + 1, n)
    BY DEF Parses
  <2>2. Ends(log[n])
    BY <2>1 DEF OneLine, Ends
  <2>3. ASSUME log[n].cmd \in private PROVE FALSE
    <3>1. PICK k \in 1..Len(log) : log[k].cmd = log[n].cmd /\ k <= tailOpened
      BY <1>1, <2>3, Zenon DEF ReaderInv, PrivateBefore, Tailing
    <3>2. \A j \in (pos + 1)..Len(log) : log[j].cmd = log[k].cmd => log[j].part = "rest"
      BY <1>2, <3>1 DEF ReaderInv, LinesOnce
    <3> QED BY <1>2, <2>1, <3>1, <3>2 DEF OneLine
  <2> QED BY <2>2, <2>3
<1>8. PublishedEnds'
  <2>1. n \in 1..Len(log)
    BY <1>2
  <2> QED BY <1>1, <1>4, <1>7, <2>1 DEF ReaderInv, PublishedEnds
<1>9. AtBoundary'
  BY <1>1 DEF AtBoundary
<1>10. PrivateBefore'
  BY <1>1, Zenon DEF ReaderInv, PrivateBefore, Tailing
<1>11. LostOnlyIfBroken'
  <2> SUFFICES ASSUME NEW m \in (tailOpened + 1)..n, NEW k \in (tailOpened + 1)..n,
                      OneLine(m, k), log[k].cmd \notin NotJson,
                      m - 1 \in cuts' \cup {tailOpened} \/ Ends(log[m - 1]),
                      m..(k - 1) \cap cuts' = {}
               PROVE  \E i \in DOMAIN published' : published'[i] = k
    <3>1. \A m, k : Intact(m, k)' => /\ OneLine(m, k) /\ m..(k - 1) \cap cuts' = {}
                                     /\ m - 1 \in cuts' \cup {tailOpened} \/ Ends(log[m - 1])
      BY <1>1 DEF Intact, OneLine, Ends
    <3>2. log' = log /\ tailOpened' = tailOpened /\ pos' = n
      BY <1>1
    <3> QED BY <3>1, <3>2 DEF LostOnlyIfBroken
  <2>1. (m = k /\ log[k].part = "whole") \/ (m + 1 = k /\ log[m].part = "head" /\ log[k].part = "rest")
    BY DEF OneLine
  <2>2. Ends(log[k]) /\ cuts \subseteq cuts' /\ cuts' \subseteq cuts \cup {n}
    BY <1>1, <2>1 DEF Ends
  <2>3. CASE k <= pos
    <3>1. m \in (tailOpened + 1)..pos /\ k \in (tailOpened + 1)..pos /\ n \notin {m - 1}
      BY <1>2, <2>1, <2>3
    <3>2. Intact(m, k)
      BY <2>2, <3>1 DEF Intact
    <3>3. \E i \in DOMAIN published : published[i] = k
      BY <1>1, <3>1, <3>2 DEF ReaderInv, LostOnlyIfBroken, Tailing
    <3> QED BY <1>3, <1>4, <3>3
  <2>4. CASE k > pos
    <3>1. k = n /\ Ends(log[n])
      BY <1>2, <2>2, <2>4
    <3>2. cuts' = cuts
      BY <1>1, <3>1
    <3>3. m = pos + 1
      <4>1. CASE m > pos + 1
        <5>1. m - 1 \notin cuts /\ m - 1 # tailOpened /\ m - 1 \in (pos + 1)..(n - 1)
          BY <1>2, <2>1, <3>1, <4>1
        <5>2. ~Ends(log[m - 1])
          BY <1>2, <5>1
        <5> QED BY <3>2, <5>1, <5>2
      <4>2. CASE m <= pos
        <5>1. m = pos /\ m + 1 = k /\ log[pos].part = "head"
          BY <1>2, <2>1, <2>4, <4>2
        <5>2. pos \notin cuts /\ pos # tailOpened
          BY <1>2, <3>2, <5>1
        <5>3. Ends(log[pos])
          BY <1>1, <5>2 DEF ReaderInv, AtBoundary, Tailing
        <5> QED BY <5>1, <5>3 DEF Ends
      <4> QED BY <1>2, <4>1, <4>2
    <3>4. Parses(pos + 1, n)
      BY <3>1, <3>3 DEF Parses
    <3> QED BY <1>4, <3>1, <3>4
  <2> QED BY <1>2, <2>3, <2>4
<1>12. PrivateWhileOff'
  <2> SUFFICES ASSUME NEW i \in 1..Len(published') PROVE log[published'[i]].cmd \notin private
    BY <1>1, <1>4 DEF PrivateWhileOff
  <2>1. CASE i \in 1..Len(published) /\ published'[i] = published[i]
    BY <1>3, <2>1 DEF ReaderInv, PrivateWhileOff
  <2>2. CASE Parses(pos + 1, n) /\ published'[i] = n
    BY <1>7, <2>2
  <2> QED BY <1>4, <2>1, <2>2
<1> QED BY <1>5, <1>6, <1>8, <1>9, <1>10, <1>11, <1>12 DEF ReaderInv

(* Every other step leaves the log and what was published; a thread that   *)
(* opens the log stands at its end.                                        *)
OtherStep ==
  \/ TailTick \/ TurnOn \/ TurnOff \/ Joined
  \/ OpenLog \/ OpenRaises \/ Wake \/ Stopped \/ NoLine \/ HandleLineRaises
  \/ \E c \in Commands : Run(c)
  \/ UNCHANGED tailVars

LEMMA ReaderMoves ==
  ASSUME ReaderInv, OtherStep
  PROVE  ReaderInv'
<1>1. UNCHANGED <<log, published, cuts, private>>
  BY DEF OtherStep, TailTick, TurnOn, TurnOff, Joined, OpenLog, OpenRaises, Run, Wake, Stopped, NoLine,
         HandleLineRaises, tailVars, tailHistory, shells
<1>2. (LinesOnce /\ PublishedEnds /\ PrivateWhileOff)'
  <2>1. \A i \in 1..Len(log) : log[i].cmd \notin running'
    <3>1. ASSUME NEW c \in Commands, Run(c), NEW i \in 1..Len(log) PROVE log[i].cmd # c
      <4>1. Parts(c) = {} /\ i \in DOMAIN log
        BY <3>1, FragmentType DEF Run, ReaderInv, TailTypes
      <4> QED BY <4>1 DEF Parts
    <3>2. (\E c \in Commands : Run(c) /\ running' = running \cup {c}) \/ running' = running
      BY DEF OtherStep, TailTick, TurnOn, TurnOff, Joined, OpenLog, OpenRaises, Run, Wake, Stopped, NoLine,
             HandleLineRaises, tailVars, shells
    <3>3. CASE running' = running
      BY <3>3 DEF ReaderInv, LinesOnce
    <3>4. ASSUME NEW c \in Commands, Run(c), running' = running \cup {c}
          PROVE  \A i \in 1..Len(log) : log[i].cmd \notin running'
      BY <3>1, <3>4 DEF ReaderInv, LinesOnce
    <3> QED BY <3>2, <3>3, <3>4, Zenon
  <2> QED BY <1>1, <2>1 DEF ReaderInv, LinesOnce, PublishedEnds, PrivateWhileOff
<1>3. TailTypes'
  <2>1. Len(log) \in Nat /\ tailNow \in Nat /\ Poll \in Nat /\ Idle \in Nat /\ pos \in Nat
    BY FragmentType, TailAssumption DEF ReaderInv, TailTypes
  <2>2. CASE OpenLog
    BY <1>1, <2>1, <2>2 DEF OpenLog, ReaderInv, TailTypes, NotBehind
  <2>3. CASE HandleLineRaises
    <3>1. pos' \in (pos + 1)..Len(log)
      BY <2>3, LineRead DEF HandleLineRaises
    <3> QED BY <1>1, <2>1, <2>3, <3>1 DEF HandleLineRaises, tailHistory, ReaderInv, TailTypes
  <2>4. CASE TailTick \/ TurnOn \/ TurnOff \/ Joined \/ UNCHANGED tailVars
    BY <1>1, <2>1, <2>4 DEF TailTick, TurnOn, TurnOff, Joined, tailVars, tailThread, tailHistory, ReaderInv, TailTypes
  <2>5. CASE Wake \/ Stopped \/ NoLine \/ OpenRaises
    BY <1>1, <2>1, <2>5 DEF Wake, Stopped, NoLine, OpenRaises, tailHistory, ReaderInv, TailTypes
  <2>6. CASE \E c \in Commands : Run(c)
    BY <1>1, <2>1, <2>6 DEF Run, tailThread, tailHistory, ReaderInv, TailTypes
  <2> QED BY <2>2, <2>3, <2>4, <2>5, <2>6 DEF OtherStep
<1>4. CASE OpenLog
  <2>1. pos' = Len(log) /\ tailOpened' = Len(log) /\ Len(log) \in Nat
    BY <1>4, FragmentType DEF OpenLog, ReaderInv, TailTypes
  <2>2. AtBoundary' /\ LostOnlyIfBroken'
    BY <2>1 DEF AtBoundary, LostOnlyIfBroken
  <2>3. PrivateBefore'
    BY <1>1, <2>1 DEF ReaderInv, PrivateBefore
  <2> QED BY <1>2, <1>3, <2>2, <2>3 DEF ReaderInv
<1>5. CASE ~Tailing'
  <2>1. AtBoundary' /\ LostOnlyIfBroken'
    BY <1>5, Zenon DEF AtBoundary, LostOnlyIfBroken
  <2>2. PrivateBefore'
    BY <1>1, <1>5 DEF ReaderInv, PrivateBefore
  <2> QED BY <1>2, <1>3, <2>1, <2>2 DEF ReaderInv
<1>6. CASE Tailing /\ UNCHANGED <<pos, tailOpened>>
  <2>1. (AtBoundary /\ LostOnlyIfBroken /\ PrivateBefore)'
    BY <1>1, <1>6 DEF ReaderInv, AtBoundary, LostOnlyIfBroken, PrivateBefore, Intact, OneLine
  <2> QED BY <1>2, <1>3, <2>1 DEF ReaderInv
<1>7. CASE \E c \in Commands : Run(c)
  <2>1. UNCHANGED <<tailPc, pos, tailOpened>>
    BY <1>7, Zenon DEF Run, tailThread, tailHistory
  <2> QED BY <1>5, <1>6, <2>1 DEF Tailing
<1> QED
  BY <1>4, <1>5, <1>6, <1>7 DEF OtherStep, TailTick, TurnOn, TurnOff, Joined, OpenRaises, Wake, Stopped,
     NoLine, HandleLineRaises, tailVars, tailThread, tailHistory, Tailing

(* The reader, the log and what was published agree in every state.        *)
THEOREM ReaderInvariance ==
  TailSpec => []ReaderInv
<1>1. TailInit => ReaderInv
  BY ReaderInit
<1>2. ReaderInv /\ [TailNext]_tailVars => ReaderInv'
  BY ReaderWrite, ReaderHandles, ReaderMoves, Zenon DEF TailNext, OtherStep
<1> QED BY <1>1, <1>2, PTL DEF TailSpec

(* Every line that the reader met in one piece and that is JSON has been   *)
(* published, however the lines of the shells are torn and mixed.          *)
THEOREM LostOnlyIfBrokenHolds ==
  TailSpec => []LostOnlyIfBroken
<1>1. ReaderInv => LostOnlyIfBroken
  BY DEF ReaderInv
<1> QED BY <1>1, ReaderInvariance, PTL

(* No command that ended before capture was turned on, or while it was     *)
(* off, is ever published, not even when the rest of its line follows      *)
(* after it is on again (the seek to the end in _run).  A command that     *)
(* began while it was off and ended while it was on is not among them.     *)
THEOREM PrivateWhileOffHolds ==
  TailSpec => []PrivateWhileOff
<1>1. ReaderInv => PrivateWhileOff
  BY DEF ReaderInv
<1> QED BY <1>1, ReaderInvariance, PTL

-----------------------------------------------------------------------------
LEMMA TailNumbers ==
  ASSUME TailTypes
  PROVE  /\ tailNow \in Nat /\ tailDue \in Nat /\ pos \in Nat /\ Len(log) \in Nat /\ pos <= Len(log)
         /\ behind.since \in Nat /\ behind.from \in Nat
         /\ Poll \in Nat /\ Idle \in Nat /\ TailLag \in Nat
         /\ Period \in Nat /\ Period = Idle + Poll + 2 * TailLag
BY FragmentType, TailAssumption DEF TailTypes, Period

LEMMA MorePeriods ==
  ASSUME NEW k \in Nat, NEW a \in Int, NEW b \in Int, a <= b
  PROVE  a * k \in Int /\ a * k <= b * k /\ (a + 1) * k = a * k + k
BY Z3

LEMMA BudgetFrame ==
  /\ TailTypes => Budget \in Int /\ Slack \in Nat
  /\ UNCHANGED <<pos, behind>> => Budget' = Budget
  /\ UNCHANGED tailPc => Slack' = Slack /\ Tailing' = Tailing /\ Busy' = Busy
<1>1. ASSUME TailTypes PROVE Budget \in Int /\ Slack \in Nat
  <2> DEFINE a == pos + 1 - behind.from
  <2>1. behind.since \in Nat /\ a \in Int /\ Period \in Nat
    BY <1>1, TailNumbers
  <2>2. Budget = behind.since + a * Period
    BY DEF Budget
  <2> HIDE DEF a
  <2>3. a * Period \in Int
    BY <2>1, MorePeriods
  <2>4. Budget \in Int
    BY <2>1, <2>2, <2>3
  <2> QED BY <1>1, <2>4, TailNumbers DEF Slack
<1> QED BY <1>1 DEF Budget, Slack, Period, Tailing, Busy

(* A line that comes in when the reader is through has a whole period.     *)
LEMMA OnTimeWrite ==
  ASSUME TailTypes, TailTypes', OnTime, NEW c \in Commands, Write(c)
  PROVE  OnTime'
<1>1. PICK part \in {"whole", "head", "rest"} : AppendPart(c, part)
  BY DEF Write
<1>2. /\ UNCHANGED <<tailNow, switch, tailPc, tailDue, pos>>
      /\ behind' = IF Tailing /\ pos = Len(log) THEN [since |-> tailNow, from |-> pos] ELSE behind
      /\ Len(log') = Len(log) + 1
  BY <1>1, FragmentType DEF AppendPart, tailThread, TailTypes
<1> DEFINE Due == Tailing /\ switch = "on" /\ pos < Len(log) =>
                    behind.from <= pos /\ tailDue + Slack <= Budget
<1>3. OnTime => Due
  BY DEF OnTime
<1>4. Tailing' /\ (switch = "on")' => behind'.from <= pos' /\ tailDue' + Slack' <= Budget'
  <2>1. CASE Tailing /\ pos = Len(log)
    <3>1. behind'.since = tailNow /\ behind'.from = pos
      BY <1>2, <2>1
    <3>2. (pos + 1 - pos) * Period = Period
      BY TailNumbers
    <3>3. tailDue + Slack <= tailNow + Period
      BY <2>1, TailNumbers DEF OnTime, Slack, Tailing
    <3>4. Budget' = tailNow + Period /\ Slack' = Slack
      BY <1>2, <3>1, <3>2 DEF Budget, Slack, Period
    <3> QED BY <1>2, <3>1, <3>3, <3>4, TailNumbers
  <2>2. CASE Tailing /\ pos # Len(log)
    <3>1. behind' = behind /\ pos < Len(log)
      BY <1>2, <2>2, TailNumbers
    <3> QED BY <1>2, <1>3, <2>2, <3>1 DEF Budget, Slack, Period
  <2> QED BY <1>2, <2>1, <2>2 DEF Tailing
<1> QED BY <1>2, <1>4 DEF OnTime, Busy, Tailing

(* One line is read: the budget grows by one period, and the reader is     *)
(* back before it is used up.                                              *)
LEMMA OnTimeHandles ==
  ASSUME ReaderInv, ReaderInv', OnTime, HandleLine
  PROVE  OnTime'
<1>1. /\ tailPc = "reading" /\ tailPc' = "waiting" /\ pos < Len(log) /\ pos' = LineEnd
      /\ tailDue' = tailNow + Poll /\ UNCHANGED <<tailNow, log, switch>>
      /\ LineEnd # Len(log) => behind' = behind
  BY DEF HandleLine, shells
<1>2. pos' \in (pos + 1)..Len(log)
  BY <1>1, LineRead
<1>3. TailTypes /\ TailTypes'
  BY DEF ReaderInv
<1>4. ASSUME switch = "on", pos' < Len(log)
      PROVE  behind'.from <= pos' /\ tailDue' + Slack' <= Budget'
  <2>1. behind' = behind /\ behind.from <= pos /\ tailDue + TailLag <= Budget /\ tailNow <= tailDue + TailLag
    BY <1>1, <1>4, <1>3, TailNumbers DEF OnTime, Tailing, Busy, Slack
  <2>2. pos \in Nat /\ pos' \in Nat /\ behind.from \in Nat /\ behind.since \in Nat /\ Period \in Nat
    BY <1>3, <1>2, TailNumbers
  <2> DEFINE a == pos + 1 - behind.from
             b == pos' + 1 - behind.from
  <2>3. a \in Int /\ b \in Int /\ a + 1 \in Int /\ a <= b /\ a + 1 <= b
    BY <1>2, <2>2
  <2> DEFINE before == a * Period
             after == b * Period
  <2>4. Budget = behind.since + before /\ Budget' = behind.since + after
    BY <2>1 DEF Budget, Period
  <2> HIDE DEF a, b
  <2>5. before \in Int /\ after \in Int /\ before + Period <= after
    BY <2>2, <2>3, MorePeriods
  <2> HIDE DEF before, after
  <2>6. tailDue' + Slack' = tailNow + Poll + 2 * TailLag
    BY <1>1, <1>3, TailNumbers DEF Slack
  <2>7. tailNow + Poll + 2 * TailLag <= behind.since + after
    <3>1. /\ tailNow \in Nat /\ tailDue \in Nat /\ Poll \in Nat /\ Idle \in Nat /\ TailLag \in Nat
          /\ Poll + 2 * TailLag <= Period
      BY <1>3, TailNumbers
    <3>2. tailNow <= behind.since + before
      BY <2>1, <2>2, <2>4, <2>5, <3>1
    <3> QED BY <2>2, <2>5, <3>1, <3>2
  <2>8. behind'.from <= pos'
    BY <1>2, <2>1, <2>2
  <2> QED BY <2>4, <2>6, <2>7, <2>8
<1>5. /\ (Busy => tailNow <= tailDue + TailLag)'
      /\ (tailPc = "waiting" => tailDue <= tailNow + Idle + Poll)'
  BY <1>1, <1>3, TailNumbers
<1> QED BY <1>1, <1>4, <1>5 DEF OnTime

LEMMA OnTimeMoves ==
  ASSUME TailTypes, OnTime, OtherStep
  PROVE  OnTime'
<1>1. CASE TailTick
  <2>1. /\ Busy => tailNow < tailDue + TailLag
        /\ tailNow' = tailNow + 1 /\ UNCHANGED <<log, switch, tailPc, tailDue, pos, behind>>
    BY <1>1 DEF TailTick, shells, tailThread, tailHistory
  <2>2. Budget' = Budget /\ Slack' = Slack /\ Tailing' = Tailing /\ Busy' = Busy
    BY <2>1, BudgetFrame
  <2>3. Busy' => tailNow' <= tailDue' + TailLag
    <3>1. tailNow < tailDue + TailLag => tailNow' <= tailDue' + TailLag
      BY <2>1, TailNumbers
    <3> QED BY <2>1, <2>2, <3>1
  <2>4. /\ tailPc' = "waiting" => tailDue' <= tailNow' + Idle + Poll
        /\ tailPc' = "reading" => tailDue' <= tailNow'
    <3>1. /\ tailPc = "waiting" => tailDue <= tailNow + Idle + Poll
          /\ tailPc = "reading" => tailDue <= tailNow
      BY DEF OnTime
    <3>2. tailNow \in Nat /\ tailDue \in Nat /\ Idle \in Nat /\ Poll \in Nat
      BY TailNumbers
    <3> QED BY <2>1, <3>1, <3>2
  <2>5. Tailing' /\ switch' = "on" /\ pos' < Len(log') => behind'.from <= pos' /\ tailDue' + Slack' <= Budget'
    BY <2>1, <2>2 DEF OnTime
  <2> QED BY <2>3, <2>4, <2>5 DEF OnTime
<1>2. CASE TurnOn \/ Joined \/ Stopped \/ HandleLineRaises \/ OpenRaises
  <2>1. /\ tailPc' \in {"opening", "none", "ended", "dead"} /\ tailNow' = tailNow
        /\ tailPc' = "opening" => tailDue' = tailNow
    BY <1>2 DEF TurnOn, Joined, Stopped, HandleLineRaises, OpenRaises
  <2> QED BY <2>1, TailNumbers DEF OnTime, Busy, Tailing
<1>3. CASE TurnOff \/ (\E c \in Commands : Run(c)) \/ UNCHANGED tailVars
  <2>1. /\ UNCHANGED <<tailNow, log, tailPc, tailDue, pos, behind>>
        /\ switch' = switch \/ switch' = "stopping"
    BY <1>3 DEF TurnOff, Run, tailVars, shells, tailThread, tailHistory
  <2>2. Budget' = Budget /\ Slack' = Slack /\ Tailing' = Tailing /\ Busy' = Busy
    BY <2>1, BudgetFrame
  <2> QED BY <2>1, <2>2, TailNumbers DEF OnTime
<1>4. CASE OpenLog \/ NoLine
  <2>1. /\ tailPc' = "waiting" /\ tailNow' = tailNow /\ pos' = Len(log) /\ log' = log
        /\ tailDue' = tailNow + Poll \/ tailDue' = tailNow + Idle + Poll
    BY <1>4 DEF OpenLog, NoLine, shells
  <2>2. ~(pos < Len(log))' /\ tailNow <= tailDue' + TailLag /\ tailDue' <= tailNow + Idle + Poll
    BY <2>1, TailNumbers
  <2> QED BY <2>1, <2>2 DEF OnTime
<1>5. CASE Wake
  <2>1. /\ tailPc = "waiting" /\ tailPc' = "reading" /\ tailDue' = tailNow
        /\ UNCHANGED <<tailNow, log, switch, pos, behind>>
    BY <1>5 DEF Wake, shells, tailHistory
  <2>2. pos < Len(log) /\ switch = "on" => behind.from <= pos /\ tailDue + 2 * TailLag <= Budget
    BY <2>1 DEF OnTime, Tailing, Slack
  <2>3. tailNow <= tailDue + TailLag
    BY <2>1 DEF OnTime, Busy, Tailing
  <2>4. Budget' = Budget /\ Slack' = TailLag
    BY <2>1, BudgetFrame DEF Slack
  <2>5. Budget \in Int
    BY BudgetFrame
  <2>6. pos < Len(log) /\ switch = "on" => tailNow + TailLag <= Budget
    BY <2>2, <2>3, <2>5, TailNumbers
  <2> QED BY <2>1, <2>2, <2>4, <2>6, TailNumbers DEF OnTime
<1> QED BY <1>1, <1>2, <1>3, <1>4, <1>5, Zenon DEF OtherStep

(* A thread that keeps its bounds is never late for its budget.            *)
THEOREM OnTimeInvariance ==
  TailSpec => []OnTime
<1>1. TailInit => OnTime
  BY DEF TailInit, OnTime, Busy, Tailing
<1>2. ReaderInv /\ ReaderInv' /\ OnTime /\ [TailNext]_tailVars => OnTime'
  BY OnTimeWrite, OnTimeHandles, OnTimeMoves, Zenon DEF TailNext, OtherStep, ReaderInv
<1> QED BY <1>1, <1>2, ReaderInvariance, PTL DEF TailSpec

(* No command waits longer than one period for each line that was before   *)
(* it, however they come in (the readline and the wait of _tail_loop).     *)
THEOREM BacklogBoundedHolds ==
  TailSpec => []BacklogBounded
<1>1. ReaderInv /\ OnTime => BacklogBounded
  <2> SUFFICES ASSUME TailTypes, OnTime, Tailing, switch = "on", NEW n \in (pos + 1)..Len(log)
               PROVE  tailNow <= behind.since + (n - behind.from) * Period
    BY DEF BacklogBounded, ReaderInv
  <2>1. pos \in Nat /\ n \in Nat /\ pos < Len(log) /\ pos + 1 <= n /\ behind.from \in Nat /\ Period \in Nat
    BY TailNumbers
  <2>2. tailNow <= tailDue + TailLag /\ tailDue + Slack <= Budget
    BY <2>1 DEF OnTime, Busy
  <2>3. tailNow <= Budget
    <3>1. Slack >= TailLag /\ Slack \in Nat /\ Budget \in Int
      BY BudgetFrame, TailNumbers DEF Slack
    <3> QED BY <2>2, <3>1, TailNumbers
  <2> DEFINE a == pos + 1 - behind.from
             b == n - behind.from
             first == a * Period
             last == b * Period
  <2>4. a \in Int /\ b \in Int /\ a <= b
    BY <2>1
  <2> HIDE DEF a, b
  <2>5. first \in Int /\ last \in Int /\ first <= last
    BY <2>1, <2>4, MorePeriods
  <2>6. Budget = behind.since + first
    BY DEF Budget, a
  <2> HIDE DEF first, last
  <2>7. tailNow <= behind.since + last
    <3>1. tailNow \in Nat /\ behind.since \in Nat
      BY TailNumbers
    <3> QED BY <2>3, <2>5, <2>6, <3>1
  <2> QED BY <2>7 DEF last, b
<1> QED BY <1>1, ReaderInvariance, OnTimeInvariance, PTL

-----------------------------------------------------------------------------
(***************************************************************************)
(* ManualTrigger, for any requests, failures and restarts and any          *)
(* interleaving of the users and the poller.                               *)
(***************************************************************************)
Says == Requests \cup {NoReason}

SignalTypes ==
  /\ exists \in BOOLEAN /\ text \in Says
  /\ writing \subseteq Requests /\ touched \subseteq Requests
  /\ pollerPc \in {"wait", "read", "cleanup", "unlink", "fire", "dead"}
  /\ reason \in Says
  /\ fired \in Seq(Says)
  /\ kept \in Nat

(* A file, and a trigger that is about to be fired, are requests too.      *)
CountInv ==
  /\ Len(fired) <= Cardinality(touched) + kept
  /\ exists \/ pollerPc = "fire" => Len(fired) + 1 <= Cardinality(touched) + kept
  /\ exists /\ pollerPc = "fire" => Len(fired) + 2 <= Cardinality(touched) + kept

Reported == {fired[i] : i \in DOMAIN fired}

(* What the file and the variables of the poller stand for: a file for the *)
(* requests that are owed, and one trigger; the reason that is read or is  *)
(* about to be fired, for the one that was complete.                       *)
SignalInv ==
  /\ SignalTypes
  /\ pollerPc \in {"read", "cleanup", "unlink"} => exists
  /\ ~exists /\ pollerPc # "fire" => owed \subseteq lost
  /\ CountInv
  /\ pollerPc = "wait" => ready \subseteq Reported
  /\ pollerPc = "read" => ready \subseteq Reported \cup {text}
  /\ pollerPc \in {"unlink", "fire"} => ready \subseteq Reported \cup {reason}

LEMMA SignalInit == ManualInit => SignalInv
<1> SUFFICES ASSUME ManualInit PROVE SignalInv
  OBVIOUS
<1>1. SignalTypes
  <2>1. exists \in BOOLEAN
    BY Zenon DEF ManualInit
  <2>2. kept \in Nat /\ fired \in Seq(Says)
    BY DEF ManualInit
  <2> QED BY <2>1, <2>2, Zenon DEF ManualInit, SignalTypes, Says
<1>2. CountInv
  BY FS_EmptySet DEF ManualInit, CountInv
<1> QED BY <1>1, <1>2 DEF ManualInit, SignalInv

LEMMA TouchedCount ==
  ASSUME touched \subseteq Requests
  PROVE  /\ Cardinality(touched) \in Nat
         /\ \A q : q \notin touched => Cardinality(touched \cup {q}) = Cardinality(touched) + 1
<1>1. IsFiniteSet(touched)
  BY FS_Subset, ManualAssumption
<1> QED BY <1>1, FS_CardinalityType, FS_AddElement

LEMMA SignalUsers ==
  ASSUME SignalInv, NEW q \in Requests, Touch(q) \/ WriteReason(q)
  PROVE  SignalInv'
<1>1. UNCHANGED <<poller, fired, lost, kept>> /\ ready' = ready \ {text}
  BY DEF Touch, WriteReason
<1>2. SignalTypes' /\ Reported' = Reported
  BY <1>1 DEF Touch, WriteReason, SignalInv, SignalTypes, Says, poller, Reported
<1>3. (pollerPc \in {"read", "cleanup", "unlink"} => exists)' /\ (~exists /\ pollerPc # "fire" => owed \subseteq lost)'
  BY <1>1 DEF Touch, WriteReason, SignalInv, poller
<1>4. Cardinality(touched) \in Nat /\ Len(fired) \in Nat /\ kept \in Nat
  BY TouchedCount DEF SignalInv, SignalTypes
<1>5. CountInv'
  <2>1. CASE Touch(q)
    <3>1. Cardinality(touched') = Cardinality(touched) + 1
      BY <2>1, TouchedCount DEF Touch, SignalInv, SignalTypes
    <3> QED BY <1>1, <1>4, <3>1 DEF SignalInv, CountInv, poller
  <2>2. CASE WriteReason(q)
    BY <1>1, <2>2 DEF WriteReason, SignalInv, CountInv, poller
  <2> QED BY <2>1, <2>2
<1> QED BY <1>1, <1>2, <1>3, <1>5 DEF SignalInv, poller

LEMMA SignalPoller ==
  ASSUME SignalInv, Look \/ ReadSignal \/ ReadRaises \/ CleanUp \/ Unlink
  PROVE  SignalInv'
<1>1. UNCHANGED <<touched, fired, owed>>
  BY DEF Look, ReadSignal, ReadRaises, CleanUp, Unlink, manualHistory
<1>2. Cardinality(touched) \in Nat /\ Len(fired) \in Nat /\ kept \in Nat
  BY TouchedCount DEF SignalInv, SignalTypes
<1>3. Reported' = Reported
  BY <1>1 DEF Reported
<1>4. CASE Look
  BY <1>1, <1>3, <1>4 DEF Look, SignalInv, SignalTypes, CountInv, file
<1>5. CASE ReadSignal
  <2>1. /\ UNCHANGED <<file, kept, lost>> /\ pollerPc = "read" /\ pollerPc' = "unlink"
        /\ reason' \in Says /\ ready' \subseteq Reported \cup {reason'}
    BY <1>5 DEF ReadSignal, SignalInv, SignalTypes, Says
  <2> QED BY <1>1, <1>3, <2>1 DEF SignalInv, SignalTypes, CountInv, file
<1>6. CASE ReadRaises
  BY <1>1, <1>3, <1>6 DEF ReadRaises, SignalInv, SignalTypes, CountInv, file, manualHistory
<1>8. CASE CleanUp
  <2>1. SignalTypes' /\ kept' = kept /\ pollerPc' = "dead"
    <3>1. /\ kept' = kept /\ reason' = reason /\ pollerPc' = "dead"
          /\ \/ exists' = FALSE /\ text' = NoReason /\ writing' = {}
             \/ UNCHANGED file
      BY <1>8, Zenon DEF CleanUp
    <3> QED BY <1>1, <3>1 DEF file, SignalInv, SignalTypes, Says
  <2>2. exists' => exists
    BY <1>8, Zenon DEF CleanUp, SignalInv
  <2>3. ~exists' => owed \subseteq lost'
    BY <1>8, Zenon DEF CleanUp, SignalInv, file
  <2>4. CountInv'
    BY <1>1, <2>1, <2>2 DEF SignalInv, CountInv
  <2> QED BY <1>1, <2>1, <2>3, <2>4 DEF SignalInv
<1>7. CASE Unlink
  <2>1. SignalTypes'
    <3>1. exists' \in BOOLEAN
      BY <1>7, Zenon DEF Unlink, SignalInv, SignalTypes, file
    <3>2. kept' \in {kept, kept + 1} /\ text' \in {text, NoReason} /\ writing' \in {writing, {}}
      BY <1>7, Zenon DEF Unlink, file
    <3>3. kept' \in Nat /\ text' \in Says /\ writing' \subseteq Requests
      BY <3>2 DEF SignalInv, SignalTypes, Says
    <3> QED BY <1>1, <1>7, <3>1, <3>3 DEF Unlink, SignalInv, SignalTypes
  <2>2. CountInv'
    <3>1. CASE exists' = FALSE /\ kept' = kept
      BY <1>1, <1>2, <1>7, <3>1 DEF Unlink, SignalInv, CountInv
    <3>2. CASE kept' = kept + 1
      BY <1>1, <1>2, <1>7, <3>2 DEF Unlink, SignalInv, CountInv, file
    <3> QED BY <1>7, <3>1, <3>2 DEF Unlink
  <2> QED BY <1>1, <1>3, <1>7, <2>1, <2>2 DEF Unlink, SignalInv
<1> QED BY <1>4, <1>5, <1>6, <1>7, <1>8

LEMMA SignalFire ==
  ASSUME SignalInv, Fire
  PROVE  SignalInv'
<1>1. /\ UNCHANGED <<exists, text, writing, touched, reason, lost, ready, kept>>
      /\ pollerPc = "fire" /\ pollerPc' = "wait" /\ owed' = {} /\ fired' = Append(fired, reason)
  BY DEF Fire, file
<1>2. SignalTypes' /\ Len(fired') = Len(fired) + 1 /\ Len(fired) \in Nat
  BY <1>1 DEF SignalInv, SignalTypes
<1>3. Reported \cup {reason} \subseteq Reported'
  <2>1. DOMAIN fired = 1..Len(fired) /\ DOMAIN fired' = 1..Len(fired) + 1
        /\ fired'[Len(fired) + 1] = reason /\ \A i \in 1..Len(fired) : fired'[i] = fired[i]
    BY <1>1, <1>2 DEF SignalInv, SignalTypes
  <2> QED BY <1>2, <2>1 DEF Reported
<1>4. CountInv'
  <2>1. Cardinality(touched) \in Nat /\ kept \in Nat
    BY TouchedCount DEF SignalInv, SignalTypes
  <2> QED BY <1>1, <1>2, <2>1 DEF SignalInv, CountInv
<1> QED BY <1>1, <1>2, <1>3, <1>4 DEF SignalInv

LEMMA SignalStop ==
  ASSUME SignalInv, FireRaises \/ ManualRestart
  PROVE  SignalInv'
<1>1. UNCHANGED <<file, touched, fired, owed, kept>> /\ pollerPc' \in {"dead", "wait"}
      /\ (pollerPc = "fire" => owed \subseteq lost') /\ lost \subseteq lost'
      /\ (pollerPc' = "wait" => ready' \subseteq IF pollerPc = "wait" THEN ready ELSE {})
  BY DEF FireRaises, ManualRestart
<1>2. SignalTypes' /\ Reported' = Reported
  BY <1>1 DEF FireRaises, ManualRestart, SignalInv, SignalTypes, Says, file, Reported
<1>3. CountInv'
  BY <1>1 DEF SignalInv, CountInv, file
<1> QED BY <1>1, <1>2, <1>3 DEF SignalInv, file

LEMMA SignalStep ==
  SignalInv /\ [ManualNext]_manualVars => SignalInv'
<1> SUFFICES ASSUME SignalInv, [ManualNext]_manualVars
             PROVE  SignalInv'
  OBVIOUS
<1>1. CASE UNCHANGED manualVars
  BY <1>1 DEF manualVars, file, poller, manualHistory, SignalInv, SignalTypes, CountInv, Reported
<1> QED
  BY <1>1, SignalUsers, SignalPoller, SignalFire, SignalStop DEF ManualNext

(* File, poller and requests agree in every state.                         *)
THEOREM SignalInvariance ==
  ManualSpec => []SignalInv
<1>1. ManualInit => SignalInv
  BY SignalInit
<1>2. SignalInv /\ [ManualNext]_manualVars => SignalInv'
  BY SignalStep
<1> QED BY <1>1, <1>2, PTL DEF ManualSpec

(* Once the poller waits and no file is left, every request has had a      *)
(* trigger after it, or an exception or a restart lost it (_run_loop).     *)
THEOREM EveryRequestFiresHolds ==
  ManualSpec => []EveryRequestFires
<1>1. SignalInv => EveryRequestFires
  BY DEF SignalInv, EveryRequestFires
<1>2. ManualSpec => []SignalInv
  BY SignalInvariance
<1> QED BY <1>1, <1>2, PTL

(* No request fires twice unless its file could not be unlinked, however   *)
(* the poller's three steps fall between those of the users.               *)
THEOREM FiresAtMostRequestsHolds ==
  ManualSpec => []FiresAtMostRequests
<1>1. SignalInv => FiresAtMostRequests
  BY DEF SignalInv, CountInv, FiresAtMostRequests
<1>2. ManualSpec => []SignalInv
  BY SignalInvariance
<1> QED BY <1>1, <1>2, PTL

(* A reason that was complete when the poller looked is the reason of a    *)
(* trigger, unless a later request wiped it out first.                     *)
THEOREM ReasonReportedHolds ==
  ManualSpec => []ReasonReported
<1>1. SignalInv => ReasonReported
  BY DEF SignalInv, ReasonReported, Reported
<1>2. ManualSpec => []SignalInv
  BY SignalInvariance
<1> QED BY <1>1, <1>2, PTL

-----------------------------------------------------------------------------
(***************************************************************************)
(* NetSampler, for any interfaces, traffic and widths of the counters.     *)
(***************************************************************************)
(* What the interfaces of the last sum have counted is no more than that   *)
(* sum and what was received since, wherever they are by now.              *)
NetTypes ==
  /\ bytes \in [Interfaces -> Nat] /\ listed \subseteq Interfaces /\ grown \subseteq Interfaces
  /\ previous \in Nat /\ traffic \in Nat /\ count \in Nat

NetInv ==
  /\ NetTypes
  /\ Cardinality(Counted(Interfaces \ grown)) <= previous + traffic

LEMMA UnionCount ==
  ASSUME NEW S, NEW T, IsFiniteSet(S), IsFiniteSet(T)
  PROVE  /\ IsFiniteSet(S \cup T) /\ Cardinality(S \cup T) \in Nat
         /\ Cardinality(S \cup T) <= Cardinality(S) + Cardinality(T)
<1>1. IsFiniteSet(S \cup T) /\ IsFiniteSet(S \cap T)
  BY FS_Union, FS_Intersection
<1>2. /\ Cardinality(S) \in Nat /\ Cardinality(T) \in Nat
      /\ Cardinality(S \cup T) \in Nat /\ Cardinality(S \cap T) \in Nat
  BY <1>1, FS_CardinalityType
<1>3. Cardinality(S \cup T) = Cardinality(S) + Cardinality(T) - Cardinality(S \cap T)
  BY FS_Union
<1> QED BY <1>1, <1>2, <1>3

LEMMA CountedFinite ==
  ASSUME NEW S \in SUBSET Interfaces
  PROVE  /\ IsFiniteSet(S) /\ IsFiniteSet(S \X (1..CounterMod))
         /\ IsFiniteSet(Counted(S)) /\ Cardinality(Counted(S)) \in Nat
         /\ Cardinality(Counted(S)) <= Cardinality(Interfaces) * CounterMod
<1>1. IsFiniteSet(S) /\ Cardinality(S) \in Nat /\ Cardinality(Interfaces) \in Nat
      /\ Cardinality(S) <= Cardinality(Interfaces)
  BY FS_Subset, FS_CardinalityType, NetAssumption
<1>2. IsFiniteSet(1..CounterMod) /\ Cardinality(1..CounterMod) = CounterMod /\ CounterMod \in Nat
  BY FS_Interval, NetAssumption
<1>3. /\ IsFiniteSet(S \X (1..CounterMod))
      /\ Cardinality(S \X (1..CounterMod)) = Cardinality(S) * CounterMod
  BY <1>1, <1>2, FS_Product
<1>4. Counted(S) \in SUBSET (S \X (1..CounterMod))
  BY DEF Counted
<1>5. /\ IsFiniteSet(Counted(S)) /\ Cardinality(Counted(S)) \in Nat
      /\ Cardinality(Counted(S)) <= Cardinality(S) * CounterMod
  BY <1>3, <1>4, FS_Subset, FS_CardinalityType
<1>6. \A a, b, k \in Nat : a <= b => a * k \in Nat /\ b * k \in Nat /\ a * k <= b * k
  BY Z3
<1>7. /\ Cardinality(S) * CounterMod \in Nat /\ Cardinality(Interfaces) * CounterMod \in Nat
      /\ Cardinality(S) * CounterMod <= Cardinality(Interfaces) * CounterMod
  BY <1>1, <1>2, <1>6
<1> DEFINE c == Cardinality(Counted(S))
           d == Cardinality(S) * CounterMod
           e == Cardinality(Interfaces) * CounterMod
<1>8. c \in Nat /\ d \in Nat /\ e \in Nat /\ c <= d /\ d <= e
  BY <1>5, <1>7
<1> HIDE DEF c, d, e
<1>9. c <= e
  BY <1>8
<1> QED BY <1>1, <1>3, <1>5, <1>9 DEF c, e

(* The counters never sum up to SumMod.                                    *)
LEMMA TotalExact ==
  ASSUME NEW S \in SUBSET Interfaces
  PROVE  Total(S) = Cardinality(Counted(S)) /\ Total(S) \in Nat
<1>1. Cardinality(Counted(S)) \in Nat /\ SumMod \in Nat /\ Cardinality(Counted(S)) < SumMod
  <2> DEFINE c == Cardinality(Counted(S))
             e == Cardinality(Interfaces) * CounterMod
  <2>1. c \in Nat /\ c <= e
    BY CountedFinite
  <2>2. SumMod \in Nat /\ e < SumMod
    BY NetAssumption
  <2>3. e \in Nat
    <3>1. Cardinality(Interfaces) \in Nat /\ CounterMod \in Nat
      BY FS_CardinalityType, NetAssumption
    <3>2. \A j, k \in Nat : j * k \in Nat
      BY Z3
    <3> QED BY <3>1, <3>2
  <2> HIDE DEF c, e
  <2>4. c < SumMod
    BY <2>1, <2>2, <2>3
  <2> QED BY <2>1, <2>2, <2>4 DEF c
<1>2. \A n, k \in Nat : n < k => n % k = n
  OBVIOUS
<1> QED BY <1>1, <1>2 DEF Total

LEMMA CountedTogether ==
  ASSUME NEW S \in SUBSET Interfaces, NEW T \in SUBSET Interfaces
  PROVE  /\ Cardinality(Counted(S \cup T)) <= Cardinality(Counted(S)) + Cardinality(Counted(T))
         /\ S \subseteq T => Cardinality(Counted(S)) <= Cardinality(Counted(T))
<1>1. /\ IsFiniteSet(Counted(S)) /\ IsFiniteSet(Counted(T))
      /\ Cardinality(Counted(S)) \in Nat /\ Cardinality(Counted(T)) \in Nat
  BY CountedFinite
<1>2. Counted(S \cup T) = Counted(S) \cup Counted(T)
  BY DEF Counted
<1>4. Cardinality(Counted(S \cup T)) <= Cardinality(Counted(S)) + Cardinality(Counted(T))
  BY <1>1, <1>2, UnionCount
<1>5. S \subseteq T => Counted(S) \in SUBSET Counted(T)
  BY DEF Counted
<1> QED BY <1>1, <1>4, <1>5, FS_Subset

(* n bytes on one interface are no more than n bytes more in the sum.      *)
LEMMA CountedGrows ==
  ASSUME NetTypes, NEW i \in Interfaces, NEW n \in Nat, NEW S \in SUBSET Interfaces,
         bytes' = [bytes EXCEPT ![i] = (@ + n) % CounterMod]
  PROVE  Cardinality(Counted(S)') \in Nat /\ Cardinality(Counted(S)') <= Cardinality(Counted(S)) + n
<1> DEFINE b == bytes[i]
           New == {i} \X ((b + 1)..(b + n))
<1>1. b \in Nat /\ CounterMod \in Nat \ {0}
  BY NetAssumption DEF NetTypes
<1>2. (b + n) % CounterMod <= b + n /\ (b + n) % CounterMod \in Nat
  <2>1. \A m \in Nat, k \in Nat \ {0} : m % k \in Nat /\ m % k <= m
    BY Z3
  <2> QED BY <1>1, <2>1
<1>3. /\ IsFiniteSet({i}) /\ Cardinality({i}) = 1
      /\ IsFiniteSet((b + 1)..(b + n)) /\ Cardinality((b + 1)..(b + n)) = n
  <2>1. b + 1 \in Int /\ b + n \in Int /\ (b + 1 > b + n => n = 0) /\ (b + n) - (b + 1) + 1 = n
    BY <1>1
  <2>2. Cardinality((b + 1)..(b + n)) = IF b + 1 > b + n THEN 0 ELSE (b + n) - (b + 1) + 1
    BY <2>1, FS_Interval
  <2> QED BY <2>1, <2>2, FS_Singleton, FS_Interval
<1>4. IsFiniteSet(New) /\ Cardinality(New) = n
  <2>1. IsFiniteSet(New) /\ Cardinality(New) = 1 * n
    BY <1>3, FS_Product
  <2> QED BY <2>1
<1>5. /\ IsFiniteSet(Counted(S)) /\ Cardinality(Counted(S)) \in Nat
  BY CountedFinite
<1>6. Counted(S)' \in SUBSET (Counted(S) \cup New)
  <2> SUFFICES ASSUME NEW p \in Counted(S)' PROVE p \in Counted(S) \cup New
    OBVIOUS
  <2>1. p \in S \X (1..CounterMod) /\ p[2] <= bytes'[p[1]] /\ p[2] \in Nat /\ p[1] \in Interfaces
    BY <1>1 DEF Counted
  <2>2. CASE p[1] # i
    BY <2>1, <2>2 DEF Counted, NetTypes
  <2>3. CASE p[1] = i /\ p[2] <= b
    BY <2>1, <2>3 DEF Counted
  <2>4. CASE p[1] = i /\ p[2] > b
    <3>1. p[2] <= b + n
      BY <1>1, <1>2, <2>1, <2>4 DEF NetTypes
    <3>2. p = <<p[1], p[2]>>
      BY <2>1
    <3> QED BY <1>1, <2>1, <2>4, <3>1, <3>2
  <2> QED BY <1>1, <2>1, <2>2, <2>3, <2>4
<1>7. /\ IsFiniteSet(Counted(S) \cup New)
      /\ Cardinality(Counted(S) \cup New) <= Cardinality(Counted(S)) + n
  BY <1>4, <1>5, UnionCount
<1>8. /\ Cardinality(Counted(S)') \in Nat /\ Cardinality(Counted(S) \cup New) \in Nat
      /\ Cardinality(Counted(S)') <= Cardinality(Counted(S) \cup New)
  BY <1>6, <1>7, FS_Subset, FS_CardinalityType
<1> QED BY <1>5, <1>7, <1>8

LEMMA NetInvInit == NetInit => NetInv
<1> SUFFICES ASSUME NetInit PROVE NetInv
  OBVIOUS
<1>1. NetTypes
  BY DEF NetInit, NetTypes
<1>2. Interfaces \ grown = {} /\ Counted({}) = {}
  BY DEF NetInit, Counted
<1>3. Cardinality(Counted(Interfaces \ grown)) = 0
  BY <1>2, FS_EmptySet
<1> QED BY <1>1, <1>3 DEF NetInv, NetInit

LEMMA NetInvStep ==
  ASSUME NetInv, [NetNext]_netVars
  PROVE  NetInv'
<1> DEFINE Old == Interfaces \ grown
<1>1. NetTypes /\ Cardinality(Counted(Old)) <= previous + traffic /\ Cardinality(Counted(Old)) \in Nat
  BY CountedFinite DEF NetInv
<1>2. ASSUME NEW i \in Interfaces, NEW n \in 1..MaxTraffic, Receive(i, n)
      PROVE  NetInv'
  <2>1. n \in Nat /\ bytes' = [bytes EXCEPT ![i] = (@ + n) % CounterMod] /\ traffic' = traffic + n
        /\ UNCHANGED <<listed, previous, grown, count>>
    BY <1>2, NetAssumption DEF Receive
  <2>2. bytes' \in [Interfaces -> Nat]
    <3>1. CounterMod \in Nat \ {0}
      BY NetAssumption
    <3>2. \A m \in Nat, k \in Nat \ {0} : m % k \in Nat
      OBVIOUS
    <3> QED BY <1>1, <2>1, <3>1, <3>2 DEF NetTypes
  <2>3. Cardinality(Counted(Old)') \in Nat /\ Cardinality(Counted(Old)') <= Cardinality(Counted(Old)) + n
    BY <1>1, <2>1, CountedGrows
  <2>4. NetTypes'
    BY <1>1, <2>1, <2>2 DEF NetTypes
  <2> QED BY <1>1, <2>1, <2>3, <2>4 DEF NetInv, NetTypes
<1>3. ASSUME NEW i \in Interfaces, GoAway(i)
      PROVE  NetInv'
  BY <1>1, <1>3 DEF GoAway, NetInv, NetTypes, Counted
<1>4. ASSUME NEW i \in Interfaces, Return(i)
      PROVE  NetInv'
  <2>1. UNCHANGED <<previous, traffic, grown, count>> /\ listed' = listed \cup {i}
        /\ \E n \in {0, bytes[i]} : bytes' = [bytes EXCEPT ![i] = n]
    BY <1>4 DEF Return, netHistory
  <2>2. NetTypes' /\ \A j \in Interfaces : bytes'[j] <= bytes[j]
    BY <1>1, <2>1 DEF NetTypes
  <2>3. Counted(Old)' \in SUBSET Counted(Old)
    <3> SUFFICES ASSUME NEW p \in Counted(Old)' PROVE p \in Counted(Old)
      OBVIOUS
    <3>1. p \in Old \X (1..CounterMod) /\ p[2] <= bytes'[p[1]] /\ p[1] \in Interfaces /\ p[2] \in Nat
      BY <2>1, NetAssumption DEF Counted
    <3>2. bytes'[p[1]] \in Nat /\ bytes[p[1]] \in Nat /\ bytes'[p[1]] <= bytes[p[1]]
      BY <1>1, <2>2, <3>1 DEF NetTypes
    <3> QED BY <3>1, <3>2 DEF Counted
  <2>4. /\ Cardinality(Counted(Old)') \in Nat
        /\ Cardinality(Counted(Old)') <= Cardinality(Counted(Old))
    BY <2>3, CountedFinite, FS_Subset, FS_CardinalityType
  <2> QED BY <1>1, <2>1, <2>2, <2>4 DEF NetInv, NetTypes
<1>5. ASSUME NEW S \in SUBSET Interfaces, SampleOf(S)
      PROVE  NetInv'
  <2>1. /\ previous' = Total(S) /\ traffic' = 0 /\ grown' = Interfaces \ S /\ count' = count + 1
        /\ UNCHANGED <<bytes, listed>>
    BY <1>5 DEF SampleOf, machine
  <2>2. Total(S) = Cardinality(Counted(S)) /\ Total(S) \in Nat
    BY TotalExact
  <2>3. NetTypes'
    BY <1>1, <2>1, <2>2 DEF NetTypes
  <2>4. (Interfaces \ grown)' = S /\ Counted(S)' = Counted(S)
    BY <2>1 DEF Counted
  <2> QED BY <2>1, <2>2, <2>3, <2>4 DEF NetInv
<1>6. CASE UNCHANGED netVars
  BY <1>1, <1>6 DEF netVars, machine, netHistory, NetInv, NetTypes, Counted
<1>7. listed \in SUBSET Interfaces /\ {} \in SUBSET Interfaces
  BY <1>1 DEF NetTypes
<1> QED BY <1>2, <1>3, <1>4, <1>5, <1>6, <1>7 DEF NetNext, Sample, SampleFails

(* A sum is at most what was received, and what came back with an          *)
(* interface that the sum before it was without.                           *)
LEMMA SampleBelievable ==
  ASSUME NetInv, NEW S \in SUBSET listed, SampleOf(S)
  PROVE  rate' <= traffic + Cardinality(Counted(grown \cap listed))
<1> DEFINE Old == Interfaces \ grown
           Came == grown \cap listed
           counted == Cardinality(Counted(S))
           old == Cardinality(Counted(Old))
           came == Cardinality(Counted(Came))
<1>1. S \in SUBSET Interfaces /\ Old \in SUBSET Interfaces /\ Came \in SUBSET Interfaces
  BY DEF NetInv, NetTypes
<1>2. counted \in Nat /\ old \in Nat /\ came \in Nat
  BY <1>1, CountedFinite
<1>3. counted <= old + came
  <2>1. S \subseteq Old \cup Came /\ Old \cup Came \in SUBSET Interfaces
    BY <1>1
  <2>2. counted <= Cardinality(Counted(Old \cup Came))
    BY <1>1, <2>1, CountedTogether
  <2>3. Cardinality(Counted(Old \cup Came)) <= old + came /\ Cardinality(Counted(Old \cup Came)) \in Nat
    BY <1>1, <2>1, CountedTogether, CountedFinite
  <2> HIDE DEF counted, old, came
  <2> QED BY <1>2, <2>2, <2>3
<1>4. old <= previous + traffic /\ previous \in Nat /\ traffic \in Nat
  BY DEF NetInv, NetTypes
<1>5. rate' = (IF primed /\ counted >= previous THEN counted - previous ELSE 0)
  <2>1. Total(S) = counted
    BY <1>1, TotalExact
  <2>2. rate' = Rate(Total(S))
    BY DEF SampleOf
  <2> QED BY <2>1, <2>2, Zenon DEF Rate
<1> HIDE DEF counted, old, came
<1>6. rate' = 0 \/ rate' = counted - previous
  BY <1>5
<1>7. rate' <= traffic + came
  BY <1>2, <1>3, <1>4, <1>6
<1> QED BY <1>7 DEF came

(* The previous sum accounts for all that its interfaces had counted.      *)
THEOREM NetInvariance ==
  NetSpec => []NetInv
BY NetInvInit, NetInvStep, PTL DEF NetSpec

(* Whatever interfaces come and go, and however their counters wrap or are *)
(* reset, no rate is made up (the clamped difference in sample).           *)
THEOREM RateBelievableHolds ==
  NetSpec => RateBelievable
<1>1. NetInv /\ [NetNext]_netVars =>
        [count' > count => rate' <= traffic + Cardinality(Counted(grown \cap listed))]_netVars
  <2> SUFFICES ASSUME NetInv, NetNext, count' > count
               PROVE  rate' <= traffic + Cardinality(Counted(grown \cap listed))
    OBVIOUS
  <2>1. ASSUME NEW i \in Interfaces, (\E n \in 1..MaxTraffic : Receive(i, n)) \/ GoAway(i) \/ Return(i)
        PROVE  FALSE
    BY <2>1 DEF Receive, GoAway, Return, netHistory, NetInv, NetTypes
  <2>2. SampleOf(listed) \/ SampleOf({})
    BY <2>1 DEF NetNext, Sample, SampleFails
  <2>3. listed \in SUBSET listed /\ {} \in SUBSET listed
    OBVIOUS
  <2> QED BY <2>2, <2>3, SampleBelievable
<1> QED BY <1>1, NetInvariance, PTL DEF NetSpec, RateBelievable
=============================================================================
