----------------------------- MODULE NetSampler -----------------------------
(***************************************************************************)
(* The network rates of the native sampler (NetSampler in                  *)
(* native/src/metrics.cpp): the byte counters of all interfaces are added  *)
(* up and subtracted from the sum before.  Interfaces come and go, keeping *)
(* or resetting their counters, and the list may not be available.         *)
(*                                                                         *)
(* One direction and an interval of one second: a rate is a number of      *)
(* bytes.                                                                  *)
(***************************************************************************)
EXTENDS Integers, FiniteSets

CONSTANTS
  Interfaces,  \* other than loopback
  CounterMod,  \* an interface's counter is less than this (2^32)
  SumMod,      \* and a sum of counters less than this (2^64), which is more
               \* than 2^32 - 1 interfaces could count
  MaxTraffic,  \* bound: bytes of an interface in one interval
  MaxSamples   \* bound: samples

ASSUME NetAssumption ==
  /\ IsFiniteSet(Interfaces)
  /\ CounterMod \in Nat /\ SumMod \in Nat
  /\ Cardinality(Interfaces) * CounterMod < SumMod
  /\ MaxTraffic \in Nat /\ MaxTraffic < CounterMod
  /\ MaxSamples \in Nat

VARIABLES
  bytes,     \* the counter of each interface
  listed,    \* the interfaces getifaddrs lists
  previous,  \* previous_in_bytes_
  primed,    \* primed_
  rate,      \* the rate of the last sample
  count,     \* history: samples taken
  traffic,   \* history: bytes on listed interfaces since the last sample
  grown      \* history: interfaces that were not in the sum before

machine == <<bytes, listed>>
netHistory == <<count, traffic, grown>>
netVars == <<machine, previous, primed, rate, netHistory>>

(* The bytes the interfaces in S have counted; what they add up to is how  *)
(* many there are.                                                         *)
Counted(S) == {p \in S \X (1..CounterMod) : p[2] <= bytes[p[1]]}

Total(S) == Cardinality(Counted(S)) % SumMod

NetInit ==
  /\ bytes = [i \in Interfaces |-> 0] /\ listed = Interfaces
  /\ previous = 0 /\ primed = FALSE /\ rate = 0
  /\ count = 0 /\ traffic = 0 /\ grown = Interfaces

(* An interface that is up receives n bytes. *)
Receive(i, n) ==
  /\ i \in listed /\ traffic + n <= MaxTraffic
  /\ bytes' = [bytes EXCEPT ![i] = (@ + n) % CounterMod]
  /\ traffic' = traffic + n
  /\ UNCHANGED <<listed, previous, primed, rate, count, grown>>

(* One goes away, with the bytes it had counted. *)
GoAway(i) ==
  /\ i \in listed
  /\ listed' = listed \ {i}
  /\ UNCHANGED <<bytes, previous, primed, rate, count, traffic, grown>>

(* And comes back, with its counter as it was or at zero. *)
Return(i) ==
  /\ i \notin listed
  /\ listed' = listed \cup {i}
  /\ \E n \in {0, bytes[i]} : bytes' = [bytes EXCEPT ![i] = n]
  /\ UNCHANGED <<previous, primed, rate, netHistory>>

(* Mutant: the unsigned difference is printed as it is. *)
RateUnclamped(sum) == IF primed THEN (sum - previous) % SumMod ELSE 0

(* The difference to the sum before, clamped; nothing without one. *)
Rate(sum) == IF primed /\ sum >= previous THEN sum - previous ELSE 0

(* A sample of the interfaces in S; getifaddrs fails like an empty list. *)
SampleOf(S) ==
  /\ count < MaxSamples
  /\ rate' = Rate(Total(S))
  /\ previous' = Total(S) /\ primed' = TRUE
  /\ count' = count + 1
  /\ traffic' = 0 /\ grown' = Interfaces \ S
  /\ UNCHANGED machine

Sample == SampleOf(listed)
SampleFails == SampleOf({})

NetNext ==
  \/ \E i \in Interfaces, n \in 1..MaxTraffic : Receive(i, n)
  \/ \E i \in Interfaces : GoAway(i) \/ Return(i)
  \/ Sample \/ SampleFails

NetSpec == NetInit /\ [][NetNext]_netVars

-----------------------------------------------------------------------------
(***************************************************************************)
(* Properties.                                                             *)
(***************************************************************************)

(* "Counters can reset between samples; clamp instead of reporting a       *)
(* garbage negative rate": a rate is never more than what was received,    *)
(* unless the sum before was without an interface, and then it is no more  *)
(* than what that interface has ever counted.                              *)
RateBelievable ==
  [][ count' > count =>
        rate' <= traffic + Cardinality(Counted(grown \cap listed)) ]_netVars
=============================================================================
