------------------------------ MODULE Filters ------------------------------
(***************************************************************************)
(* The lists that app/evidence and app/webapp build of the elements of     *)
(* another one, by a condition: [e for e in s if ...].  The condition is   *)
(* given by the places in s where it holds.  (SelectSeq does the same, but *)
(* it is recursive, and nothing can be proved about it.)                   *)
(***************************************************************************)
EXTENDS Integers, Sequences, FiniteSets

(* The members of a set of numbers, in increasing order. *)
InOrder(places) ==
  LET Rank(j) == Cardinality({i \in places : i < j}) + 1
  IN  [k \in 1..Cardinality(places) |-> CHOOSE j \in places : Rank(j) = k]

ElementsAt(s, places) ==
  LET order == InOrder(places)
  IN  [k \in DOMAIN order |-> s[order[k]]]
=============================================================================
