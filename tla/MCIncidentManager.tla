------------------------- MODULE MCIncidentManager -------------------------
(***************************************************************************)
(* Model checking of IncidentManager: interchangeable screenshots and      *)
(* requests.                                                               *)
(***************************************************************************)
EXTENDS IncidentManager, TLC

Symmetry == Permutations(Screens) \cup Permutations(Requests)
=============================================================================
