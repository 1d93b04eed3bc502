------------------------------- MODULE MCRosie -------------------------------
(* TLC instances of module Rosie.                                           *)
EXTENDS Rosie, TLC

ASSUME RosieParameters == Parameters

\* Clients differ in name only, and no property is of liveness.
Symmetry == Permutations(Clients)
=============================================================================
