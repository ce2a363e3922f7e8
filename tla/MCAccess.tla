------------------------------- MODULE MCAccess -------------------------------
(***************************************************************************)
(* Instances of Access for TLC.                                            *)
(***************************************************************************)
EXTENDS Access, TLC

CONSTANTS c1, c2, a1, a2

Symmetry == Permutations({c1, c2}) \cup Permutations({a1, a2})
=============================================================================
