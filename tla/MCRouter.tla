------------------------------ MODULE MCRouter ------------------------------
(***************************************************************************)
(* Router with two interchangeable patterns.                                *)
(***************************************************************************)
EXTENDS Router, TLC

CONSTANTS p1, p2

Symmetry == Permutations({p1, p2})
=============================================================================
