------------------------------ MODULE MCCacher ------------------------------
(***************************************************************************)
(* Cacher with the clients and keys of cacher.cfg as model values. They are *)
(* interchangeable, but the run checks liveness, so no symmetry is declared. *)
(***************************************************************************)
EXTENDS Cacher

CONSTANTS p1, p2, k1, k2
=============================================================================
