------------------------------ MODULE MCMailer ------------------------------
(***************************************************************************)
(* Mailer with interchangeable calls.                                      *)
(***************************************************************************)
EXTENDS Mailer, TLC

CONSTANTS m1, m2

Symmetry == Permutations({m1, m2})
=============================================================================
