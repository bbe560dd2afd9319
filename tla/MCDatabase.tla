----------------------------- MODULE MCDatabase -----------------------------
(* Database for TLC: model values for its constants.  CloseReturns and        *)
(* CallsReturn are liveness properties, so no symmetry is declared.         *)
EXTENDS Database

CONSTANTS c1, c2, k1, k2, k3, alice
=============================================================================
