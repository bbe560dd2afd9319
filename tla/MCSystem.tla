------------------------------ MODULE MCSystem ------------------------------
(***************************************************************************)
(* System with a connection to the main server and one to the metrics      *)
(* server.                                                                 *)
(***************************************************************************)
EXTENDS System, TLC

CONSTANTS c1, c2

HomeOf == [c \in Conns |-> IF c = c1 THEN "app" ELSE "metrics"]
=============================================================================
