---------------------------- MODULE GracefulStop -----------------------------
(***************************************************************************)
(* What run() in main.go promises the requests of the main server: they    *)
(* are let in while the server is up, run to their end once it drains, and *)
(* find the database open until they ended or the server lost patience.    *)
(***************************************************************************)

CONSTANT Requests

VARIABLES
  stage,     \* "up", "draining", "closing" (the database) or "stopped"
  inflight,  \* requests being served
  patient    \* the server still waits for them

vars == <<stage, inflight, patient>>

Init == stage = "up" /\ inflight = {} /\ patient = TRUE

Arrive(r) ==
  /\ stage = "up" /\ r \notin inflight
  /\ inflight' = inflight \cup {r}
  /\ UNCHANGED <<stage, patient>>

Leave(r) ==
  /\ r \in inflight
  /\ inflight' = inflight \ {r}
  /\ UNCHANGED <<stage, patient>>

Drain ==
  /\ stage = "up"
  /\ stage' = "draining"
  /\ UNCHANGED <<inflight, patient>>

LosePatience ==
  /\ stage = "draining" /\ patient
  /\ patient' = FALSE
  /\ UNCHANGED <<stage, inflight>>

(* A start that failed closes without having served anything.              *)
Close ==
  /\ stage \in {"up", "draining"}
  /\ stage = "up" => inflight = {}
  /\ inflight = {} \/ ~patient
  /\ stage' = "closing"
  /\ UNCHANGED <<inflight, patient>>

(* The regular end, or a signal nobody handles.                            *)
Stop ==
  /\ stage # "stopped"
  /\ stage' = "stopped" /\ inflight' = {}
  /\ UNCHANGED patient

Next ==
  \/ \E r \in Requests : Arrive(r) \/ Leave(r)
  \/ Drain \/ LosePatience \/ Close \/ Stop

SafeSpec == Init /\ [][Next]_vars

(* Whoever begins to drain also stops, whether or not the requests end.    *)
Spec == SafeSpec /\ WF_vars(stage \in {"draining", "closing"} /\ (LosePatience \/ Close \/ Stop))
=============================================================================
