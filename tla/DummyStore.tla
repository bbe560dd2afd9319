----------------------------- MODULE DummyStore -----------------------------
(***************************************************************************)
(* What database.Interface promises the handlers: one table that grows by  *)
(* InsertDummy, in which a name occurs once, and that GetAllDummy reads at  *)
(* one instant between its call and its return. An error may follow an      *)
(* insertion that did take place, and a process that ends takes its calls   *)
(* with it, not the table.                                                  *)
(***************************************************************************)
EXTENDS Integers, Sequences

CONSTANTS Clients, Names

GetAll == "GetAllDummy"

VARIABLES
  rows,    \* the names, at the position of their id
  pc,      \* "idle", "called" (before it took effect), "effect" (after) or "done"
  op,      \* a name to insert, or GetAll
  value,   \* the id, or how many ids GetAllDummy read; 0 while there is none
  result   \* "none", "ok" or "error"

store == <<rows, pc, op, value, result>>

Has(name) == \E i \in 1..Len(rows) : rows[i] = name

-----------------------------------------------------------------------------
Init ==
  /\ rows = <<>>
  /\ pc = [c \in Clients |-> "idle"] /\ op = [c \in Clients |-> GetAll]
  /\ value = [c \in Clients |-> 0] /\ result = [c \in Clients |-> "none"]

Call(c) ==
  /\ pc[c] \in {"idle", "done"} /\ pc' = [pc EXCEPT ![c] = "called"]
  /\ \E o \in Names \cup {GetAll} : op' = [op EXCEPT ![c] = o]
  /\ value' = [value EXCEPT ![c] = 0] /\ result' = [result EXCEPT ![c] = "none"]
  /\ UNCHANGED rows

Insert(c) ==
  /\ pc[c] = "called" /\ pc' = [pc EXCEPT ![c] = "effect"]
  /\ op[c] \in Names /\ ~Has(op[c])
  /\ rows' = Append(rows, op[c])
  /\ value' = [value EXCEPT ![c] = Len(rows) + 1]
  /\ UNCHANGED <<op, result>>

Read(c) ==
  /\ pc[c] = "called" /\ pc' = [pc EXCEPT ![c] = "effect"] /\ op[c] = GetAll
  /\ value' = [value EXCEPT ![c] = Len(rows)]
  /\ UNCHANGED <<rows, op, result>>

Succeed(c) ==
  /\ pc[c] = "effect" /\ pc' = [pc EXCEPT ![c] = "done"]
  /\ result' = [result EXCEPT ![c] = "ok"]
  /\ UNCHANGED <<rows, op, value>>

Fail(c) ==
  /\ pc[c] \in {"called", "effect"} /\ pc' = [pc EXCEPT ![c] = "done"]
  /\ result' = [result EXCEPT ![c] = "error"] /\ value' = [value EXCEPT ![c] = 0]
  /\ UNCHANGED <<rows, op>>

(* The process ends, and with it the calls.                                *)
Down ==
  /\ pc' = [c \in Clients |-> "idle"] /\ op' = [c \in Clients |-> GetAll]
  /\ value' = [c \in Clients |-> 0] /\ result' = [c \in Clients |-> "none"]
  /\ UNCHANGED rows

Next ==
  \/ \E c \in Clients : Call(c) \/ Insert(c) \/ Read(c) \/ Succeed(c) \/ Fail(c)
  \/ Down

Spec == Init /\ [][Next]_store
=============================================================================
