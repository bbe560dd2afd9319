--------------------------- MODULE DatabaseProofs ---------------------------
(***************************************************************************)
(* Proofs about Database for any handlers, names, connections and limits   *)
(* of the pools, and any number of restarts.                               *)
(***************************************************************************)
EXTENDS Database, FiniteSetTheorems, TLAPS

-----------------------------------------------------------------------------
(* The inductive invariant *)

(* New migrates through the writer before it uses it for anything else.    *)
SchemaInv ==
  Serving \/ (opening = "writer" /\ phase \in {"vacuum", "checkpoint", "synchronous", "busy_timeout"})
    => schema = "migrated"

(* Ids, returned or about to be, name rows.                                *)
RowsInv ==
  /\ \A id \in acked : id \in 1..Len(rows)
  /\ \A c \in Clients : pc[c] = "effect" /\ op[c] # GetAll => value[c] \in 1..Len(rows)

(* A call knows some of the returned ids; its list has them all.           *)
ReadInv ==
  \A c \in Clients :
    /\ known[c] \subseteq acked
    /\ result[c] = "ok" => pc[c] = "done"
    /\ op[c] = GetAll /\ (pc[c] = "effect" \/ result[c] = "ok") => \A id \in known[c] : id <= value[c]

IInv == TypeOK /\ SchemaInv /\ RowsInv /\ ReadInv

-----------------------------------------------------------------------------
(* The initial state satisfies the inductive invariant.                    *)
LEMMA InvInit == Init => IInv
<1> SUFFICES ASSUME Init PROVE IInv
  OBVIOUS
<1>1. TypeOK
  <2>1. rows \in Seq(Names) /\ starts \in 0..MaxStarts
    BY LimitsAssumption DEF Init
  <2>2. /\ schema \in {"none", "migrated"} /\ opening \in Pools /\ late \in BOOLEAN
        /\ pool \in [Pools -> {"none", "open", "closed"}]
        /\ open \in [Conns -> Pools \cup {"none"}] /\ settings \in [Conns -> SUBSET Pragmas]
        /\ user \in [Conns -> Clients \cup {"nobody"}]
    BY DEF Init, Pools
  <2>3. /\ pc \in [Clients -> {"idle", "called", "run", "effect", "done"}]
        /\ op \in [Clients -> Names \cup {GetAll}] /\ value \in [Clients -> Nat]
        /\ result \in [Clients -> {"none", "ok", "error"}]
        /\ acked \in SUBSET Nat /\ known \in [Clients -> SUBSET Nat]
    BY DEF Init
  <2>4. QED
    BY <2>1, <2>2, <2>3 DEF Init, TypeOK
<1>2. SchemaInv /\ RowsInv /\ ReadInv
  BY DEF Init, SchemaInv, Serving, RowsInv, ReadInv
<1>3. QED
  BY <1>1, <1>2 DEF IInv

(* What database/sql does with connections keeps their types.              *)
LEMMA ConnTypes ==
  ASSUME TypeOK
  PROVE  /\ \A k \in Conns, p \in Pools : Gets(k, p) => open' \in [Conns -> Pools \cup {"none"}]
         /\ \A gone : Disconnect(gone) =>
              /\ open' \in [Conns -> Pools \cup {"none"}]
              /\ settings' \in [Conns -> SUBSET Pragmas]
<1>1. open \in [Conns -> Pools \cup {"none"}] /\ settings \in [Conns -> SUBSET Pragmas]
  BY DEF TypeOK
<1>2. \A k \in Conns, p \in Pools : Gets(k, p) => open' \in [Conns -> Pools \cup {"none"}]
  BY <1>1 DEF Gets
<1>3. ASSUME NEW gone, Disconnect(gone)
      PROVE  open' \in [Conns -> Pools \cup {"none"}] /\ settings' \in [Conns -> SUBSET Pragmas]
  BY <1>1, <1>3 DEF Disconnect
<1>4. QED
  BY <1>2, <1>3

(* Connections that are given back keep their types.                       *)
LEMMA ReleaseTypes ==
  ASSUME TypeOK, NEW c, Release(c)
  PROVE  /\ pool' = pool
         /\ open' \in [Conns -> Pools \cup {"none"}]
         /\ settings' \in [Conns -> SUBSET Pragmas]
         /\ user' \in [Conns -> Clients \cup {"nobody"}]
<1>1. PICK k \in Conns :
        /\ user[k] = c /\ user' = [user EXCEPT ![k] = "nobody"]
        /\ Disconnect(IF pool[open[k]] = "closed" \/ Cardinality(Idle(open[k])) >= IdleLimit(open[k])
                      THEN {k} ELSE {})
        /\ UNCHANGED pool
  BY DEF Release
<1>2. user' \in [Conns -> Clients \cup {"nobody"}]
  BY <1>1 DEF TypeOK
<1>3. QED
  BY <1>1, <1>2, ConnTypes

(* The steps of New and Close keep the types and the schema's part.        *)
LEMMA MainStep ==
  ASSUME IInv, OpenPool \/ Setup \/ NewFails \/ BeginClose \/ Closing \/ Start
  PROVE  TypeOK' /\ SchemaInv' /\ UNCHANGED <<rows, calls, acked>>
<1> USE DEF IInv, SchemaInv, Serving, calls, file, conns
<1>1. CASE OpenPool
  <2>1. TypeOK'
    BY <1>1 DEF OpenPool, Advance, TypeOK, NewSteps, Pools, SkipMigrations
  <2>2. SchemaInv' /\ UNCHANGED <<rows, calls, acked>>
    BY <1>1 DEF OpenPool, Advance, TypeOK, Pools, SkipMigrations
  <2>3. QED
    BY <2>1, <2>2
<1>2. CASE Setup
  <2>1. PICK k \in Conns : /\ Gets(k, opening)
                           /\ settings' = [settings EXCEPT ![k] = @ \cup ({phase} \cap Pragmas)]
    BY <1>2 DEF Setup
  <2>2. open' \in [Conns -> Pools \cup {"none"}]
    BY <2>1, ConnTypes DEF TypeOK
  <2>3. settings' \in [Conns -> SUBSET Pragmas]
    BY <2>1 DEF TypeOK
  <2>4. phase' \in NewSteps \cup {"up"} /\ opening' \in Pools
    BY <1>2 DEF Setup, Advance, TypeOK, NewSteps, Pools, SkipMigrations
  <2>5. TypeOK'
    BY <1>2, <2>2, <2>3, <2>4 DEF Setup, TypeOK
  <2>6. SchemaInv' /\ UNCHANGED <<rows, calls, acked>>
    BY <1>2 DEF Setup, Advance, TypeOK, NewSteps, Pools
  <2>7. QED
    BY <2>5, <2>6
<1>3. CASE NewFails
  BY <1>3 DEF NewFails, TypeOK
<1>4. CASE BeginClose
  BY <1>4 DEF BeginClose, TypeOK
<1>5. CASE Statement
  BY <1>5, ConnTypes DEF Statement, TypeOK, Pools
<1>6. CASE StatementFails
  BY <1>6 DEF StatementFails, TypeOK
<1>7. CASE ClosePools
  <2>1. PICK p \in Pools : ClosePool(p)
    BY <1>7 DEF ClosePools, Pools
  <2>2. pool' \in [Pools -> {"none", "open", "closed"}]
    BY <2>1 DEF ClosePool, TypeOK
  <2>3. /\ open' \in [Conns -> Pools \cup {"none"}]
        /\ settings' \in [Conns -> SUBSET Pragmas]
        /\ UNCHANGED user
    BY <2>1, ConnTypes DEF ClosePool
  <2>4. QED
    BY <1>7, <2>2, <2>3 DEF ClosePools, TypeOK
<1>8. CASE Start
  BY <1>8, LimitsAssumption DEF Start, TypeOK, NewSteps
<1>9. QED
  BY <1>1, <1>2, <1>3, <1>4, <1>5, <1>6, <1>7, <1>8 DEF Closing

(* The steps of a call keep its types, and the schema's part.              *)
LEMMA CallTypes ==
  ASSUME IInv, NEW c \in Clients, Call(c) \/ GetConn(c) \/ NoConn(c) \/ Return(c)
  PROVE  TypeOK' /\ SchemaInv'
<1> USE DEF IInv, SchemaInv, Serving, calls, file, conns
<1>1. CASE Call(c)
  BY <1>1 DEF Call, TypeOK
<1>2. CASE GetConn(c)
  <2>1. PICK k \in Conns : Gets(k, PoolOf(c)) /\ user' = [user EXCEPT ![k] = c]
    BY <1>2 DEF GetConn
  <2>2. open' \in [Conns -> Pools \cup {"none"}]
    BY <2>1, ConnTypes DEF PoolOf, Pools
  <2>3. user' \in [Conns -> Clients \cup {"nobody"}]
    BY <2>1 DEF TypeOK
  <2>4. QED
    BY <1>2, <2>2, <2>3 DEF GetConn, TypeOK
<1>3. CASE NoConn(c)
  BY <1>3 DEF NoConn, TypeOK
<1>4. CASE InsertRow(c)
  <2>1. rows' \in Seq(Names) /\ Len(rows) + 1 \in Nat
    BY <1>4 DEF InsertRow, TypeOK
  <2>2. QED
    BY <1>4, <2>1 DEF InsertRow, TypeOK
<1>5. CASE SelectRows(c)
  <2>1. Len(rows) \in Nat
    BY DEF TypeOK
  <2>2. QED
    BY <1>5, <2>1 DEF SelectRows, TypeOK
<1>6. CASE Succeeds(c)
  <2>1. acked' \in SUBSET Nat
    BY <1>6 DEF Succeeds, TypeOK
  <2>2. QED
    BY <1>6, <2>1, ReleaseTypes DEF Succeeds, TypeOK
<1>7. CASE Fails(c)
  BY <1>7, ReleaseTypes DEF Fails, TypeOK
<1>8. QED
  BY <1>1, <1>2, <1>3, <1>4, <1>5, <1>6, <1>7 DEF Return

(* The steps of a call keep what is known of ids and rows.                 *)
LEMMA CallData ==
  ASSUME IInv, NEW c \in Clients, Call(c) \/ GetConn(c) \/ NoConn(c) \/ Return(c)
  PROVE  RowsInv' /\ ReadInv'
<1> USE NamesAssumption DEF IInv, TypeOK, RowsInv, ReadInv, file, GetAll
<1>1. CASE Call(c)
  BY <1>1 DEF Call
<1>2. CASE GetConn(c)
  BY <1>2 DEF GetConn
<1>3. CASE NoConn(c)
  BY <1>3 DEF NoConn
<1>4. CASE InsertRow(c)
  <2>1. Len(rows') = Len(rows) + 1 /\ Len(rows) \in Nat
    BY <1>4 DEF InsertRow
  <2>2. /\ pc' = [pc EXCEPT ![c] = "effect"] /\ value' = [value EXCEPT ![c] = Len(rows) + 1]
        /\ op[c] # GetAll /\ UNCHANGED <<op, result, known, acked>>
    BY <1>4 DEF InsertRow
  <2>0. result[c] # "ok"
    BY <1>4 DEF InsertRow
  <2>3. RowsInv'
    BY <2>1, <2>2
  <2>4. ReadInv'
    <3> SUFFICES ASSUME NEW d \in Clients
                 PROVE  /\ known'[d] \subseteq acked'
                        /\ result'[d] = "ok" => pc'[d] = "done"
                        /\ op'[d] = GetAll /\ (pc'[d] = "effect" \/ result'[d] = "ok") =>
                             \A id \in known'[d] : id <= value'[d]
      OBVIOUS
    <3>1. CASE d = c
      BY <2>0, <2>2, <3>1
    <3>2. CASE d # c
      BY <2>2, <3>2
    <3>3. QED
      BY <3>1, <3>2
  <2>5. QED
    BY <2>3, <2>4
<1>5. CASE SelectRows(c)
  <2>1. \A id \in known[c] : id <= Len(rows)
    OBVIOUS
  <2>2. /\ pc' = [pc EXCEPT ![c] = "effect"] /\ value' = [value EXCEPT ![c] = Len(rows)]
        /\ pc[c] = "run" /\ op[c] = GetAll /\ UNCHANGED <<rows, op, result, known, acked>>
    BY <1>5 DEF SelectRows
  <2>3. RowsInv'
    BY <2>2
  <2>4. ReadInv'
    <3> SUFFICES ASSUME NEW d \in Clients
                 PROVE  /\ known'[d] \subseteq acked'
                        /\ result'[d] = "ok" => pc'[d] = "done"
                        /\ op'[d] = GetAll /\ (pc'[d] = "effect" \/ result'[d] = "ok") =>
                             \A id \in known'[d] : id <= value'[d]
      OBVIOUS
    <3>1. CASE d = c
      BY <2>1, <2>2, <3>1
    <3>2. CASE d # c
      BY <2>1, <2>2, <3>2
    <3>3. QED
      BY <3>1, <3>2
  <2>5. QED
    BY <2>3, <2>4
<1>6. CASE Succeeds(c)
  <2>1. /\ pc[c] = "effect" /\ pc' = [pc EXCEPT ![c] = "done"]
        /\ result' = [result EXCEPT ![c] = "ok"]
        /\ acked' = IF op[c] = GetAll THEN acked ELSE acked \cup {value[c]}
        /\ UNCHANGED <<rows, op, value, known>>
    BY <1>6 DEF Succeeds
  <2>2. RowsInv'
    BY <2>1
  <2>3. ReadInv'
    BY <2>1
  <2>4. QED
    BY <2>2, <2>3
<1>7. CASE Fails(c)
  <2>1. /\ pc' = [pc EXCEPT ![c] = "done"] /\ result' = [result EXCEPT ![c] = "error"]
        /\ value' = [value EXCEPT ![c] = 0] /\ UNCHANGED <<rows, op, known, acked>>
    BY <1>7 DEF Fails
  <2>2. QED
    BY <2>1
<1>8. QED
  BY <1>1, <1>2, <1>3, <1>4, <1>5, <1>6, <1>7 DEF Return

(* The inductive invariant holds in every reachable state.                 *)
THEOREM Invariance == Spec => []IInv
<1>1. IInv /\ [Next]_vars => IInv'
  <2> SUFFICES ASSUME IInv, [Next]_vars PROVE IInv'
    OBVIOUS
  <2>1. CASE OpenPool \/ Setup \/ NewFails \/ BeginClose \/ Closing \/ Start
    <3>1. TypeOK' /\ SchemaInv' /\ UNCHANGED <<rows, calls, acked>>
      BY <2>1, MainStep
    <3>2. RowsInv' /\ ReadInv'
      BY <3>1 DEF IInv, RowsInv, ReadInv, calls
    <3>3. QED
      BY <3>1, <3>2 DEF IInv
  <2>2. ASSUME NEW c \in Clients, Call(c) \/ GetConn(c) \/ NoConn(c) \/ Return(c)
        PROVE  IInv'
    BY <2>2, CallTypes, CallData DEF IInv
  <2>3. CASE Down
    <3>1. TypeOK'
      <4>1. phase' \in NewSteps \cup {"down"} /\ opening' \in Pools /\ late' \in BOOLEAN
        BY <2>3 DEF Down, Pools
      <4>2. /\ pool' \in [Pools -> {"none", "open", "closed"}]
            /\ open' \in [Conns -> Pools \cup {"none"}] /\ settings' \in [Conns -> SUBSET Pragmas]
            /\ user' \in [Conns -> Clients \cup {"nobody"}]
        BY <2>3 DEF Down
      <4>3. /\ pc' \in [Clients -> {"idle", "called", "run", "effect", "done"}]
            /\ op' \in [Clients -> Names \cup {GetAll}] /\ value' \in [Clients -> Nat]
            /\ result' \in [Clients -> {"none", "ok", "error"}]
            /\ known' \in [Clients -> SUBSET Nat]
        BY <2>3 DEF Down
      <4>4. UNCHANGED <<rows, schema, acked, starts>>
        BY <2>3 DEF Down, file
      <4>5. QED
        BY <4>1, <4>2, <4>3, <4>4 DEF IInv, TypeOK
    <3>2. SchemaInv'
      BY <2>3 DEF Down, SchemaInv, Serving
    <3>3. RowsInv' /\ ReadInv'
      BY <2>3 DEF Down, IInv, RowsInv, ReadInv, file
    <3>4. QED
      BY <3>1, <3>2, <3>3 DEF IInv
  <2>4. CASE UNCHANGED vars
    BY <2>4 DEF vars, file, conns, calls, IInv, TypeOK, SchemaInv, Serving, RowsInv, ReadInv
  <2>5. QED
    BY <2>1, <2>2, <2>3, <2>4 DEF Next
<1>2. QED
  BY InvInit, <1>1, PTL DEF Spec

-----------------------------------------------------------------------------
(* Its consequences *)

(* The variables keep to their domains.                                    *)
THEOREM TypeCorrect == Spec => []TypeOK
<1>1. IInv => TypeOK
  BY DEF IInv
<1>2. QED
  BY <1>1, Invariance, PTL

(* Statements of handlers meet a migrated schema.                          *)
THEOREM SchemaIsThere == Spec => []MigratedBeforeUse
<1>1. IInv => MigratedBeforeUse
  BY DEF IInv, SchemaInv, MigratedBeforeUse
<1>2. QED
  BY <1>1, Invariance, PTL

(* Returned ids name rows, over restarts.                                  *)
THEOREM IdsStay == Spec => []AckedStay
<1>1. IInv => AckedStay
  BY DEF IInv, RowsInv, AckedStay
<1>2. QED
  BY <1>1, Invariance, PTL

(* A list that was read has every row returned before it was asked for.    *)
THEOREM ListsAreCurrent == Spec => []ReadYourWrites
<1>1. IInv => ReadYourWrites
  BY DEF IInv, ReadInv, ReadYourWrites
<1>2. QED
  BY <1>1, Invariance, PTL

-----------------------------------------------------------------------------
(* Refinement *)

(* What the abstract store sees of the calls; a connection is hidden.      *)
Seen == [c \in Clients |-> IF pc[c] = "run" THEN "called" ELSE pc[c]]

(* A step of a call is the same step of the store, or none.                *)
LEMMA CallMaps ==
  ASSUME IInv, NEW c \in Clients, Call(c) \/ GetConn(c) \/ NoConn(c) \/ Return(c)
  PROVE  \/ Store!Call(c) \/ Store!Insert(c) \/ Store!Read(c) \/ Store!Succeed(c) \/ Store!Fail(c)
         \/ UNCHANGED <<rows, Seen, op, value, result>>
<1> USE DEF file, Seen, GetAll, Store!GetAll
<1>0. pc \in [Clients -> {"idle", "called", "run", "effect", "done"}] /\ value \in [Clients -> Nat]
  BY DEF IInv, TypeOK
<1>1. CASE Call(c)
  BY <1>0, <1>1 DEF Call, Store!Call
<1>2. CASE GetConn(c)
  BY <1>0, <1>2 DEF GetConn
<1>3. CASE NoConn(c)
  BY <1>0, <1>3 DEF NoConn, Store!Fail
<1>4. CASE InsertRow(c)
  BY <1>0, <1>4 DEF InsertRow, Store!Insert, Has, Store!Has
<1>5. CASE SelectRows(c)
  BY <1>0, <1>5 DEF SelectRows, Store!Read
<1>6. CASE Succeeds(c)
  BY <1>0, <1>6 DEF Succeeds, Store!Succeed
<1>7. CASE Fails(c)
  BY <1>0, <1>7 DEF Fails, Store!Fail
<1>8. QED
  BY <1>1, <1>2, <1>3, <1>4, <1>5, <1>6, <1>7 DEF Return

(* The pools, New and Close implement the abstract store.                  *)
THEOREM Implementation == Spec => ImplementsStore
<1>1. Init => Store!Init
  BY DEF Init, Store!Init, GetAll, Store!GetAll
<1>2. IInv /\ [Next]_vars => [Store!Next]_(Store!store)
  <2> SUFFICES ASSUME IInv, [Next]_vars, ~UNCHANGED <<rows, Seen, op, value, result>>
               PROVE  Store!Next
    BY DEF Store!store, Seen
  <2>1. ASSUME NEW c \in Clients, Call(c) \/ GetConn(c) \/ NoConn(c) \/ Return(c)
        PROVE  Store!Next
    BY <2>1, CallMaps DEF Store!Next
  <2>2. CASE Down
    BY <2>2 DEF Down, file, Store!Next, Store!Down, GetAll, Store!GetAll
  <2>3. ~(OpenPool \/ Setup \/ NewFails \/ BeginClose \/ Closing \/ Start)
    BY MainStep DEF calls, Seen
  <2>4. ~UNCHANGED vars
    BY DEF vars, file, calls, Seen
  <2>5. QED
    BY <2>1, <2>2, <2>3, <2>4 DEF Next
<1>3. QED
  BY <1>1, <1>2, Invariance, PTL DEF Spec, ImplementsStore, Store!Spec

-----------------------------------------------------------------------------
(* What Close leaves behind                                                  *)

(* A pool is closed at its step of Close, and then only calls that still run *)
(* keep connections of it.                                                   *)
PoolsInv ==
  /\ pool["writer"] = "closed" <=> phase \in {"close_reader", "closed"}
  /\ pool["reader"] = "closed" <=> phase = "closed"

ConnsInv ==
  \A k \in Conns : open[k] # "none" /\ pool[open[k]] = "closed" => user[k] # "nobody"

ClosedInv == PoolsInv /\ ConnsInv

(* A connection that a statement gets is one of a pool that is not closed.   *)
LEMMA GetsOpen ==
  ASSUME TypeOK, ConnsInv, NEW k \in Conns, NEW p \in Pools, Gets(k, p), pool[p] # "closed",
         pool' = pool, \A j \in Conns : user[j] # "nobody" => user'[j] # "nobody"
  PROVE  ConnsInv'
<1>1. \A j \in Conns : open'[j] = open[j] \/ open'[j] = p
  BY DEF Gets, TypeOK
<1>2. QED
  BY <1>1 DEF ConnsInv

(* Closing a pool leaves none of its idle connections.                       *)
LEMMA PoolCloses ==
  ASSUME TypeOK, ConnsInv, NEW p \in Pools, ClosePool(p)
  PROVE  ConnsInv' /\ pool'[p] = "closed" /\ \A q \in Pools \ {p} : pool'[q] = pool[q]
<1>1. /\ pool'[p] = "closed" /\ \A q \in Pools \ {p} : pool'[q] = pool[q]
      /\ \A k \in Conns : open'[k] = IF k \in Idle(p) THEN "none" ELSE open[k]
      /\ user' = user
  BY DEF ClosePool, Disconnect, TypeOK
<1>2. \A k \in Conns : open[k] = p /\ user[k] = "nobody" => k \in Idle(p)
  BY DEF Idle, Of
<1>3. \A k \in Conns : open[k] \in Pools \cup {"none"}
  BY DEF TypeOK
<1>4. ConnsInv'
  BY <1>1, <1>2, <1>3 DEF ConnsInv
<1>5. QED
  BY <1>1, <1>4

(* A connection that is given back to a closed pool is closed.               *)
LEMMA Released ==
  ASSUME TypeOK, ConnsInv, NEW c, Release(c)
  PROVE  ConnsInv' /\ pool' = pool
<1>1. PICK k \in Conns :
        /\ user' = [user EXCEPT ![k] = "nobody"]
        /\ Disconnect(IF pool[open[k]] = "closed" \/ Cardinality(Idle(open[k])) >= IdleLimit(open[k])
                      THEN {k} ELSE {})
        /\ pool' = pool
  BY DEF Release
<1>2. \A j \in Conns \ {k} : open'[j] = open[j] /\ user'[j] = user[j]
  BY <1>1 DEF Disconnect, TypeOK
<1>3. pool[open[k]] = "closed" => open'[k] = "none"
  BY <1>1 DEF Disconnect
<1>4. open'[k] \in {open[k], "none"}
  BY <1>1 DEF Disconnect
<1>5. QED
  BY <1>1, <1>2, <1>3, <1>4 DEF ConnsInv

LEMMA ClosedStep == IInv /\ ClosedInv /\ [Next]_vars => ClosedInv'
<1> SUFFICES ASSUME TypeOK, ClosedInv, [Next]_vars PROVE ClosedInv'
  BY DEF IInv
<1> USE DEF ClosedInv, conns, Pools
<1>1. CASE OpenPool
  <2>1. phase = "open" /\ phase' \in {"vacuum", "migrate"}
    BY <1>1 DEF OpenPool, Advance
  <2>2. pool' = [pool EXCEPT ![opening] = "open"] /\ UNCHANGED <<open, user>>
    BY <1>1 DEF OpenPool
  <2>3. \A p \in Pools : pool'[p] # "closed"
    BY <2>1, <2>2 DEF PoolsInv, TypeOK
  <2>4. \A k \in Conns : open[k] \in Pools \cup {"none"}
    BY DEF TypeOK
  <2>5. PoolsInv'
    BY <2>1, <2>3 DEF PoolsInv
  <2>6. ConnsInv'
    BY <2>2, <2>3, <2>4 DEF ConnsInv
  <2>7. QED
    BY <2>5, <2>6
<1>2. CASE Setup
  <2>1. phase \in NewSteps \ {"open"} /\ phase' \in NewSteps \cup {"up"}
    BY <1>2 DEF Setup, Advance, TypeOK, NewSteps, SkipMigrations
  <2>2. pool[opening] # "closed" /\ opening \in Pools
    BY <2>1 DEF PoolsInv, TypeOK, NewSteps
  <2>3. PICK k \in Conns : Gets(k, opening)
    BY <1>2 DEF Setup
  <2>4. pool' = pool /\ user' = user
    BY <1>2 DEF Setup
  <2>5. ConnsInv'
    BY <2>2, <2>3, <2>4, GetsOpen
  <2>6. PoolsInv'
    BY <2>1, <2>4 DEF PoolsInv, NewSteps
  <2>7. QED
    BY <2>5, <2>6
<1>3. CASE NewFails \/ BeginClose \/ StatementFails \/ Start
  BY <1>3 DEF NewFails, BeginClose, StatementFails, Start, PoolsInv, ConnsInv, NewSteps
<1>4. CASE Statement
  <2>1. phase \in {"close_vacuum", "close_checkpoint"} /\ phase' \in {"close_checkpoint", "close_writer"}
    BY <1>4 DEF Statement
  <2>2. PICK k \in Conns : Gets(k, "writer")
    BY <1>4 DEF Statement
  <2>3. pool' = pool /\ user' = user /\ pool["writer"] # "closed"
    BY <1>4, <2>1 DEF Statement, PoolsInv
  <2>4. ConnsInv'
    BY <2>2, <2>3, GetsOpen
  <2>5. PoolsInv'
    BY <2>1, <2>3 DEF PoolsInv
  <2>6. QED
    BY <2>4, <2>5
<1>5. CASE ClosePools
  <2>1. CASE phase = "close_writer" /\ phase' = "close_reader" /\ ClosePool("writer")
    BY <2>1, PoolCloses DEF PoolsInv
  <2>2. CASE phase = "close_reader" /\ phase' = "closed" /\ ClosePool("reader")
    BY <2>2, PoolCloses DEF PoolsInv
  <2>3. QED
    BY <1>5, <2>1, <2>2 DEF ClosePools
<1>6. ASSUME NEW c \in Clients, GetConn(c) PROVE ClosedInv'
  <2>1. PICK k \in Conns : Gets(k, PoolOf(c)) /\ user' = [user EXCEPT ![k] = c]
    BY <1>6 DEF GetConn
  <2>2. /\ pool[PoolOf(c)] = "open" /\ PoolOf(c) \in Pools
        /\ pool' = pool /\ phase' = phase /\ c # "nobody"
    BY <1>6, ClientsAssumption DEF GetConn, PoolOf
  <2>3. \A j \in Conns : user[j] # "nobody" => user'[j] # "nobody"
    BY <2>1, <2>2 DEF TypeOK
  <2>4. ConnsInv'
    BY <2>1, <2>2, <2>3, GetsOpen
  <2>5. QED
    BY <2>2, <2>4 DEF PoolsInv
<1>7. ASSUME NEW c \in Clients, Succeeds(c) \/ Fails(c) PROVE ClosedInv'
  <2>1. Release(c) /\ phase' = phase
    BY <1>7 DEF Succeeds, Fails
  <2>2. QED
    BY <2>1, Released DEF PoolsInv
<1>8. ASSUME NEW c \in Clients, Call(c) \/ NoConn(c) \/ InsertRow(c) \/ SelectRows(c) PROVE ClosedInv'
  BY <1>8 DEF Call, NoConn, InsertRow, SelectRows, PoolsInv, ConnsInv
<1>9. CASE Down
  BY <1>9 DEF Down, PoolsInv, ConnsInv
<1>10. CASE UNCHANGED vars
  BY <1>10 DEF vars, PoolsInv, ConnsInv
<1>11. QED
  BY <1>1, <1>2, <1>3, <1>4, <1>5, <1>6, <1>7, <1>8, <1>9, <1>10 DEF Next, Closing, Return

(* When Close has returned (database.go 129-138) no connection is left but   *)
(* those of calls that still run, whichever of its statements failed.        *)
THEOREM NothingLeftOpen == Spec => []ClosedIsClosed
<1>1. Init => ClosedInv
  BY DEF Init, ClosedInv, PoolsInv, ConnsInv, Pools
<1>2. IInv /\ ClosedInv => ClosedIsClosed
  BY DEF IInv, TypeOK, ClosedInv, PoolsInv, ConnsInv, ClosedIsClosed, Pools
<1>3. QED
  BY <1>1, <1>2, Invariance, ClosedStep, PTL DEF Spec

-----------------------------------------------------------------------------
(* Who has which connection                                                  *)

Held(c) == pc[c] \in {"run", "effect"}

(* A call that runs has one connection, of its pool, and nobody else has any. *)
HoldInv ==
  /\ \A k \in Conns : user[k] # "nobody" => Held(user[k]) /\ open[k] = PoolOf(user[k])
  /\ \A c \in Clients : Held(c) => \E k \in Conns : user[k] = c
  /\ \A j, k \in Conns : user[j] = user[k] /\ user[j] # "nobody" => j = k
  /\ ~Serving => \A c \in Clients : pc[c] = "idle"

(* A statement changes the pool of the connection it gets, if any.           *)
LEMMA GetsOne ==
  ASSUME TypeOK, HoldInv, NEW k \in Conns, NEW p \in Pools, Gets(k, p)
  PROVE  /\ user[k] = "nobody" /\ open'[k] = p
         /\ \A j \in Conns \ {k} : open'[j] = open[j]
         /\ open[k] \in {"none", p}
<1>1. open[k] = "none" => user[k] = "nobody"
  BY DEF HoldInv, TypeOK, PoolOf
<1>2. open \in [Conns -> Pools \cup {"none"}]
  BY DEF TypeOK
<1>3. CASE k \in Idle(p) /\ UNCHANGED open
  BY <1>3 DEF Idle, Of
<1>4. CASE open[k] = "none" /\ open' = [open EXCEPT ![k] = p]
  BY <1>1, <1>2, <1>4
<1>5. QED
  BY <1>3, <1>4 DEF Gets

(* A connection that is given back has no user, and perhaps no pool.         *)
LEMMA GivesOne ==
  ASSUME TypeOK, NEW c \in Clients, Release(c)
  PROVE  \E k \in Conns :
           /\ user[k] = c /\ user' = [user EXCEPT ![k] = "nobody"] /\ pool' = pool
           /\ \A j \in Conns \ {k} : open'[j] = open[j] /\ settings'[j] = settings[j]
           /\ \/ open'[k] = open[k] /\ settings'[k] = settings[k]
              \/ /\ open'[k] = "none"
                 /\ pool[open[k]] = "closed" \/ Cardinality(Idle(open[k])) >= IdleLimit(open[k])
<1>1. PICK k \in Conns :
        /\ user[k] = c /\ user' = [user EXCEPT ![k] = "nobody"]
        /\ Disconnect(IF pool[open[k]] = "closed" \/ Cardinality(Idle(open[k])) >= IdleLimit(open[k])
                      THEN {k} ELSE {})
        /\ pool' = pool
  BY DEF Release
<1>2. CASE pool[open[k]] = "closed" \/ Cardinality(Idle(open[k])) >= IdleLimit(open[k])
  <2>1. Disconnect({k})
    BY <1>1, <1>2
  <2>2. /\ \A j \in Conns \ {k} : open'[j] = open[j] /\ settings'[j] = settings[j]
        /\ open'[k] = "none"
    BY <2>1 DEF Disconnect
  <2>3. QED
    BY <1>1, <1>2, <2>2
<1>3. CASE ~(pool[open[k]] = "closed" \/ Cardinality(Idle(open[k])) >= IdleLimit(open[k]))
  <2>1. Disconnect({})
    BY <1>1, <1>3
  <2>2. \A j \in Conns : open'[j] = open[j] /\ settings'[j] = settings[j]
    BY <2>1 DEF Disconnect
  <2>3. QED
    BY <1>1, <2>2
<1>4. QED
  BY <1>2, <1>3

(* The steps of New and Close disturb no call.                               *)
LEMMA HoldMain ==
  ASSUME TypeOK, HoldInv, OpenPool \/ Setup \/ NewFails \/ BeginClose \/ Closing \/ Start
  PROVE  HoldInv'
<1>1. UNCHANGED <<pc, op, user>>
  BY DEF OpenPool, Setup, NewFails, BeginClose, Closing, Statement, StatementFails, ClosePools,
         ClosePool, Start, conns, calls
<1>2. Serving \/ \A c \in Clients : pc[c] = "idle"
  BY DEF HoldInv
<1>3. Serving => Serving'
  BY DEF OpenPool, Setup, NewFails, BeginClose, Closing, Statement, StatementFails, ClosePools,
         Start, Serving, NewSteps
<1>4. ASSUME NEW j \in Conns, user[j] # "nobody" PROVE open'[j] = open[j]
  <2>1. CASE OpenPool \/ NewFails \/ BeginClose \/ StatementFails \/ Start
    BY <2>1 DEF OpenPool, NewFails, BeginClose, StatementFails, Start, conns
  <2>2. CASE Setup
    <3>1. PICK k \in Conns : Gets(k, opening)
      BY <2>2 DEF Setup
    <3>2. opening \in Pools
      BY DEF TypeOK
    <3>3. QED
      BY <1>4, <3>1, <3>2, GetsOne
  <2>3. CASE Statement
    <3>1. PICK k \in Conns : Gets(k, "writer")
      BY <2>3 DEF Statement
    <3>2. QED
      BY <1>4, <3>1, GetsOne DEF Pools
  <2>4. CASE ClosePools
    <3>1. PICK p \in Pools : Disconnect(Idle(p))
      BY <2>4 DEF ClosePools, ClosePool, Pools
    <3>2. j \notin Idle(p)
      BY <1>4 DEF Idle
    <3>3. QED
      BY <3>1, <3>2 DEF Disconnect
  <2>5. QED
    BY <2>1, <2>2, <2>3, <2>4 DEF Closing
<1>5. QED
  BY <1>1, <1>2, <1>3, <1>4 DEF HoldInv, Held, PoolOf

(* A call gets its connection once and gives it back when it returns.        *)
LEMMA HoldCall ==
  ASSUME TypeOK, HoldInv, NEW c \in Clients, Call(c) \/ GetConn(c) \/ NoConn(c) \/ Return(c)
  PROVE  HoldInv'
<1> USE ClientsAssumption
<1>0. /\ pc \in [Clients -> {"idle", "called", "run", "effect", "done"}]
      /\ op \in [Clients -> Names \cup {GetAll}] /\ user \in [Conns -> Clients \cup {"nobody"}]
  BY DEF TypeOK
<1>1. CASE Call(c)
  <2>1. /\ ~Held(c) /\ Serving /\ UNCHANGED <<phase, open, user>> /\ pc'[c] = "called"
        /\ \A d \in Clients \ {c} : pc'[d] = pc[d] /\ op'[d] = op[d]
    BY <1>0, <1>1 DEF Call, Held, conns
  <2>2. QED
    BY <1>0, <2>1 DEF HoldInv, Held, Serving, PoolOf
<1>2. CASE GetConn(c)
  <2>1. PICK k \in Conns : Gets(k, PoolOf(c)) /\ user' = [user EXCEPT ![k] = c]
    BY <1>2 DEF GetConn
  <2>2. PoolOf(c) \in Pools
    BY DEF PoolOf, Pools
  <2>3. user[k] = "nobody" /\ open'[k] = PoolOf(c) /\ \A j \in Conns \ {k} : open'[j] = open[j]
    BY <2>1, <2>2, GetsOne
  <2>4. /\ ~Held(c) /\ pc'[c] = "run" /\ UNCHANGED <<phase, op>> /\ Serving
        /\ \A d \in Clients \ {c} : pc'[d] = pc[d]
    BY <1>0, <1>2 DEF GetConn, Held, HoldInv
  <2>5. user'[k] = c /\ \A j \in Conns \ {k} : user'[j] = user[j] /\ user[j] # c
    BY <1>0, <2>1, <2>4 DEF HoldInv
  <2>6. QED
    BY <1>0, <2>3, <2>4, <2>5 DEF HoldInv, Held, Serving, PoolOf
<1>3. CASE NoConn(c)
  <2>1. /\ ~Held(c) /\ UNCHANGED <<phase, op, open, user>> /\ pc'[c] = "done" /\ Serving
        /\ \A d \in Clients \ {c} : pc'[d] = pc[d]
    BY <1>0, <1>3 DEF NoConn, Held, conns, HoldInv
  <2>2. QED
    BY <1>0, <2>1 DEF HoldInv, Held, Serving, PoolOf
<1>4. CASE InsertRow(c) \/ SelectRows(c)
  <2>1. /\ Held(c) /\ UNCHANGED <<phase, op, open, user>> /\ pc'[c] = "effect" /\ Serving
        /\ \A d \in Clients \ {c} : pc'[d] = pc[d]
    BY <1>0, <1>4 DEF InsertRow, SelectRows, Held, conns, HoldInv
  <2>2. QED
    BY <1>0, <2>1 DEF HoldInv, Held, Serving, PoolOf
<1>5. CASE Succeeds(c) \/ Fails(c)
  <2>1. PICK k \in Conns : /\ user[k] = c /\ user' = [user EXCEPT ![k] = "nobody"]
                           /\ \A j \in Conns \ {k} : open'[j] = open[j]
    BY <1>5, GivesOne DEF Succeeds, Fails
  <2>2. /\ Held(c) /\ UNCHANGED <<phase, op>> /\ pc'[c] = "done" /\ Serving
        /\ \A d \in Clients \ {c} : pc'[d] = pc[d]
    BY <1>0, <1>5 DEF Succeeds, Fails, Held, HoldInv
  <2>3. user'[k] = "nobody" /\ \A j \in Conns \ {k} : user'[j] = user[j] /\ user[j] # c
    BY <1>0, <2>1 DEF HoldInv
  <2>4. QED
    BY <1>0, <2>1, <2>2, <2>3 DEF HoldInv, Held, Serving, PoolOf
<1>6. QED
  BY <1>1, <1>2, <1>3, <1>4, <1>5 DEF Return

LEMMA HoldStep == IInv /\ HoldInv /\ [Next]_vars => HoldInv'
<1> SUFFICES ASSUME TypeOK, HoldInv, [Next]_vars PROVE HoldInv'
  BY DEF IInv
<1>1. CASE Down
  BY <1>1 DEF Down, HoldInv, Held
<1>2. CASE UNCHANGED vars
  BY <1>2 DEF vars, conns, calls, HoldInv, Held, Serving, PoolOf
<1>3. QED
  BY <1>1, <1>2, HoldMain, HoldCall DEF Next

(* A connection is in the hands of one call, and a call that returned, with  *)
(* whatever result, has given its own back (queries.sql.go 19-35 and 48).    *)
THEOREM ConnectionsComeBack == Spec => []HoldInv
<1>1. Init => HoldInv
  BY DEF Init, HoldInv, Held
<1>2. QED
  BY <1>1, HoldStep, Invariance, PTL DEF Spec

-----------------------------------------------------------------------------
(* How many connections there are, and what is set on the writer's           *)

LimitInv ==
  \A p \in Pools : IsFiniteSet(Of(p)) /\ Cardinality(Of(p)) \in Nat /\ Cardinality(Of(p)) <= Limit(p)

LEMMA LimitIsNat == \A p \in Pools : Limit(p) \in Nat \ {0} /\ Limit("writer") = 1
  BY LimitsAssumption DEF Limit, Pools

(* A statement respects the limit of its pool.                               *)
LEMMA LimitGets ==
  ASSUME TypeOK, HoldInv, LimitInv, NEW k \in Conns, NEW p \in Pools, Gets(k, p)
  PROVE  LimitInv'
<1>1. open'[k] = p /\ \A j \in Conns \ {k} : open'[j] = open[j]
  BY GetsOne
<1>2. ASSUME NEW q \in Pools, q # p \/ k \in Of(p)
      PROVE  Of(q)' = Of(q)
  <2>1. open[k] \in {"none", p}
    BY GetsOne
  <2>2. q # "none"
    BY DEF Pools
  <2>3. QED
    BY <1>1, <1>2, <2>1, <2>2 DEF Of
<1>3. CASE k \in Of(p)
  <2>1. \A q \in Pools : Of(q)' = Of(q)
    BY <1>2, <1>3
  <2>2. QED
    BY <2>1 DEF LimitInv, Limit
<1>4. CASE k \notin Of(p)
  <2>1. Of(p)' = Of(p) \cup {k}
    BY <1>1 DEF Of
  <2>2. Cardinality(Of(p)) < Limit(p)
    BY <1>4 DEF Gets, Idle
  <2>3. IsFiniteSet(Of(p)) /\ Cardinality(Of(p)) \in Nat
    BY DEF LimitInv
  <2>4. IsFiniteSet(Of(p) \cup {k}) /\ Cardinality(Of(p) \cup {k}) = Cardinality(Of(p)) + 1
    BY <1>4, <2>3, FS_AddElement
  <2>5. /\ IsFiniteSet(Of(p)') /\ Cardinality(Of(p)') \in Nat /\ Cardinality(Of(p)') <= Limit(p)
    BY <2>1, <2>2, <2>3, <2>4, LimitIsNat
  <2>6. \A q \in Pools \ {p} : Of(q)' = Of(q)
    BY <1>2
  <2>7. QED
    BY <2>5, <2>6 DEF LimitInv, Limit
<1>5. QED
  BY <1>3, <1>4

(* Fewer connections are never too many.                                     *)
LEMMA LimitFewer ==
  ASSUME LimitInv, \A k \in Conns : open'[k] = open[k] \/ open'[k] = "none"
  PROVE  LimitInv'
<1>1. ASSUME NEW p \in Pools PROVE Of(p)' \in SUBSET Of(p)
  BY DEF Of, Pools
<1>2. ASSUME NEW p \in Pools
      PROVE  /\ IsFiniteSet(Of(p)') /\ Cardinality(Of(p)') \in Nat
             /\ Cardinality(Of(p)') <= Cardinality(Of(p))
  <2>1. IsFiniteSet(Of(p))
    BY DEF LimitInv
  <2>2. QED
    BY <1>1, <2>1, FS_Subset, FS_CardinalityType
<1>3. QED
  BY <1>2, LimitIsNat DEF LimitInv, Limit

(* The writer has one connection at most.                                    *)
LEMMA OneWriter ==
  ASSUME LimitInv, NEW j \in Conns, NEW k \in Conns, open[j] = "writer", open[k] = "writer"
  PROVE  j = k
<1>1. IsFiniteSet(Of("writer")) /\ Cardinality(Of("writer")) <= 1
  BY LimitIsNat DEF LimitInv, Pools
<1>2. SUFFICES ASSUME j # k PROVE FALSE
  OBVIOUS
<1>3. IsFiniteSet({k} \cup {j}) /\ Cardinality({k} \cup {j}) = 2
  <2>1. IsFiniteSet({k}) /\ Cardinality({k}) = 1 /\ j \notin {k}
    BY <1>2, FS_Singleton
  <2>2. IsFiniteSet({k} \cup {j}) /\ Cardinality({k} \cup {j}) = Cardinality({k}) + 1
    BY <2>1, FS_AddElement
  <2>3. QED
    BY <2>1, <2>2
<1>4. {k} \cup {j} \in SUBSET Of("writer")
  BY DEF Of
<1>5. Cardinality({k} \cup {j}) <= Cardinality(Of("writer")) /\ Cardinality(Of("writer")) \in Nat
  BY <1>1, <1>4, FS_Subset, FS_CardinalityType
<1>6. QED
  BY <1>1, <1>3, <1>5

LEMMA LimitStep == IInv /\ HoldInv /\ LimitInv /\ [Next]_vars => LimitInv'
<1> SUFFICES ASSUME TypeOK, HoldInv, LimitInv, [Next]_vars PROVE LimitInv'
  BY DEF IInv
<1>1. ASSUME UNCHANGED open PROVE LimitInv'
  BY <1>1, LimitFewer
<1>2. CASE Setup
  BY <1>2, LimitGets DEF Setup, TypeOK
<1>3. CASE Statement
  BY <1>3, LimitGets DEF Statement, Pools
<1>4. CASE ClosePools
  <2>1. PICK p \in Pools : Disconnect(Idle(p))
    BY <1>4 DEF ClosePools, ClosePool, Pools
  <2>2. QED
    BY <2>1, LimitFewer DEF Disconnect
<1>5. ASSUME NEW c \in Clients, GetConn(c) PROVE LimitInv'
  BY <1>5, LimitGets DEF GetConn, PoolOf, Pools
<1>6. ASSUME NEW c \in Clients, Succeeds(c) \/ Fails(c) PROVE LimitInv'
  BY <1>6, GivesOne, LimitFewer DEF Succeeds, Fails
<1>7. CASE Down
  BY <1>7, LimitFewer DEF Down
<1>8. CASE OpenPool \/ NewFails \/ BeginClose \/ StatementFails \/ Start \/ UNCHANGED vars
  BY <1>1, <1>8 DEF OpenPool, NewFails, BeginClose, StatementFails, Start, vars, conns
<1>9. ASSUME NEW c \in Clients, Call(c) \/ NoConn(c) \/ InsertRow(c) \/ SelectRows(c) PROVE LimitInv'
  BY <1>1, <1>9 DEF Call, NoConn, InsertRow, SelectRows, conns
<1>10. QED
  BY <1>2, <1>3, <1>4, <1>5, <1>6, <1>7, <1>8, <1>9 DEF Next, Closing, Return

(* The writer's connection, from the statement of New that sets the first of *)
(* its PRAGMAs until the writer is closed.                                   *)
WriterInv ==
  /\ phase = "busy_timeout" /\ opening = "writer" =>
       \E k \in Conns : open[k] = "writer" /\ "synchronous" \in settings[k]
  /\ phase \in {"up", "close_vacuum", "close_checkpoint", "close_writer"} =>
       \E k \in Conns : open[k] = "writer" /\ settings[k] = Pragmas

(* New sets both on the one connection that its statements share.            *)
LEMMA WriterSetUp ==
  ASSUME TypeOK, HoldInv, LimitInv, WriterInv, Setup PROVE WriterInv'
<1>1. PICK k \in Conns : /\ Gets(k, opening)
                         /\ settings' = [settings EXCEPT ![k] = @ \cup ({phase} \cap Pragmas)]
  BY DEF Setup
<1>2. /\ open'[k] = opening /\ settings'[k] = settings[k] \cup ({phase} \cap Pragmas)
      /\ settings[k] \subseteq Pragmas
  BY <1>1, GetsOne DEF TypeOK
<1>3. CASE phase = "synchronous"
  <2>1. phase' = "busy_timeout" /\ opening' = opening
    BY <1>3 DEF Setup, Advance
  <2>2. "synchronous" \in settings'[k]
    BY <1>2, <1>3 DEF Pragmas
  <2>3. QED
    BY <1>2, <2>1, <2>2 DEF WriterInv
<1>4. CASE phase = "busy_timeout" /\ opening = "writer"
  <2>1. phase' = "up"
    BY <1>4 DEF Setup, Advance
  <2>2. PICK w \in Conns : open[w] = "writer" /\ "synchronous" \in settings[w]
    BY <1>4 DEF WriterInv
  <2>3. user[w] = "nobody"
    BY <1>4 DEF HoldInv, Held, Serving, TypeOK
  <2>4. w \in Idle("writer")
    BY <2>2, <2>3 DEF Idle, Of
  <2>5. k \in Idle("writer")
    BY <1>1, <1>4, <2>4 DEF Gets
  <2>6. k = w
    BY <2>2, <2>5, OneWriter DEF Idle, Of
  <2>7. settings'[k] = Pragmas
    BY <1>2, <1>4, <2>2, <2>6 DEF Pragmas
  <2>8. QED
    BY <1>2, <1>4, <2>1, <2>7 DEF WriterInv
<1>5. CASE ~(phase = "synchronous" \/ (phase = "busy_timeout" /\ opening = "writer"))
  <2>1. phase' \notin {"busy_timeout", "up", "close_vacuum", "close_checkpoint", "close_writer"}
    BY <1>5 DEF Setup, Advance, NewSteps, TypeOK, Pools
  <2>2. QED
    BY <2>1 DEF WriterInv
<1>6. QED
  BY <1>3, <1>4, <1>5

(* Afterwards it is in use or idle, and being the only one never too many.   *)
LEMMA WriterStays ==
  ASSUME TypeOK, HoldInv, LimitInv, PoolsInv, WriterInv,
         NEW c \in Clients, Succeeds(c) \/ Fails(c)
  PROVE  WriterInv'
<1>1. UNCHANGED <<phase, opening>> /\ Held(c)
  BY DEF Succeeds, Fails, Held
<1>2. Serving
  BY <1>1 DEF HoldInv, Held
<1>3. PICK k \in Conns :
        /\ user[k] = c
        /\ \A j \in Conns \ {k} : open'[j] = open[j] /\ settings'[j] = settings[j]
        /\ \/ open'[k] = open[k] /\ settings'[k] = settings[k]
           \/ pool[open[k]] = "closed" \/ Cardinality(Idle(open[k])) >= IdleLimit(open[k])
  BY GivesOne DEF Succeeds, Fails
<1>4. ASSUME phase \in {"up", "close_vacuum", "close_checkpoint", "close_writer"},
             NEW w \in Conns, open[w] = "writer"
      PROVE  open'[w] = open[w] /\ settings'[w] = settings[w]
  <2>1. CASE w # k
    BY <1>3, <2>1
  <2>2. CASE w = k
    <3>1. Idle("writer") = {}
      <4>1. \A j \in Conns : open[j] = "writer" => j = k
        BY <1>4, <2>2, OneWriter
      <4>2. user[k] # "nobody"
        BY <1>3, ClientsAssumption
      <4>3. QED
        BY <4>1, <4>2 DEF Idle, Of
    <3>2. Cardinality(Idle("writer")) = 0 /\ IdleLimit("writer") = 1
      BY <3>1, FS_EmptySet DEF IdleLimit
    <3>3. pool["writer"] # "closed"
      BY <1>4 DEF PoolsInv
    <3>4. ~(Cardinality(Idle(open[k])) >= IdleLimit(open[k])) /\ pool[open[k]] # "closed"
      BY <1>4, <2>2, <3>2, <3>3
    <3>5. QED
      BY <1>3, <2>2, <3>4
  <2>3. QED
    BY <2>1, <2>2
<1>5. QED
  BY <1>1, <1>2, <1>4 DEF WriterInv, Serving

LEMMA WriterStep ==
  IInv /\ ClosedInv /\ HoldInv /\ LimitInv /\ WriterInv /\ [Next]_vars => WriterInv'
<1> SUFFICES ASSUME TypeOK, PoolsInv, HoldInv, LimitInv, WriterInv, [Next]_vars PROVE WriterInv'
  BY DEF IInv, ClosedInv
<1>1. CASE Setup
  BY <1>1, WriterSetUp
<1>2. CASE OpenPool \/ NewFails \/ Start \/ Down
  BY <1>2 DEF OpenPool, Advance, NewFails, Start, Down, WriterInv
<1>3. ASSUME NEW p \in Pools, NEW k \in Conns, Gets(k, p), UNCHANGED settings, Serving, Serving',
             phase' \in {"up", "close_vacuum", "close_checkpoint", "close_writer"} =>
               phase \in {"up", "close_vacuum", "close_checkpoint", "close_writer"}
      PROVE  WriterInv'
  <2>1. \A j \in Conns : open[j] = "writer" => open'[j] = "writer"
    BY <1>3, GetsOne
  <2>2. QED
    BY <1>3, <2>1 DEF WriterInv, Serving
<1>4. CASE Statement
  BY <1>3, <1>4 DEF Statement, Serving, Pools
<1>5. ASSUME NEW c \in Clients, GetConn(c) PROVE WriterInv'
  <2>1. Serving /\ Serving'
    BY <1>5 DEF GetConn, HoldInv, Serving
  <2>2. PoolOf(c) \in Pools
    BY DEF PoolOf, Pools
  <2>3. QED
    BY <1>3, <1>5, <2>1, <2>2 DEF GetConn
<1>6. ASSUME NEW c \in Clients, Succeeds(c) \/ Fails(c) PROVE WriterInv'
  BY <1>6, WriterStays
<1>7. CASE BeginClose \/ StatementFails
  BY <1>7 DEF BeginClose, StatementFails, WriterInv, conns
<1>8. CASE ClosePools
  BY <1>8 DEF ClosePools, WriterInv
<1>9. ASSUME NEW c \in Clients, Call(c) \/ NoConn(c) \/ InsertRow(c) \/ SelectRows(c) PROVE WriterInv'
  BY <1>9 DEF Call, NoConn, InsertRow, SelectRows, WriterInv, conns
<1>10. CASE UNCHANGED vars
  BY <1>10 DEF vars, conns, WriterInv
<1>11. QED
  BY <1>1, <1>2, <1>4, <1>5, <1>6, <1>7, <1>8, <1>9, <1>10 DEF Next, Closing, Return

(* All of what is known of connections.                                      *)
THEOREM Connections == Spec => [](HoldInv /\ LimitInv /\ WriterInv)
<1>1. Init => ClosedInv /\ HoldInv
  BY DEF Init, ClosedInv, PoolsInv, ConnsInv, Pools, HoldInv, Held
<1>2. Init => LimitInv /\ WriterInv
  <2>1. SUFFICES ASSUME Init PROVE LimitInv /\ WriterInv
    OBVIOUS
  <2>2. \A p \in Pools : Of(p) = {}
    BY <2>1 DEF Init, Of, Pools
  <2>3. LimitInv
    BY <2>2, FS_EmptySet, LimitIsNat DEF LimitInv
  <2>4. WriterInv
    BY <2>1 DEF Init, WriterInv
  <2>5. QED
    BY <2>3, <2>4
<1>3. QED
  BY <1>1, <1>2, Invariance, ClosedStep, HoldStep, LimitStep, WriterStep, PTL DEF Spec

(* How far the run database_pragmas goes: it is connections of the reader    *)
(* that lack a setting. Insertions run on a connection that has both, for as *)
(* long as the database is up (database.go 50-51, 117-124).                  *)
THEOREM WriterHasSettings ==
  Spec => [](\A k \in Conns : phase = "up" /\ open[k] = "writer" => settings[k] = Pragmas)
<1>1. LimitInv /\ WriterInv =>
        \A k \in Conns : phase = "up" /\ open[k] = "writer" => settings[k] = Pragmas
  BY OneWriter DEF WriterInv
<1>2. QED
  BY <1>1, Connections, PTL

(* "only one writer connection as there can only be one" (database.go 49):   *)
(* no two insertions are between their first statement and their return.     *)
THEOREM InsertionsAreSerial ==
  Spec => [](\A c, d \in Clients :
               Held(c) /\ Held(d) /\ op[c] # GetAll /\ op[d] # GetAll => c = d)
<1>1. TypeOK /\ HoldInv /\ LimitInv =>
        \A c, d \in Clients : Held(c) /\ Held(d) /\ op[c] # GetAll /\ op[d] # GetAll => c = d
  <2> SUFFICES ASSUME TypeOK, HoldInv, LimitInv, NEW c \in Clients, NEW d \in Clients,
                      Held(c), Held(d), op[c] # GetAll, op[d] # GetAll
               PROVE  c = d
    OBVIOUS
  <2>1. PICK j \in Conns : user[j] = c
    BY DEF HoldInv
  <2>2. PICK k \in Conns : user[k] = d
    BY DEF HoldInv
  <2>3. open[j] = "writer" /\ open[k] = "writer"
    BY <2>1, <2>2, ClientsAssumption DEF HoldInv, PoolOf
  <2>4. QED
    BY <2>1, <2>2, <2>3, OneWriter
<1>2. QED
  BY <1>1, Connections, TypeCorrect, PTL

(* After Close the process keeps no connection once the calls have returned. *)
THEOREM NoConnectionRemains ==
  Spec => [](phase = "closed" /\ (\A c \in Clients : ~Held(c)) => \A k \in Conns : open[k] = "none")
<1>1. TypeOK /\ HoldInv /\ ClosedIsClosed =>
        (phase = "closed" /\ (\A c \in Clients : ~Held(c)) => \A k \in Conns : open[k] = "none")
  BY DEF TypeOK, HoldInv, ClosedIsClosed
<1>2. QED
  BY <1>1, Connections, TypeCorrect, NothingLeftOpen, PTL
=============================================================================
