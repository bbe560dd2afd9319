------------------------------ MODULE Database ------------------------------
(***************************************************************************)
(* internal/database: New opens two pools on one SQLite file, "reader" and *)
(* then "writer", and runs the migrations and some statements through them.*)
(* InsertDummy goes through the writer, which has one connection, and      *)
(* GetAllDummy through the reader; both wait for a connection. Close has a *)
(* timeout, empties the write-ahead log and closes the pools, while calls  *)
(* may still run: the servers' Shutdown may have given up on them. The     *)
(* process may end at any time, and start again on the same file.          *)
(***************************************************************************)
EXTENDS Integers, Sequences, FiniteSets

CONSTANTS
  Clients,      \* goroutines of handlers
  Names,
  Conns,        \* connections, an arbitrary supply
  ReaderLimit,  \* SetMaxOpenConns of the reader
  ReaderIdle,   \* SetMaxIdleConns of the reader, 2 unless set
  MaxStarts     \* bound of the model: how often the process starts

ASSUME LimitsAssumption == ReaderLimit \in Nat \ {0} /\ ReaderIdle \in Nat \ {0} /\ MaxStarts \in Nat
ASSUME NamesAssumption == "GetAllDummy" \notin Names
ASSUME ClientsAssumption == "nobody" \notin Clients

VARIABLES
  rows,      \* table dummy: the names, at the position of their id
  schema,    \* "none" or "migrated"
  phase,     \* where New or Close is; see Setup and Closing
  opening,   \* the pool newDatabase works on
  pool,      \* of a pool: "none", "open" or "closed"
  open,      \* the pool a connection belongs to, or "none"
  settings,  \* the PRAGMAs executed on a connection
  user,      \* the client a connection is given to, or "nobody"
  late,      \* the timeout of Close has passed
  pc,        \* of a client: "idle", "called", "run", "effect" or "done"
  op,        \* a name to insert, or GetAll
  value,     \* the id, or how many ids were read; 0 while there is none
  result,    \* "none", "ok" or "error"
  acked,     \* history: the ids InsertDummy returned
  known,     \* history: acked when a call was made
  starts     \* how often the process started

file == <<rows, schema>>
conns == <<pool, open, settings, user>>
calls == <<pc, op, value, result, known>>
vars == <<file, phase, opening, conns, late, calls, acked, starts>>

GetAll == "GetAllDummy"
Pools == {"reader", "writer"}
PoolOf(c) == IF op[c] = GetAll THEN "reader" ELSE "writer"
Pragmas == {"synchronous", "busy_timeout"}

Has(name) == \E i \in 1..Len(rows) : rows[i] = name

-----------------------------------------------------------------------------
(* database/sql                                                            *)

Limit(p) == IF p = "reader" THEN ReaderLimit ELSE 1
IdleLimit(p) == IF p = "reader" THEN ReaderIdle ELSE 1
Of(p) == {k \in Conns : open[k] = p}
Idle(p) == {k \in Of(p) : user[k] = "nobody"}

(* The connection a statement is executed on: an idle one if there is one. *)
Gets(k, p) ==
  \/ k \in Idle(p) /\ UNCHANGED open
  \/ /\ Idle(p) = {} /\ Cardinality(Of(p)) < Limit(p) /\ open[k] = "none"
     /\ open' = [open EXCEPT ![k] = p]

Disconnect(gone) ==
  /\ open' = [k \in Conns |-> IF k \in gone THEN "none" ELSE open[k]]
  /\ settings' = [k \in Conns |-> IF k \in gone THEN {} ELSE settings[k]]

(* A connection that is given back is closed if its pool is closed or has  *)
(* enough idle ones.                                                       *)
Release(c) ==
  \E k \in Conns :
    /\ user[k] = c /\ user' = [user EXCEPT ![k] = "nobody"]
    /\ Disconnect(IF pool[open[k]] = "closed" \/ Cardinality(Idle(open[k])) >= IdleLimit(open[k])
                  THEN {k} ELSE {})
    /\ UNCHANGED pool

(* DB.Close closes the idle connections; the others when they are given    *)
(* back.                                                                   *)
ClosePool(p) ==
  /\ pool' = [pool EXCEPT ![p] = "closed"] /\ Disconnect(Idle(p)) /\ UNCHANGED user

-----------------------------------------------------------------------------
(* Seeded faults, not part of Next *)

(* The second pool, too, is opened without migrations. *)
SkipMigrations_Both(p) == TRUE

(* The transaction of an insertion is never committed. *)
InsertRow_NoCommit(c) ==
  /\ pc[c] = "run" /\ pc' = [pc EXCEPT ![c] = "effect"]
  /\ op[c] \in Names /\ schema = "migrated" /\ ~Has(op[c])
  /\ value' = [value EXCEPT ![c] = Len(rows) + 1]
  /\ UNCHANGED <<file, phase, opening, conns, late, op, result, known, acked, starts>>

(* The migration forgets UNIQUE. *)
InsertRow_NotUnique(c) ==
  /\ pc[c] = "run" /\ pc' = [pc EXCEPT ![c] = "effect"]
  /\ op[c] \in Names /\ schema = "migrated" /\ Len(rows) < 3
  /\ rows' = Append(rows, op[c]) /\ value' = [value EXCEPT ![c] = Len(rows) + 1]
  /\ UNCHANGED <<schema, phase, opening, conns, late, op, result, known, acked, starts>>

(* Rows of an earlier call were left open: the connection still reads its  *)
(* old snapshot.                                                           *)
SelectRows_Stale(c) ==
  /\ pc[c] = "run" /\ pc' = [pc EXCEPT ![c] = "effect"]
  /\ op[c] = GetAll /\ schema = "migrated"
  /\ \E n \in 0..Len(rows) : value' = [value EXCEPT ![c] = n]
  /\ UNCHANGED <<file, phase, opening, conns, late, op, result, known, acked, starts>>

(* Rows are not closed when the call returns. *)
Succeeds_NoRelease(c) ==
  /\ pc[c] = "effect" /\ pc' = [pc EXCEPT ![c] = "done"]
  /\ result' = [result EXCEPT ![c] = "ok"]
  /\ acked' = IF op[c] = GetAll THEN acked ELSE acked \cup {value[c]}
  /\ UNCHANGED <<file, phase, opening, conns, late, op, value, known, starts>>

(* Close returns with the first error. *)
StatementFails_Return ==
  /\ phase \in {"close_vacuum", "close_checkpoint"} /\ phase' = "closed"
  /\ late' \in {late, TRUE}
  /\ UNCHANGED <<file, opening, conns, calls, acked, starts>>

(* Close has no timeout. *)
StatementFails_NoTimeout ==
  /\ phase = "close_checkpoint" /\ phase' = "close_writer" /\ late
  /\ UNCHANGED <<file, opening, conns, late, calls, acked, starts>>

-----------------------------------------------------------------------------
(* New                                                                     *)

SkipMigrations(p) == p = "reader"

NewSteps == {"open", "migrate", "vacuum", "checkpoint", "synchronous", "busy_timeout"}

(* The step after one that succeeded: the statements of newDatabase in     *)
(* their order, for the reader and then for the writer.                    *)
Advance ==
  CASE phase = "open" -> /\ phase' = IF SkipMigrations(opening) THEN "vacuum" ELSE "migrate"
                         /\ UNCHANGED opening
    [] phase = "migrate" -> phase' = "vacuum" /\ UNCHANGED opening
    [] phase = "vacuum" -> phase' = "checkpoint" /\ UNCHANGED opening
    [] phase = "checkpoint" -> phase' = "synchronous" /\ UNCHANGED opening
    [] phase = "synchronous" -> phase' = "busy_timeout" /\ UNCHANGED opening
    [] phase = "busy_timeout" /\ opening = "reader" -> phase' = "open" /\ opening' = "writer"
    [] phase = "busy_timeout" /\ opening = "writer" -> phase' = "up" /\ UNCHANGED opening

(* sql.Open connects to nothing yet.                                       *)
OpenPool ==
  /\ phase = "open" /\ Advance
  /\ pool' = [pool EXCEPT ![opening] = "open"]
  /\ UNCHANGED <<file, open, settings, user, late, calls, acked, starts>>

(* goose or ExecContext on a connection of the pool.                       *)
Setup ==
  /\ phase \in NewSteps \ {"open"} /\ Advance
  /\ schema' = IF phase = "migrate" THEN "migrated" ELSE schema
  /\ \E k \in Conns :
       /\ Gets(k, opening)
       /\ settings' = [settings EXCEPT ![k] = @ \cup ({phase} \cap Pragmas)]
  /\ UNCHANGED <<rows, pool, user, late, calls, acked, starts>>

(* ":memory:", the driver, goose, SQLite or the context of main; what was   *)
(* opened stays open. The migrations may be applied all the same.          *)
NewFails ==
  /\ phase \in NewSteps /\ phase' = "failed"
  /\ schema' \in IF phase = "migrate" THEN {schema, "migrated"} ELSE {schema}
  /\ UNCHANGED <<rows, opening, conns, late, calls, acked, starts>>

-----------------------------------------------------------------------------
(* InsertDummy and GetAllDummy                                             *)

Serving == phase \in {"up", "close_vacuum", "close_checkpoint", "close_writer", "close_reader", "closed"}

Call(c) ==
  /\ Serving /\ pc[c] \in {"idle", "done"} /\ pc' = [pc EXCEPT ![c] = "called"]
  /\ \E o \in Names \cup {GetAll} : op' = [op EXCEPT ![c] = o]
  /\ value' = [value EXCEPT ![c] = 0] /\ result' = [result EXCEPT ![c] = "none"]
  /\ known' = [known EXCEPT ![c] = acked]
  /\ UNCHANGED <<file, phase, opening, conns, late, acked, starts>>

(* QueryContext waits for a connection of the pool.                        *)
GetConn(c) ==
  /\ pc[c] = "called" /\ pool[PoolOf(c)] = "open" /\ pc' = [pc EXCEPT ![c] = "run"]
  /\ \E k \in Conns : Gets(k, PoolOf(c)) /\ user' = [user EXCEPT ![k] = c]
  /\ UNCHANGED <<file, phase, opening, pool, settings, late, op, value, result, known, acked, starts>>

(* "sql: database is closed", or the context of the call is done.          *)
NoConn(c) ==
  /\ pc[c] = "called" /\ pc' = [pc EXCEPT ![c] = "done"]
  /\ result' = [result EXCEPT ![c] = "error"] /\ value' = [value EXCEPT ![c] = 0]
  /\ UNCHANGED <<file, phase, opening, conns, late, op, known, acked, starts>>

InsertRow(c) ==
  /\ pc[c] = "run" /\ pc' = [pc EXCEPT ![c] = "effect"]
  /\ op[c] \in Names /\ schema = "migrated" /\ ~Has(op[c])
  /\ rows' = Append(rows, op[c]) /\ value' = [value EXCEPT ![c] = Len(rows) + 1]
  /\ UNCHANGED <<schema, phase, opening, conns, late, op, result, known, acked, starts>>

SelectRows(c) ==
  /\ pc[c] = "run" /\ pc' = [pc EXCEPT ![c] = "effect"]
  /\ op[c] = GetAll /\ schema = "migrated"
  /\ value' = [value EXCEPT ![c] = Len(rows)]
  /\ UNCHANGED <<file, phase, opening, conns, late, op, result, known, acked, starts>>

Succeeds(c) ==
  /\ pc[c] = "effect" /\ pc' = [pc EXCEPT ![c] = "done"] /\ Release(c)
  /\ result' = [result EXCEPT ![c] = "ok"]
  /\ acked' = IF op[c] = GetAll THEN acked ELSE acked \cup {value[c]}
  /\ UNCHANGED <<file, phase, opening, late, op, value, known, starts>>

(* No table, a name that exists, or the context of the call is done: of an *)
(* insertion even after it took place, while the row is scanned.           *)
Fails(c) ==
  /\ pc[c] \in {"run", "effect"} /\ pc' = [pc EXCEPT ![c] = "done"] /\ Release(c)
  /\ result' = [result EXCEPT ![c] = "error"] /\ value' = [value EXCEPT ![c] = 0]
  /\ UNCHANGED <<file, phase, opening, late, op, known, acked, starts>>

-----------------------------------------------------------------------------
(* Close                                                                   *)

BeginClose ==
  /\ phase = "up" /\ phase' = "close_vacuum"
  /\ UNCHANGED <<file, opening, conns, late, calls, acked, starts>>

(* VACUUM, then the checkpoint, on the writer's connection if it is free.  *)
Statement ==
  /\ ~late
  /\ \/ phase = "close_vacuum" /\ phase' = "close_checkpoint"
     \/ phase = "close_checkpoint" /\ phase' = "close_writer"
  /\ \E k \in Conns : Gets(k, "writer")
  /\ UNCHANGED <<file, opening, pool, settings, user, late, calls, acked, starts>>

(* Whatever becomes of a statement, the next one follows; they share the   *)
(* timeout.                                                                *)
StatementFails ==
  /\ \/ phase = "close_vacuum" /\ phase' = "close_checkpoint"
     \/ phase = "close_checkpoint" /\ phase' = "close_writer"
  /\ late' \in {late, TRUE}
  /\ UNCHANGED <<file, opening, conns, calls, acked, starts>>

ClosePools ==
  /\ \/ phase = "close_writer" /\ phase' = "close_reader" /\ ClosePool("writer")
     \/ phase = "close_reader" /\ phase' = "closed" /\ ClosePool("reader")
  /\ UNCHANGED <<file, opening, late, calls, acked, starts>>

-----------------------------------------------------------------------------
(* The process                                                             *)

Start ==
  /\ phase = "down" /\ starts < MaxStarts
  /\ phase' = "open" /\ starts' = starts + 1
  /\ UNCHANGED <<file, opening, conns, late, calls, acked>>

(* main returns after New failed or Close, or the process is killed.       *)
Down ==
  /\ phase # "down" /\ phase' = "down" /\ opening' = "reader" /\ late' = FALSE
  /\ pool' = [p \in Pools |-> "none"] /\ open' = [k \in Conns |-> "none"]
  /\ settings' = [k \in Conns |-> {}] /\ user' = [k \in Conns |-> "nobody"]
  /\ pc' = [c \in Clients |-> "idle"] /\ op' = [c \in Clients |-> GetAll]
  /\ value' = [c \in Clients |-> 0] /\ result' = [c \in Clients |-> "none"]
  /\ known' = [c \in Clients |-> {}]
  /\ UNCHANGED <<file, acked, starts>>

Init ==
  /\ rows = <<>> /\ schema = "none" /\ acked = {}
  /\ phase = "down" /\ opening = "reader" /\ late = FALSE /\ starts = 0
  /\ pool = [p \in Pools |-> "none"] /\ open = [k \in Conns |-> "none"]
  /\ settings = [k \in Conns |-> {}] /\ user = [k \in Conns |-> "nobody"]
  /\ pc = [c \in Clients |-> "idle"] /\ op = [c \in Clients |-> GetAll]
  /\ value = [c \in Clients |-> 0] /\ result = [c \in Clients |-> "none"]
  /\ known = [c \in Clients |-> {}]

Closing == Statement \/ StatementFails \/ ClosePools

Return(c) == InsertRow(c) \/ SelectRows(c) \/ Succeeds(c) \/ Fails(c)

Next ==
  \/ OpenPool \/ Setup \/ NewFails
  \/ \E c \in Clients : Call(c) \/ GetConn(c) \/ NoConn(c) \/ Return(c)
  \/ BeginClose \/ Closing
  \/ Start \/ Down

(* A statement ends, the queue for a connection is fair and told when the  *)
(* pool is closed, and Close goes on.                                      *)
Spec ==
  /\ Init /\ [][Next]_vars /\ WF_vars(Closing)
  /\ \A c \in Clients :
       /\ WF_vars(Return(c)) /\ SF_vars(GetConn(c))
       /\ WF_vars(pool[PoolOf(c)] = "closed" /\ NoConn(c))

-----------------------------------------------------------------------------
(* Properties *)

(* The variables keep to their domains.                                    *)
TypeOK ==
  /\ rows \in Seq(Names) /\ schema \in {"none", "migrated"}
  /\ phase \in NewSteps \cup {"down", "failed", "up", "close_vacuum", "close_checkpoint",
                              "close_writer", "close_reader", "closed"}
  /\ opening \in Pools /\ pool \in [Pools -> {"none", "open", "closed"}]
  /\ open \in [Conns -> Pools \cup {"none"}] /\ settings \in [Conns -> SUBSET Pragmas]
  /\ user \in [Conns -> Clients \cup {"nobody"}] /\ late \in BOOLEAN
  /\ pc \in [Clients -> {"idle", "called", "run", "effect", "done"}]
  /\ op \in [Clients -> Names \cup {GetAll}] /\ value \in [Clients -> Nat]
  /\ result \in [Clients -> {"none", "ok", "error"}]
  /\ acked \in SUBSET Nat /\ known \in [Clients -> SUBSET Nat] /\ starts \in 0..MaxStarts

(* Once New has returned, statements meet a migrated schema, on whichever   *)
(* pool they run (database.go 39-59, 67-104).                               *)
MigratedBeforeUse == Serving => schema = "migrated"

(* An id that InsertDummy returned names a row, for good: over the end of   *)
(* the process, and New on the same file (InsertDummy; New).                *)
AckedStay == \A id \in acked : id \in 1..Len(rows)

(* GetAllDummy reads through another connection than InsertDummy writes,    *)
(* and yet misses no row whose insertion had returned when it was called.   *)
ReadYourWrites ==
  \A c \in Clients : op[c] = GetAll /\ result[c] = "ok" => \A id \in known[c] : id <= value[c]

(* Close closes both pools even if a statement fails (129-138): when it has *)
(* returned and no call is running, no connection is left.                  *)
ClosedIsClosed ==
  phase = "closed" => \A k \in Conns : user[k] = "nobody" => open[k] = "none"

(* What the handlers see is one table that calls change one at a time.     *)
Store == INSTANCE DummyStore WITH
           pc <- [c \in Clients |-> IF pc[c] = "run" THEN "called" ELSE pc[c]]
ImplementsStore == Store!Spec

(* Close returns, even while a call keeps the writer's only connection.     *)
CloseReturns == phase = "close_vacuum" ~> phase \in {"closed", "down"}

(* Every call returns, unless the process ends: connections are given back. *)
CallsReturn == \A c \in Clients : pc[c] = "called" ~> pc[c] \in {"done", "idle"}

(* database.go 111-124: the busy timeout and the synchronous mode are set   *)
(* for the database's connections.                                          *)
ConnectionsAreSet == \A k \in Conns : phase = "up" /\ open[k] # "none" => settings[k] = Pragmas
=============================================================================
