---------------------------- MODULE SystemProofs ----------------------------
(***************************************************************************)
(* Proofs about Lifecycle and System for any connections and any choice of *)
(* optional servers.                                                       *)
(*                                                                         *)
(* Lifecycle first: type correctness, the safety invariants of the         *)
(* shutdown, how far a listen error can cut its deadline short, why it     *)
(* ends, and that every step is one GracefulStop allows.  The              *)
(* inductive invariant says, for every control point of run(), what the    *)
(* steps before it have established: where the database is, which servers  *)
(* were passed by the shutdown sequence, and what was left of each server  *)
(* that was passed.                                                        *)
(*                                                                         *)
(* Then the composition.  What is proved of Lifecycle holds of it, because *)
(* each of its steps is one of Lifecycle or leaves that alone; the fate of *)
(* the notifications follows from this and from what Lifecycle says of the *)
(* connections at the end.                                                 *)
(***************************************************************************)
EXTENDS System, Naturals, TLAPS

-----------------------------------------------------------------------------
(* The inductive invariant *)

(* Where the deferred db.Close stands.                                     *)
DBPhase ==
  /\ pc \in {"registry", "notify", "database"} => db = "none"
  /\ pc \in {"client", "mailer", "server", "spawn", "wait", "arm", "shutdown",
             "join", "drain", "unwind", "close_db"} => db = "open"
  /\ pc = "closing_db" => db = "closing"
  /\ pc \in {"release", "return"} => db = "closed" \/ (db = "none" /\ runErr)

(* An error sends run() straight to its deferred calls.                    *)
ErrorPhase ==
  /\ runErr => pc \in {"close_db", "closing_db", "release", "return"}
  /\ exit = "error" => pc = "return" /\ runErr
  /\ exit = "ok" => pc = "return" /\ ~runErr

(* A connection needs a server that was spawned, and that a configuration. *)
Started ==
  /\ pc \in SetupSteps \/ runErr => srv = [s \in Servers |-> "off"]
  /\ \A s \in Servers : srv[s] # "off" => s \in Configured
  /\ \A c \in Conns : conn[c] # "none" => srv[Home[c]] # "off"

(* What BeginShutdown and JoinListener leave of the server they are at.    *)
AtServer ==
  /\ pc \in SetupSteps \cup {"wait", "arm"} => cur = "app"
  /\ pc \in {"join", "drain"} => cur \in Configured /\ inShutdown[cur]
  /\ pc = "drain" => /\ srv[cur] # "serving"
                     /\ \A c \in Conns : Home[c] = cur => conn[c] # "idle"

(* The servers the shutdown sequence is done with.                         *)
Before(s) ==
  CASE s = "app" -> {} [] s = "metrics" -> {"app"} [] s = "pprof" -> {"app", "metrics"}

Passed ==
  CASE pc \in {"shutdown", "join", "drain"} -> Before(cur)
    [] pc = "unwind" -> Servers
    [] pc \in {"close_db", "closing_db", "release", "return"} /\ ~runErr -> Servers
    [] OTHER -> {}

(* Nothing can begin on such a server, and a request that still runs was   *)
(* given up on.                                                            *)
PassedClosed ==
  \A s \in Passed :
    /\ s \in Configured => inShutdown[s] /\ srv[s] # "serving"
    /\ \A c \in Conns : Home[c] = s => conn[c] # "idle"
    /\ \A c \in Conns : Home[c] = s /\ conn[c] = "busy" => gaveUp[s] # "no"

PatientBefore == \A s \in Servers : gaveUp[s] # "no" => s \in Passed

(* Who removes the signal handler: a listen error, or the last defer.      *)
Handled ==
  /\ ~handler => failures # {} \/ pc = "return"
  /\ exit = "killed" => ~handler

IInv ==
  /\ TypeOK /\ DBPhase /\ ErrorPhase /\ Started /\ AtServer
  /\ PassedClosed /\ PatientBefore /\ Handled

-----------------------------------------------------------------------------
(* What the two tables of run() hold, entry by entry.                      *)
LEMMA TableLemma ==
  /\ NextServer["app"] = "metrics" /\ NextServer["metrics"] = "pprof"
  /\ NextServer["pprof"] = "app"
  /\ AfterSetup["registry"] = "notify" /\ AfterSetup["notify"] = "database"
  /\ AfterSetup["database"] = "client" /\ AfterSetup["client"] = "mailer"
  /\ AfterSetup["mailer"] = "server" /\ AfterSetup["server"] = "spawn"
  BY DEF NextServer, AfterSetup

(* Every action keeps the variables in their domains.                      *)
LEMMA TypeStep == TypeOK /\ [Next]_vars => TypeOK'
<1> USE ConfiguredAssumption, HomeAssumption
<1> SUFFICES ASSUME TypeOK, [Next]_vars PROVE TypeOK'
  OBVIOUS
<1> USE DEF TypeOK, Points, SetupSteps, Running, At, mainVars, signalVars, serverVars, stopVars
<1>1. CASE SetupSucceeds
  BY <1>1, TableLemma DEF SetupSucceeds
<1>2. CASE SetupFails
  BY <1>2, TableLemma DEF SetupFails
<1>3. CASE Spawn
  BY <1>3, TableLemma DEF Spawn, Advance, Servers
<1>4. CASE WaitDone
  BY <1>4, TableLemma DEF WaitDone, OnlyMain
<1>5. CASE ArmShutdown
  BY <1>5, TableLemma DEF ArmShutdown
<1>6. CASE SkipShutdown
  BY <1>6, TableLemma DEF SkipShutdown, Advance, Servers, OnlyMain
<1>7. CASE BeginShutdown
  BY <1>7, TableLemma DEF BeginShutdown
<1>8. CASE JoinListener
  BY <1>8, TableLemma DEF JoinListener, Advance, Servers, Busy
<1>9. CASE DrainDone
  BY <1>9, TableLemma DEF DrainDone, Advance, Servers, OnlyMain, Busy
<1>10. CASE DrainAborted
  BY <1>10, TableLemma DEF DrainAborted, Advance, Servers
<1>11. CASE Unwind
  BY <1>11, TableLemma DEF Unwind
<1>12. CASE CloseDB
  BY <1>12, TableLemma DEF CloseDB
<1>13. CASE DBClosed
  BY <1>13, TableLemma DEF DBClosed
<1>14. CASE Release
  BY <1>14, TableLemma DEF Release
<1>15. CASE Return
  BY <1>15, TableLemma DEF Return, Exit
<1>16. ASSUME NEW s \in Servers, CheckClosed(s) PROVE TypeOK'
  BY <1>16 DEF CheckClosed, Goes, Quiet
<1>17. ASSUME NEW s \in Servers, Bind(s) PROVE TypeOK'
  BY <1>17 DEF Bind, Goes, Quiet
<1>18. ASSUME NEW s \in Servers, TrackListener(s) PROVE TypeOK'
  BY <1>18 DEF TrackListener, Goes, Quiet
<1>19. ASSUME NEW s \in Servers, ServeReturns(s) PROVE TypeOK'
  BY <1>19 DEF ServeReturns, Goes, Quiet
<1>20. ASSUME NEW s \in Servers, AcceptFails(s) PROVE TypeOK'
  BY <1>20 DEF AcceptFails, Goes, Quiet
<1>21. ASSUME NEW s \in Servers, CallCancel(s) PROVE TypeOK'
  <2>1. handler' \in BOOLEAN /\ ctx' \in {"live", "done"}
    BY <1>21 DEF CallCancel, Goes
  <2>2. shutdownCtx' \in {"none", "live", "expired", "canceled"}
    BY <1>21 DEF CallCancel
  <2>3. QED
    BY <1>21, <2>1, <2>2 DEF CallCancel, Goes
<1>22. ASSUME NEW c \in Conns, Accept(c) PROVE TypeOK'
  BY <1>22 DEF Accept, Becomes
<1>23. ASSUME NEW c \in Conns, Respond(c) PROVE TypeOK'
  BY <1>23 DEF Respond, Becomes
<1>24. ASSUME NEW c \in Conns, NextRequest(c) PROVE TypeOK'
  BY <1>24 DEF NextRequest, Becomes
<1>25. ASSUME NEW c \in Conns, Hangup(c) PROVE TypeOK'
  BY <1>25 DEF Hangup, Becomes
<1>26. CASE Signal
  <2>1. CASE handler
    BY <1>26, <2>1 DEF Signal, Exit
  <2>2. CASE ~handler
    BY <1>26, <2>2 DEF Signal, Exit
  <2>3. QED
    BY <2>1, <2>2
<1>27. CASE Relay
  <2>1. /\ ctx' \in {"live", "done"} /\ pending' \in BOOLEAN
        /\ UNCHANGED <<mainVars, handler, serverVars, stopVars>> /\ UNCHANGED <<conn, db, exit>>
    BY <1>27 DEF Relay
  <2>2. QED
    BY <2>1
<1>28. CASE Expire
  BY <1>28 DEF Expire
<1>29. CASE UNCHANGED vars
  BY <1>29 DEF vars
<1>30. QED
  BY <1>1, <1>2, <1>3, <1>4, <1>5, <1>6, <1>7, <1>8, <1>9, <1>10, <1>11, <1>12, <1>13, <1>14, <1>15, <1>16, <1>17, <1>18, <1>19, <1>20, <1>21, <1>22, <1>23, <1>24, <1>25, <1>26, <1>27, <1>28, <1>29
     DEF Next, Setup, AfterUp, Shutdown, Deferred, Listener, Client, Terminated

(* Every action keeps the inductive invariant.                             *)
LEMMA InvStep == IInv /\ [Next]_vars => IInv'
<1> USE ConfiguredAssumption, HomeAssumption
<1> SUFFICES ASSUME IInv, [Next]_vars PROVE IInv'
  OBVIOUS
<1> DEFINE Rest == DBPhase /\ ErrorPhase /\ Started /\ AtServer
                     /\ PassedClosed /\ PatientBefore /\ Handled
<1>0. TypeOK'
  BY TypeStep DEF IInv
<1> SUFFICES Rest'
  BY <1>0 DEF IInv
<1> USE DEF IInv, TypeOK, Points, SetupSteps, Running, At, mainVars, signalVars, serverVars, stopVars,
            DBPhase, ErrorPhase, Started, AtServer, PassedClosed, PatientBefore, Handled, Passed, Before, Servers
<1>1. CASE SetupSucceeds
  BY <1>1, TableLemma DEF SetupSucceeds
<1>2. CASE SetupFails
  BY <1>2, TableLemma DEF SetupFails
<1>3. CASE Spawn
  BY <1>3, TableLemma DEF Spawn, Advance, Servers
<1>4. CASE WaitDone
  BY <1>4, TableLemma DEF WaitDone, OnlyMain
<1>5. CASE ArmShutdown
  BY <1>5, TableLemma DEF ArmShutdown
<1>6. CASE SkipShutdown
  BY <1>6, TableLemma DEF SkipShutdown, Advance, Servers, OnlyMain
<1>7. CASE BeginShutdown
  BY <1>7, TableLemma DEF BeginShutdown
<1>8. CASE JoinListener
  BY <1>8, TableLemma DEF JoinListener, Advance, Servers, Busy
<1>9. CASE DrainDone
  BY <1>9, TableLemma DEF DrainDone, Advance, Servers, OnlyMain, Busy
<1>10. CASE DrainAborted
  BY <1>10, TableLemma DEF DrainAborted, Advance, Servers
<1>11. CASE Unwind
  BY <1>11, TableLemma DEF Unwind
<1>12. CASE CloseDB
  BY <1>12, TableLemma DEF CloseDB
<1>13. CASE DBClosed
  BY <1>13, TableLemma DEF DBClosed
<1>14. CASE Release
  BY <1>14, TableLemma DEF Release
<1>15. CASE Return
  BY <1>15, TableLemma DEF Return, Exit
<1>16. ASSUME NEW s \in Servers, CheckClosed(s) PROVE Rest'
  BY <1>16 DEF CheckClosed, Goes, Quiet
<1>17. ASSUME NEW s \in Servers, Bind(s) PROVE Rest'
  BY <1>17 DEF Bind, Goes, Quiet
<1>18. ASSUME NEW s \in Servers, TrackListener(s) PROVE Rest'
  BY <1>18 DEF TrackListener, Goes, Quiet
<1>19. ASSUME NEW s \in Servers, ServeReturns(s) PROVE Rest'
  BY <1>19 DEF ServeReturns, Goes, Quiet
<1>20. ASSUME NEW s \in Servers, AcceptFails(s) PROVE Rest'
  BY <1>20 DEF AcceptFails, Goes, Quiet
<1>21. ASSUME NEW s \in Servers, CallCancel(s) PROVE Rest'
  BY <1>21 DEF CallCancel, Goes, Quiet
<1>22. ASSUME NEW c \in Conns, Accept(c) PROVE Rest'
  BY <1>22 DEF Accept, Becomes
<1>23. ASSUME NEW c \in Conns, Respond(c) PROVE Rest'
  BY <1>23 DEF Respond, Becomes
<1>24. ASSUME NEW c \in Conns, NextRequest(c) PROVE Rest'
  BY <1>24 DEF NextRequest, Becomes
<1>25. ASSUME NEW c \in Conns, Hangup(c) PROVE Rest'
  BY <1>25 DEF Hangup, Becomes
<1>26. CASE Signal
  BY <1>26 DEF Signal, Exit
<1>27. CASE Relay
  BY <1>27 DEF Relay
<1>28. CASE Expire
  BY <1>28 DEF Expire
<1>29. CASE UNCHANGED vars
  BY <1>29 DEF vars
<1>30. QED
  BY <1>1, <1>2, <1>3, <1>4, <1>5, <1>6, <1>7, <1>8, <1>9, <1>10, <1>11, <1>12, <1>13, <1>14, <1>15, <1>16, <1>17, <1>18, <1>19, <1>20, <1>21, <1>22, <1>23, <1>24, <1>25, <1>26, <1>27, <1>28, <1>29
     DEF Next, Setup, AfterUp, Shutdown, Deferred, Listener, Client, Terminated

(* The first state satisfies the inductive invariant.                      *)
LEMMA InvInit == Init => IInv
  BY ConfiguredAssumption, HomeAssumption
     DEF Init, IInv, TypeOK, Points, SetupSteps, Servers, DBPhase, ErrorPhase,
         Started, AtServer, PassedClosed, PatientBefore, Handled, Passed, Before

(* The inductive invariant holds in every reachable state.                 *)
THEOREM Invariance == Spec => []IInv
  BY InvInit, InvStep, PTL DEF Spec

-----------------------------------------------------------------------------
(* Its consequences *)

(* run() and its goroutines keep to the domains of their variables.        *)
THEOREM TypeCorrect == Spec => []TypeOK
<1>1. IInv => TypeOK
  BY DEF IInv
<1>2. QED
  BY <1>1, Invariance, PTL

(* No request can begin once the deferred db.Close has begun: by then the  *)
(* shutdown sequence is past every server, or no server was ever spawned.  *)
LEMMA CloseFollows == IInv => NoRequestAfterClose
<1> SUFFICES ASSUME IInv, db \in {"closing", "closed"} PROVE NoRequestAfterClose
  BY DEF NoRequestAfterClose
<1>1. pc \in {"closing_db", "release", "return"}
  BY DEF IInv, TypeOK, DBPhase, Points, SetupSteps
<1>2. CASE runErr
  BY <1>2, HomeAssumption DEF IInv, TypeOK, Started, NoRequestAfterClose
<1>3. CASE ~runErr
  <2>1. Passed = Servers
    BY <1>1, <1>3 DEF Passed
  <2>2. QED
    BY <2>1, HomeAssumption DEF IInv, PassedClosed, Started, NoRequestAfterClose, Servers
<1>4. QED
  BY <1>2, <1>3

(* The database stays open for as long as a request may begin.             *)
THEOREM NothingBeginsAfterClose == Spec => []NoRequestAfterClose
  BY CloseFollows, Invariance, PTL

(* The database is closed under a running request only if the Shutdown of  *)
(* the server of that request gave up on it: by then no other server is    *)
(* left that run() did not pass.                                           *)
LEMMA DrainFollows == IInv => DrainedOrGaveUp
<1> SUFFICES ASSUME IInv, db \in {"closing", "closed"},
                    NEW c \in Conns, conn[c] = "busy"
             PROVE  gaveUp[Home[c]] # "no"
  BY DEF DrainedOrGaveUp
<1>1. pc \in {"closing_db", "release", "return"}
  BY DEF IInv, TypeOK, DBPhase, Points, SetupSteps
<1>2. ~runErr
  BY HomeAssumption DEF IInv, TypeOK, Started
<1>3. Passed = Servers
  BY <1>1, <1>2 DEF Passed
<1>4. QED
  BY <1>3, HomeAssumption DEF IInv, PassedClosed

(* Without a listen error no signal kills the process before its database  *)
(* is closed, because the handler stays until the last deferred call.      *)
LEMMA HandledFollows == IInv => SecondSignalHarmless
  BY DEF IInv, DBPhase, Handled, SecondSignalHarmless

(* What a supervisor may conclude from the exit status.                    *)
LEMMA StatusFollows == IInv => ExitStatus
  BY ConfiguredAssumption
     DEF IInv, DBPhase, ErrorPhase, Started, PassedClosed, Passed, ExitStatus

(* The four as theorems: a request finds the database open ...             *)
THEOREM ClosedAfterDrain == Spec => []DrainedOrGaveUp
  BY DrainFollows, Invariance, PTL

(* ... a second signal does no harm before it is closed ...                *)
THEOREM SignalsAreHandled == Spec => []SecondSignalHarmless
  BY HandledFollows, Invariance, PTL

(* ... and the status says how far run() came.                             *)
THEOREM StatusMeans == Spec => []ExitStatus
  BY StatusFollows, Invariance, PTL

-----------------------------------------------------------------------------
(* The deadline of the shutdown *)

(* The shutdown context exists from ArmShutdown on, and as long as run()   *)
(* has not returned nothing but the cancel() of a listen error cancels it. *)
Armed ==
  /\ pc \in SetupSteps \cup {"spawn", "wait", "arm"} \/ runErr => shutdownCtx = "none"
  /\ pc \in {"shutdown", "join", "drain"} => shutdownCtx # "none"
  /\ shutdownCtx = "canceled" /\ pc \in {"shutdown", "join", "drain", "unwind"} =>
       failures # {}
  /\ \A s \in Servers : gaveUp[s] = "canceled" => failures # {}

(* Every action keeps it.                                                  *)
LEMMA ArmedStep == IInv /\ Armed /\ [Next]_vars => Armed'
<1> SUFFICES ASSUME IInv, Armed, [Next]_vars PROVE Armed'
  OBVIOUS
<1> USE DEF IInv, TypeOK, Points, SetupSteps, Running, At, mainVars, signalVars, serverVars, stopVars,
            ErrorPhase, Armed
<1>1. CASE SetupSucceeds
  BY <1>1, TableLemma DEF SetupSucceeds
<1>2. CASE SetupFails
  BY <1>2, TableLemma DEF SetupFails
<1>3. CASE Spawn
  BY <1>3, TableLemma DEF Spawn, Advance, Servers
<1>4. CASE WaitDone
  BY <1>4, TableLemma DEF WaitDone, OnlyMain
<1>5. CASE ArmShutdown
  BY <1>5, TableLemma DEF ArmShutdown
<1>6. CASE SkipShutdown
  BY <1>6, TableLemma DEF SkipShutdown, Advance, Servers, OnlyMain
<1>7. CASE BeginShutdown
  BY <1>7, TableLemma DEF BeginShutdown
<1>8. CASE JoinListener
  BY <1>8, TableLemma DEF JoinListener, Advance, Servers, Busy
<1>9. CASE DrainDone
  BY <1>9, TableLemma DEF DrainDone, Advance, Servers, OnlyMain, Busy
<1>10. CASE DrainAborted
  BY <1>10, TableLemma DEF DrainAborted, Advance, Servers
<1>11. CASE Unwind
  BY <1>11, TableLemma DEF Unwind
<1>12. CASE CloseDB
  BY <1>12, TableLemma DEF CloseDB
<1>13. CASE DBClosed
  BY <1>13, TableLemma DEF DBClosed
<1>14. CASE Release
  BY <1>14, TableLemma DEF Release
<1>15. CASE Return
  BY <1>15, TableLemma DEF Return, Exit
<1>16. ASSUME NEW s \in Servers, CheckClosed(s) PROVE Armed'
  BY <1>16 DEF CheckClosed, Goes, Quiet
<1>17. ASSUME NEW s \in Servers, Bind(s) PROVE Armed'
  BY <1>17 DEF Bind, Goes, Quiet
<1>18. ASSUME NEW s \in Servers, TrackListener(s) PROVE Armed'
  BY <1>18 DEF TrackListener, Goes, Quiet
<1>19. ASSUME NEW s \in Servers, ServeReturns(s) PROVE Armed'
  BY <1>19 DEF ServeReturns, Goes, Quiet
<1>20. ASSUME NEW s \in Servers, AcceptFails(s) PROVE Armed'
  BY <1>20 DEF AcceptFails, Goes, Quiet
<1>21. ASSUME NEW s \in Servers, CallCancel(s) PROVE Armed'
  BY <1>21 DEF CallCancel, Goes, Quiet
<1>22. ASSUME NEW c \in Conns, Accept(c) PROVE Armed'
  BY <1>22 DEF Accept, Becomes
<1>23. ASSUME NEW c \in Conns, Respond(c) PROVE Armed'
  BY <1>23 DEF Respond, Becomes
<1>24. ASSUME NEW c \in Conns, NextRequest(c) PROVE Armed'
  BY <1>24 DEF NextRequest, Becomes
<1>25. ASSUME NEW c \in Conns, Hangup(c) PROVE Armed'
  BY <1>25 DEF Hangup, Becomes
<1>26. CASE Signal
  BY <1>26 DEF Signal, Exit
<1>27. CASE Relay
  BY <1>27 DEF Relay
<1>28. CASE Expire
  BY <1>28 DEF Expire
<1>29. CASE UNCHANGED vars
  BY <1>29 DEF vars
<1>30. QED
  BY <1>1, <1>2, <1>3, <1>4, <1>5, <1>6, <1>7, <1>8, <1>9, <1>10, <1>11, <1>12, <1>13, <1>14, <1>15, <1>16, <1>17, <1>18, <1>19, <1>20, <1>21, <1>22, <1>23, <1>24, <1>25, <1>26, <1>27, <1>28, <1>29
     DEF Next, Setup, AfterUp, Shutdown, Deferred, Listener, Client, Terminated

(* The deadline of every execution is armed as described.                  *)
THEOREM ArmedInvariance == Spec => [](IInv /\ Armed)
<1>1. Init => Armed
  BY DEF Init, Armed, SetupSteps
<1>2. QED
  BY <1>1, InvInit, InvStep, ArmedStep, PTL DEF Spec

(* How far the run lifecycle_grace goes: as long as no listen error was    *)
(* acted upon, no Shutdown gives up on its requests before the timeout. It *)
(* is the cancel() of main.go 212 alone that cuts the grace period short.  *)
THEOREM GraceWithoutErrors == Spec => [](failures = {} => GraceNotCutShort)
<1>1. Armed => (failures = {} => GraceNotCutShort)
  BY DEF Armed, GraceNotCutShort
<1>2. QED
  BY <1>1, ArmedInvariance, PTL

-----------------------------------------------------------------------------
(* Why a shutdown ends. That it does is a matter of fairness and left to   *)
(* the model checker; here is what the argument rests on, for any number   *)
(* of connections: run() waits for nothing that is not under way, and it   *)
(* has only so many steps to take.                                         *)

(* A Shutdown waits for an accept loop only after its server was told to   *)
(* end, and for requests only under a context that expires.                *)
NothingToWaitFor ==
  /\ pc = "join" /\ srv[cur] = "serving" => inShutdown[cur]
  /\ pc = "drain" /\ Busy(cur) # {} => shutdownCtx \in {"live", "expired", "canceled"}

(* Neither wait of http.Server.Shutdown can be for ever (main.go 273-287). *)
THEOREM WaitsEnd == Spec => []NothingToWaitFor
<1>1. IInv /\ Armed => NothingToWaitFor
  BY DEF IInv, TypeOK, AtServer, Armed, NothingToWaitFor
<1>2. QED
  BY <1>1, ArmedInvariance, PTL

(* The steps run() has left at most when it is at p and at server s: three *)
(* for each server still to shut down, one for each that is still to be    *)
(* spawned and one for each call.                                          *)
ServersLeft == [app |-> 3, metrics |-> 2, pprof |-> 1]

StepsAfter(p, s) ==
  CASE p = "registry" -> 25 [] p = "notify" -> 24 [] p = "database" -> 23
    [] p = "client" -> 22 [] p = "mailer" -> 21 [] p = "server" -> 20
    [] p = "spawn" -> 16 + ServersLeft[s]
    [] p = "wait" -> 16 [] p = "arm" -> 15
    [] p = "shutdown" -> 5 + 3 * ServersLeft[s]
    [] p = "join" -> 4 + 3 * ServersLeft[s]
    [] p = "drain" -> 3 + 3 * ServersLeft[s]
    [] p = "unwind" -> 5 [] p = "close_db" -> 4 [] p = "closing_db" -> 3
    [] p = "release" -> 2 [] p = "return" -> 1

StepsLeft == IF Running THEN StepsAfter(pc, cur) ELSE 0

(* A step of run() uses up one of them, and no step of another gives any.  *)
CountsDown ==
  /\ StepsLeft' \in 0 .. StepsLeft
  /\ Setup \/ AfterUp => StepsLeft' < StepsLeft

(* The table of the steps, entry by entry.                                 *)
LEMMA StepsTable ==
  /\ \A s \in Servers :
       /\ StepsAfter("registry", s) = 25 /\ StepsAfter("notify", s) = 24
       /\ StepsAfter("database", s) = 23 /\ StepsAfter("client", s) = 22
       /\ StepsAfter("mailer", s) = 21 /\ StepsAfter("server", s) = 20
       /\ StepsAfter("wait", s) = 16 /\ StepsAfter("arm", s) = 15
       /\ StepsAfter("unwind", s) = 5 /\ StepsAfter("close_db", s) = 4
       /\ StepsAfter("closing_db", s) = 3 /\ StepsAfter("release", s) = 2
       /\ StepsAfter("return", s) = 1
  /\ StepsAfter("spawn", "app") = 19 /\ StepsAfter("spawn", "metrics") = 18
  /\ StepsAfter("spawn", "pprof") = 17
  /\ StepsAfter("shutdown", "app") = 14 /\ StepsAfter("shutdown", "metrics") = 11
  /\ StepsAfter("shutdown", "pprof") = 8
  /\ StepsAfter("join", "app") = 13 /\ StepsAfter("join", "metrics") = 10
  /\ StepsAfter("join", "pprof") = 7
  /\ StepsAfter("drain", "app") = 12 /\ StepsAfter("drain", "metrics") = 9
  /\ StepsAfter("drain", "pprof") = 6
<1>1. ServersLeft["app"] = 3 /\ ServersLeft["metrics"] = 2 /\ ServersLeft["pprof"] = 1
  BY DEF ServersLeft
<1>2. QED
  BY <1>1 DEF StepsAfter

(* There are 25 at most, and one at least while run() runs.                *)
LEMMA StepsBound == ASSUME NEW p \in Points, NEW s \in Servers
                    PROVE  StepsAfter(p, s) \in 1 .. 25
  BY StepsTable DEF Points, SetupSteps, Servers

(* The steps of run() take from it, the others leave it alone.             *)
LEMMA CountStep == IInv /\ [Next]_vars => [CountsDown]_vars
<1> SUFFICES ASSUME IInv, IInv', Next PROVE CountsDown
  BY InvStep
<1> DEFINE Down == StepsLeft' \in 0 .. StepsLeft /\ StepsLeft' < StepsLeft
<1> USE DEF Running, At, mainVars, signalVars, serverVars, stopVars
<1>t. /\ pc \in Points /\ pc' \in Points /\ cur \in Servers /\ cur' \in Servers
      /\ StepsAfter(pc, cur) \in 1 .. 25 /\ StepsAfter(pc', cur') \in 1 .. 25
  BY StepsBound DEF IInv, TypeOK
<1>0. \/ StepsLeft' = 0 /\ exit' # "running"
      \/ StepsLeft' = StepsAfter(pc', cur') /\ exit' = "running"
  BY DEF StepsLeft
<1>1. ASSUME Running, StepsAfter(pc', cur') < StepsAfter(pc, cur) PROVE Down
  BY <1>1, <1>0, <1>t DEF StepsLeft
<1>2. ASSUME UNCHANGED mainVars, UNCHANGED exit \/ exit' # "running" PROVE StepsLeft' \in 0 .. StepsLeft
  BY <1>2, <1>t DEF StepsLeft
<1>3. CASE SetupSucceeds
  <2>1. StepsAfter(AfterSetup[pc], cur) < StepsAfter(pc, cur)
    BY <1>3, <1>t, StepsTable, TableLemma DEF SetupSucceeds, SetupSteps, IInv, AtServer
  <2>2. QED
    BY <1>1, <1>3, <2>1 DEF SetupSucceeds, CountsDown
<1>4. CASE SetupFails
  <2>1. StepsAfter(pc', cur') < StepsAfter(pc, cur)
    BY <1>4, <1>t, StepsTable DEF SetupFails, SetupSteps
  <2>2. QED
    BY <1>1, <1>4, <2>1 DEF SetupFails, CountsDown
<1>5. CASE AfterUp
  <2>1. ASSUME Spawn PROVE Down
    BY <1>1, <1>t, <2>1, StepsTable, TableLemma DEF Spawn, Advance, Servers
  <2>2. ASSUME WaitDone \/ ArmShutdown \/ BeginShutdown PROVE Down
    BY <1>1, <1>t, <2>2, StepsTable DEF WaitDone, ArmShutdown, BeginShutdown, IInv, AtServer, SetupSteps, Servers
  <2>3. ASSUME SkipShutdown \/ JoinListener \/ DrainDone \/ DrainAborted PROVE Down
    BY <1>1, <1>t, <2>3, StepsTable, TableLemma
       DEF SkipShutdown, JoinListener, DrainDone, DrainAborted, Advance, Servers
  <2>4. ASSUME Unwind \/ CloseDB \/ DBClosed \/ Release PROVE Down
    BY <1>1, <1>t, <2>4, StepsTable DEF Unwind, CloseDB, DBClosed, Release
  <2>5. ASSUME Return PROVE Down
    BY <1>0, <1>t, <2>5 DEF Return, Exit, StepsLeft
  <2> HIDE DEF Down
  <2>6. Down
    BY <1>5, <2>1, <2>2, <2>3, <2>4, <2>5 DEF AfterUp, Shutdown, Deferred
  <2>7. QED
    BY <2>6 DEF CountsDown, Down
<1>6. ASSUME NEW s \in Servers, Listener(s) \/ AcceptFails(s) PROVE StepsLeft' \in 0 .. StepsLeft
  BY <1>2, <1>6 DEF Listener, AcceptFails, CheckClosed, Bind, TrackListener, ServeReturns, CallCancel, Goes
<1>7. ASSUME NEW c \in Conns, Client(c) PROVE StepsLeft' \in 0 .. StepsLeft
  BY <1>2, <1>7 DEF Client, Accept, Respond, NextRequest, Hangup, Becomes
<1>8. ASSUME Signal PROVE StepsLeft' \in 0 .. StepsLeft
  BY <1>2, <1>8 DEF Signal, Exit
<1>9. ASSUME Relay \/ Expire \/ Terminated PROVE StepsLeft' \in 0 .. StepsLeft
  BY <1>2, <1>9 DEF Relay, Expire, Terminated, vars
<1>10. QED
  <2> SUFFICES ASSUME ~Setup, ~AfterUp PROVE StepsLeft' \in 0 .. StepsLeft
    BY <1>3, <1>4, <1>5 DEF CountsDown, Setup
  <2>1. QED
    BY <1>6, <1>7, <1>8, <1>9 DEF Next

(* run() takes 25 steps at most, of which no restart, retry or wait of it  *)
(* takes one back: whenever it can move for long enough, it has returned.  *)
THEOREM RunIsBounded == Spec => /\ [](StepsLeft \in 0 .. 25)
                                /\ [][CountsDown]_vars
<1>1. IInv => StepsLeft \in 0 .. 25
  BY StepsBound DEF IInv, TypeOK, StepsLeft
<1>2. QED
  BY <1>1, CountStep, Invariance, PTL DEF Spec

-----------------------------------------------------------------------------
(* The contract of GracefulStop *)

(* Every step of the process is a step of the contract or leaves it alone. *)
LEMMA ContractStep == IInv /\ [Next]_vars => [Contract!Next]_(Contract!vars)
<1> USE ConfiguredAssumption, HomeAssumption
<1> SUFFICES ASSUME IInv, [Next]_vars PROVE [Contract!Next]_(Contract!vars)
  OBVIOUS
<1> USE DEF IInv, TypeOK, Points, SetupSteps, Running, At, mainVars, signalVars, serverVars, stopVars,
            DBPhase, ErrorPhase, Started, AtServer, PassedClosed, PatientBefore, Passed, Before, Servers,
            Stage, Busy, Contract!vars, Contract!Next, Contract!Arrive, Contract!Leave, Contract!Drain,
            Contract!LosePatience, Contract!Close, Contract!Stop
<1>1. CASE SetupSucceeds
  BY <1>1, TableLemma DEF SetupSucceeds
<1>2. CASE SetupFails
  BY <1>2, TableLemma DEF SetupFails
<1>3. CASE Spawn
  BY <1>3, TableLemma DEF Spawn, Advance
<1>4. CASE WaitDone
  BY <1>4, TableLemma DEF WaitDone, OnlyMain
<1>5. CASE ArmShutdown
  BY <1>5, TableLemma DEF ArmShutdown
<1>6. CASE SkipShutdown
  BY <1>6, TableLemma DEF SkipShutdown, Advance, OnlyMain
<1>7. CASE BeginShutdown
  BY <1>7, TableLemma DEF BeginShutdown
<1>8. CASE JoinListener
  BY <1>8, TableLemma DEF JoinListener, Advance
<1>9. CASE DrainDone
  BY <1>9, TableLemma DEF DrainDone, Advance, OnlyMain
<1>10. CASE DrainAborted
  BY <1>10, TableLemma DEF DrainAborted, Advance
<1>11. CASE Unwind
  BY <1>11, TableLemma DEF Unwind
<1>12. CASE CloseDB
  BY <1>12, TableLemma DEF CloseDB
<1>13. CASE DBClosed
  BY <1>13, TableLemma DEF DBClosed
<1>14. CASE Release
  BY <1>14, TableLemma DEF Release
<1>15. CASE Return
  BY <1>15, TableLemma DEF Return, Exit
<1>16. ASSUME NEW s \in Servers, CheckClosed(s) PROVE [Contract!Next]_(Contract!vars)
  BY <1>16 DEF CheckClosed, Goes, Quiet
<1>17. ASSUME NEW s \in Servers, Bind(s) PROVE [Contract!Next]_(Contract!vars)
  BY <1>17 DEF Bind, Goes, Quiet
<1>18. ASSUME NEW s \in Servers, TrackListener(s) PROVE [Contract!Next]_(Contract!vars)
  BY <1>18 DEF TrackListener, Goes, Quiet
<1>19. ASSUME NEW s \in Servers, ServeReturns(s) PROVE [Contract!Next]_(Contract!vars)
  BY <1>19 DEF ServeReturns, Goes, Quiet
<1>20. ASSUME NEW s \in Servers, AcceptFails(s) PROVE [Contract!Next]_(Contract!vars)
  BY <1>20 DEF AcceptFails, Goes, Quiet
<1>21. ASSUME NEW s \in Servers, CallCancel(s) PROVE [Contract!Next]_(Contract!vars)
  BY <1>21 DEF CallCancel, Goes, Quiet
<1>22. ASSUME NEW c \in Conns, Accept(c) PROVE [Contract!Next]_(Contract!vars)
  BY <1>22 DEF Accept, Becomes
<1>23. ASSUME NEW c \in Conns, Respond(c) PROVE [Contract!Next]_(Contract!vars)
  BY <1>23 DEF Respond, Becomes
<1>24. ASSUME NEW c \in Conns, NextRequest(c) PROVE [Contract!Next]_(Contract!vars)
  BY <1>24 DEF NextRequest, Becomes
<1>25. ASSUME NEW c \in Conns, Hangup(c) PROVE [Contract!Next]_(Contract!vars)
  BY <1>25 DEF Hangup, Becomes
<1>26. CASE Signal
  BY <1>26 DEF Signal, Exit
<1>27. CASE Relay
  BY <1>27 DEF Relay
<1>28. CASE Expire
  BY <1>28 DEF Expire
<1>29. CASE UNCHANGED vars
  BY <1>29 DEF vars
<1> HIDE DEF IInv, Stage, Busy, Contract!vars, Contract!Next
<1>30. QED
  BY <1>1, <1>2, <1>3, <1>4, <1>5, <1>6, <1>7, <1>8, <1>9, <1>10, <1>11, <1>12, <1>13, <1>14, <1>15, <1>16, <1>17, <1>18, <1>19, <1>20, <1>21, <1>22, <1>23, <1>24, <1>25, <1>26, <1>27, <1>28, <1>29
     DEF Next, Setup, AfterUp, Shutdown, Deferred, Listener, Client, Terminated

(* The initial state is the initial state of the contract.                 *)
LEMMA ContractInit == Init => Contract!Init
  BY ConfiguredAssumption
     DEF Init, Contract!Init, Stage, Running, Busy, Servers

(* The shutdown implements its contract: a request of the main server is let *)
(* in only while the server is up and finds the database open until it ended *)
(* or the server lost patience.                                              *)
THEOREM ImplementsContract == Spec => Contract!SafeSpec
<1>1. Init => Contract!Init
  BY ContractInit
<1>2. IInv /\ [Next]_vars => [Contract!Next]_(Contract!vars)
  BY ContractStep
<1>3. QED
  BY <1>1, <1>2, Invariance, PTL DEF Spec, Contract!SafeSpec

-----------------------------------------------------------------------------
(* The composition. *)

NoticeType == notice \in [Conns -> {"none", "pending", "settled", "lost"}]

(* Where there was an error there was a request; nothing is lost or dropped *)
(* while the process runs, and nothing is under way after it.              *)
NoticeInv ==
  \A c \in Conns :
    /\ notice[c] # "none" => Home[c] = "app" /\ conn[c] # "none"
    /\ exit = "running" => notice[c] # "lost" /\ conn[c] # "dropped"
    /\ exit # "running" => notice[c] # "pending"

SysInv == IInv /\ NoticeType /\ NoticeInv /\ LostAfterAnswer

-----------------------------------------------------------------------------
(* The steps of the composition: one of Lifecycle, or one of its own.       *)
LEMMA Steps == ASSUME SysNext PROVE Step(Next) \/ \E c \in Conns : Fail(c) \/ Notify(c)
<1>1. ASSUME NEW c \in Conns, Answered(c) PROVE Step(Next)
  BY <1>1 DEF Answered, Step, Next
<1>2. CASE Main
  BY <1>2 DEF Main, Step, Next
<1>3. QED
  BY <1>1, <1>2 DEF SysNext, Step, Next

(* Every execution of the composition is one of Lifecycle.                  *)
THEOREM SystemIsLifecycle == SysSpec => Init /\ [][Next]_vars
<1>1. SysInit => Init
  BY DEF SysInit
<1>2. [SysNext]_sysvars => [Next]_vars
  BY Steps DEF sysvars, Step, Fail, Notify
<1>3. QED
  BY <1>1, <1>2, PTL DEF SysSpec

(* So its inductive invariant holds here too.                               *)
THEOREM LifecycleInv == SysSpec => []IInv
  BY SystemIsLifecycle, InvInit, InvStep, PTL

(* What a step of Lifecycle does to connections, and how it ends the        *)
(* process.                                                                *)
ConnStep ==
  /\ \A c \in Conns : conn[c] # "none" => conn'[c] # "none"
  /\ exit' = "running" => \A c \in Conns : conn[c] # "dropped" => conn'[c] # "dropped"
  /\ exit # "running" => UNCHANGED <<conn, gaveUp, exit>>
  /\ exit' # exit => exit' = "killed" \/ Return

LEMMA ConnSteps == ASSUME IInv, Next PROVE ConnStep
<1> USE DEF IInv, TypeOK, ConnStep, Running, At, mainVars, signalVars, serverVars, stopVars
<1>1. CASE Setup
  BY <1>1 DEF Setup, SetupSucceeds, SetupFails
<1>2. CASE Spawn
  BY <1>2 DEF Spawn
<1>3. CASE JoinListener
  BY <1>3 DEF JoinListener
<1>4. CASE Shutdown /\ ~JoinListener
  BY <1>4 DEF Shutdown, WaitDone, ArmShutdown, SkipShutdown, BeginShutdown, DrainDone, DrainAborted, OnlyMain
<1>5. CASE Unwind \/ CloseDB \/ DBClosed \/ Release
  BY <1>5 DEF Unwind, CloseDB, DBClosed, Release
<1>6. CASE Return
  BY <1>6 DEF Return, Exit
<1>7. ASSUME NEW s \in Servers, Listener(s) \/ AcceptFails(s) PROVE ConnStep
  BY <1>7 DEF Listener, AcceptFails, CheckClosed, Bind, TrackListener, ServeReturns, CallCancel, Goes
<1>8. ASSUME NEW c \in Conns, Client(c) PROVE ConnStep
  BY <1>8 DEF Client, Accept, Respond, NextRequest, Hangup, Becomes
<1>9. CASE Signal
  BY <1>9 DEF Signal, Exit
<1>10. CASE Relay \/ Expire \/ Terminated
  BY <1>10 DEF Relay, Expire, Terminated, vars
<1> HIDE DEF ConnStep
<1>11. QED
  BY <1>1, <1>2, <1>3, <1>4, <1>5, <1>6, <1>7, <1>8, <1>9, <1>10 DEF Next, AfterUp, Deferred

(* A return of run() leaves a request of the main server unanswered only if *)
(* its Shutdown gave up.                                                    *)
LEMMA Answers ==
  ASSUME IInv, Return, NEW c \in Conns, Home[c] = "app", conn[c] \notin {"none", "dropped"}
  PROVE conn'[c] = "closed" \/ gaveUp'["app"] # "no"
<1>1. pc = "return" /\ conn[c] \in {"busy", "idle", "closed"} /\ UNCHANGED gaveUp
  BY DEF IInv, TypeOK, Return, At, stopVars
<1>2. conn[c] = "closed" => conn'[c] = "closed"
  BY DEF Return, Exit
<1>3. CASE runErr
  BY <1>1, <1>3 DEF IInv, Started, Servers
<1>4. CASE ~runErr
  BY <1>1, <1>2, <1>4 DEF IInv, PassedClosed, Passed, Servers
<1>5. QED
  BY <1>3, <1>4

-----------------------------------------------------------------------------
(* The invariant of the notifications is kept by every step.                *)
LEMMA SysStep == SysInv /\ IInv' /\ [SysNext]_sysvars => SysInv'
<1> SUFFICES ASSUME SysInv, IInv', [SysNext]_sysvars PROVE NoticeType' /\ NoticeInv' /\ LostAfterAnswer'
  BY DEF SysInv
<1> USE DEF NoticeType, NoticeInv, LostAfterAnswer
<1>1. CASE Step(Next)
  <2>1. ConnStep
    BY <1>1, ConnSteps DEF SysInv, Step
  <2>2. exit' = "running" => notice' = notice
    BY <1>1 DEF Step
  <2>3. exit' # "running" =>
          notice' = [c \in Conns |-> IF notice[c] = "pending" THEN "lost" ELSE notice[c]]
    BY <1>1 DEF Step
  <2>4. NoticeType'
    BY <2>2, <2>3 DEF SysInv
  <2>5. NoticeInv'
    BY <2>1, <2>2, <2>3 DEF SysInv, ConnStep
  <2>6. LostAfterAnswer'
    <3>1. SUFFICES ASSUME NEW c \in Conns, notice'[c] = "lost", exit' # "killed"
                   PROVE conn'[c] = "closed" \/ gaveUp'["app"] # "no"
      OBVIOUS
    <3>2. CASE exit # "running"
      BY <2>1, <2>2, <2>3, <3>1, <3>2 DEF SysInv, ConnStep
    <3>3. CASE exit = "running"
      <4>1. exit' # "running" /\ notice[c] = "pending"
        BY <2>2, <2>3, <3>1, <3>3 DEF SysInv
      <4>2. Return
        BY <2>1, <3>1, <3>3, <4>1 DEF ConnStep
      <4>3. QED
        BY <3>3, <4>1, <4>2, Answers DEF SysInv
    <3>4. QED
      BY <3>2, <3>3
  <2>7. QED
    BY <2>4, <2>5, <2>6
<1>2. ASSUME NEW c \in Conns, Fail(c) \/ Notify(c)
      PROVE NoticeType' /\ NoticeInv' /\ LostAfterAnswer'
  BY <1>2 DEF SysInv, Fail, Notify, vars, Running, stopVars
<1>3. CASE UNCHANGED sysvars
  BY <1>3 DEF SysInv, sysvars, vars, stopVars
<1>4. QED
  BY <1>1, <1>2, <1>3, Steps

(* The invariant holds of the composition.                                  *)
THEOREM SystemInvariance == SysSpec => []SysInv
<1>1. SysInit /\ IInv => SysInv
  BY DEF SysInit, Init, SysInv, NoticeType, NoticeInv, LostAfterAnswer
<1>2. QED
  BY <1>1, SysStep, LifecycleInv, PTL DEF SysSpec

(* What run() leaves behind when it returns is at most a notification, and  *)
(* never a request, unless the Shutdown of the server gave up (server.go 97, *)
(* main.go 275).                                                           *)
THEOREM OnlyNoticesAreLost == SysSpec => []LostAfterAnswer
  BY SystemInvariance, PTL DEF SysInv

(* What the run system checks of the process holds of the composition for  *)
(* any connections. No request begins once the database is being closed.   *)
THEOREM SystemNothingAfterClose == SysSpec => []NoRequestAfterClose
  BY LifecycleInv, CloseFollows, PTL

(* None that runs finds it closed unless its server gave up on it.         *)
THEOREM SystemDrains == SysSpec => []DrainedOrGaveUp
  BY LifecycleInv, DrainFollows, PTL

(* No further signal ends a shutdown before the database is closed.        *)
THEOREM SystemSurvivesSignals == SysSpec => []SecondSignalHarmless
  BY LifecycleInv, HandledFollows, PTL

(* The exit status tells how far run() came.                               *)
THEOREM SystemStatusMeans == SysSpec => []ExitStatus
  BY LifecycleInv, StatusFollows, PTL

(* Neither a Shutdown nor the number of steps run() has left is touched by *)
(* a notification that hangs.                                              *)
THEOREM SystemIsBounded == SysSpec => /\ []NothingToWaitFor
                                      /\ [][CountsDown]_vars
<1>1. Init => Armed
  BY DEF Init, Armed, SetupSteps
<1>2. IInv /\ Armed => NothingToWaitFor
  BY DEF IInv, TypeOK, AtServer, Armed, NothingToWaitFor
<1>3. QED
  BY <1>1, <1>2, CountStep, ArmedStep, SystemIsLifecycle, LifecycleInv, PTL

(* The composition keeps to the safety part of the contract as well: the   *)
(* notifications are invisible to it.                                      *)
THEOREM SystemImplementsContract == SysSpec => Contract!SafeSpec
  BY ContractInit, ContractStep, SystemIsLifecycle, LifecycleInv, PTL DEF Contract!SafeSpec
=============================================================================
