------------------------------ MODULE Lifecycle ------------------------------
(***************************************************************************)
(* The life of the process: run() in main.go.                              *)
(*                                                                         *)
(* The goroutine of run() sets the parts up, spawns one ListenAndServe     *)
(* goroutine per configured server, waits for the signal context, shuts    *)
(* the servers down one after the other under ONE deadline and unwinds its *)
(* deferred calls: cancel (line 273), db.Close (153), stop (131).          *)
(* Concurrent with it: the ListenAndServe goroutines, the goroutine of     *)
(* signal.NotifyContext, the timer of the shutdown context, the clients,   *)
(* and whoever sends SIGINT or SIGTERM. net/http's Server is modelled as   *)
(* far as run() depends on it: the inShutdown flag, the tracked listener,  *)
(* and connections that are kept alive between their requests.             *)
(***************************************************************************)

CONSTANTS
  Configured,  \* servers with a listen address in the configuration
  Conns,       \* client connections, each opened at most once
  Home         \* the server a connection is made to

Servers == {"app", "metrics", "pprof"}

ASSUME ConfiguredAssumption ==
  /\ Configured \subseteq Servers
  /\ "app" \in Configured

ASSUME HomeAssumption == Home \in [Conns -> Servers]

VARIABLES
  pc,          \* control point of run()
  cur,         \* server the spawn or shutdown sequence is at
  runErr,      \* run() will return an error
  ctx,         \* context of signal.NotifyContext: "live" or "done"
  handler,     \* SIGINT and SIGTERM are delivered to NotifyContext's channel
  pending,     \* that channel (capacity 1) holds a signal
  cancelVar,   \* function the variable cancel is bound to
  shutdownCtx, \* "none", "live", "expired" or "canceled"
  srv,         \* control point of the ListenAndServe goroutine of a server
  inShutdown,  \* http.Server.inShutdown
  failures,    \* servers whose listen error was logged and acted upon
  conn,        \* state of a connection: "none", "busy" (a request is being
               \* served), "idle" (keep-alive), "closed" or "dropped"
  gaveUp,      \* why Shutdown returned an error: "no", "expired", "canceled"
  db,          \* "none", "open", "closing" or "closed"
  exit         \* "running", "ok" (status 0), "error" (status 1), "killed"

mainVars   == <<pc, cur, runErr>>
signalVars == <<ctx, handler, pending>>
serverVars == <<srv, inShutdown, failures>>
stopVars   == <<cancelVar, shutdownCtx, gaveUp>>
vars       == <<mainVars, signalVars, serverVars, stopVars, conn, db, exit>>

-----------------------------------------------------------------------------
(* Helpers *)

Running == exit = "running"
At(p)   == Running /\ pc = p

(* The calls of run() that can fail, in program order.                     *)
SetupSteps == {"registry", "notify", "database", "client", "mailer", "server"}

AfterSetup ==
  [registry |-> "notify", notify |-> "database", database |-> "client",
   client |-> "mailer", mailer |-> "server", server |-> "spawn"]

(* Connections of server s with a request in the hands of a handler.       *)
Busy(s) == {c \in Conns : Home[c] = s /\ conn[c] = "busy"}

(* Servers are spawned and shut down in the order app, metrics, pprof.     *)
NextServer == [app |-> "metrics", metrics |-> "pprof", pprof |-> "app"]

(* A step of run() that changes nothing but its own position.              *)
OnlyMain == UNCHANGED <<runErr, signalVars, serverVars, stopVars, conn, db, exit>>

(* Do the same for the next server, or go on after the last one.           *)
Advance(same, next) ==
  /\ cur' = NextServer[cur]
  /\ pc' = IF cur = "pprof" THEN next ELSE same

(* The process is gone and the connections it had with it.                 *)
Exit(status) ==
  /\ exit' = status
  /\ conn' = [c \in Conns |-> IF conn[c] \in {"busy", "idle"} THEN "dropped" ELSE conn[c]]

-----------------------------------------------------------------------------
(* Seeded faults: slips that would be easy to make in run(), each a variant *)
(* of the action it is named after. None is part of Next; the runs must     *)
(* notice when one takes the place of its action.                           *)

(* Shutdown is called for the main server only. *)
SkipShutdown_MainOnly ==
  /\ At("shutdown") /\ cur # "app"
  /\ Advance("shutdown", "unwind") /\ OnlyMain

(* Close instead of Shutdown: nobody waits for the busy connections. *)
JoinListener_NoDrain ==
  /\ At("join") /\ srv[cur] # "serving"
  /\ conn' = [c \in Conns |-> IF Home[c] = cur /\ conn[c] = "idle" THEN "closed" ELSE conn[c]]
  /\ Advance("shutdown", "unwind")
  /\ UNCHANGED <<runErr, signalVars, serverVars, stopVars, db, exit>>

(* stop() right after <-ctx.Done(), as in the example of os/signal. *)
WaitDone_StopSignals ==
  /\ At("wait") /\ ctx = "done"
  /\ handler' = FALSE /\ pc' = "arm"
  /\ UNCHANGED <<cur, runErr, ctx, pending, serverVars, stopVars, conn, db, exit>>

(* Only the wait looks at the context, and not at what came before it. *)
Relay_OnlyWaiting ==
  /\ Running /\ pending /\ ctx = "live"
  /\ ctx' = (IF pc \in SetupSteps THEN "live" ELSE "done") /\ pending' = FALSE
  /\ UNCHANGED <<mainVars, handler, serverVars, stopVars, conn, db, exit>>

(* "return err" where err is the one of an outer scope. *)
SetupFails_Swallowed ==
  /\ Running /\ pc \in SetupSteps
  /\ pc' = IF db = "open" THEN "close_db" ELSE "release"
  /\ UNCHANGED <<cur, runErr, signalVars, serverVars, stopVars, conn, db, exit>>

(* The error is logged, cancel() is not called. *)
CallCancel_LogOnly(s) ==
  /\ Running /\ srv[s] = "failed"
  /\ srv' = [srv EXCEPT ![s] = "closed"]
  /\ failures' = failures \cup {s}
  /\ UNCHANGED <<mainVars, signalVars, inShutdown, stopVars, conn, db, exit>>

-----------------------------------------------------------------------------
(* run(): set-up *)

Init ==
  /\ pc = "registry" /\ cur = "app" /\ runErr = FALSE
  /\ ctx = "live" /\ handler = TRUE /\ pending = FALSE
  /\ cancelVar = "stop" /\ shutdownCtx = "none"
  /\ gaveUp = [s \in Servers |-> "no"]
  /\ srv = [s \in Servers |-> "off"]
  /\ inShutdown = [s \in Servers |-> FALSE]
  /\ failures = {}
  /\ conn = [c \in Conns |-> "none"]
  /\ db = "none" /\ exit = "running"

(* database.New runs its statements under ctx: it fails once ctx is done.  *)
(* The other calls do not take ctx.                                        *)
SetupSucceeds ==
  /\ Running /\ pc \in SetupSteps
  /\ pc = "database" => ctx = "live"
  /\ pc' = AfterSetup[pc]
  /\ db' = IF pc = "database" THEN "open" ELSE db
  /\ UNCHANGED <<cur, runErr, signalVars, serverVars, stopVars, conn, exit>>

(* An early return: only what was deferred so far is unwound.              *)
SetupFails ==
  /\ Running /\ pc \in SetupSteps
  /\ runErr' = TRUE
  /\ pc' = IF db = "open" THEN "close_db" ELSE "release"
  /\ UNCHANGED <<cur, signalVars, serverVars, stopVars, conn, db, exit>>

Spawn ==
  /\ At("spawn")
  /\ srv' = IF cur \in Configured THEN [srv EXCEPT ![cur] = "spawned"] ELSE srv
  /\ Advance("spawn", "wait")
  /\ UNCHANGED <<runErr, signalVars, inShutdown, failures, stopVars, conn, db, exit>>

-----------------------------------------------------------------------------
(* run(): shutdown *)

WaitDone ==
  /\ At("wait") /\ ctx = "done"
  /\ pc' = "arm" /\ UNCHANGED cur /\ OnlyMain

(* shutdownCtx, cancel := context.WithTimeout(...): only shutdownCtx is    *)
(* new, the cancel the ListenAndServe goroutines captured is reassigned.   *)
ArmShutdown ==
  /\ At("arm")
  /\ shutdownCtx' = "live" /\ cancelVar' = "cancelShutdown"
  /\ pc' = "shutdown"
  /\ UNCHANGED <<cur, runErr, signalVars, serverVars, gaveUp, conn, db, exit>>

SkipShutdown ==
  /\ At("shutdown") /\ cur \notin Configured
  /\ Advance("shutdown", "unwind") /\ OnlyMain

(* http.Server.Shutdown: no listener is tracked from now on.               *)
BeginShutdown ==
  /\ At("shutdown") /\ cur \in Configured
  /\ inShutdown' = [inShutdown EXCEPT ![cur] = TRUE]
  /\ pc' = "join"
  /\ UNCHANGED <<cur, runErr, signalVars, srv, failures, stopVars, conn, db, exit>>

(* Shutdown waits for the accept loop to end and closes the connections    *)
(* that are idle; it looks at its context only if some are left.           *)
JoinListener ==
  /\ At("join") /\ srv[cur] # "serving"
  /\ conn' = [c \in Conns |-> IF Home[c] = cur /\ conn[c] = "idle" THEN "closed" ELSE conn[c]]
  /\ \/ Busy(cur) = {} /\ Advance("shutdown", "unwind")
     \/ Busy(cur) # {} /\ pc' = "drain" /\ cur' = cur
  /\ UNCHANGED <<runErr, signalVars, serverVars, stopVars, db, exit>>

DrainDone ==
  /\ At("drain") /\ Busy(cur) = {}
  /\ Advance("shutdown", "unwind") /\ OnlyMain

(* Shutdown returns the error of its context; run() logs it and goes on.   *)
DrainAborted ==
  /\ At("drain") /\ shutdownCtx \in {"expired", "canceled"}
  /\ gaveUp' = [gaveUp EXCEPT ![cur] = shutdownCtx]
  /\ Advance("shutdown", "unwind")
  /\ UNCHANGED <<runErr, signalVars, serverVars, cancelVar, shutdownCtx, conn, db, exit>>

(* run() has returned; the first deferred call is the cancel of line 273.  *)
Unwind ==
  /\ At("unwind")
  /\ shutdownCtx' = IF shutdownCtx = "live" THEN "canceled" ELSE shutdownCtx
  /\ pc' = "close_db"
  /\ UNCHANGED <<cur, runErr, signalVars, serverVars, cancelVar, gaveUp, conn, db, exit>>

CloseDB ==
  /\ At("close_db")
  /\ db' = "closing" /\ pc' = "closing_db"
  /\ UNCHANGED <<cur, runErr, signalVars, serverVars, stopVars, conn, exit>>

DBClosed ==
  /\ At("closing_db")
  /\ db' = "closed" /\ pc' = "release"
  /\ UNCHANGED <<cur, runErr, signalVars, serverVars, stopVars, conn, exit>>

(* The last deferred call is the stop function of NotifyContext.           *)
Release ==
  /\ At("release")
  /\ ctx' = "done" /\ handler' = FALSE
  /\ pc' = "return"
  /\ UNCHANGED <<cur, runErr, pending, serverVars, stopVars, conn, db, exit>>

Return ==
  /\ At("return")
  /\ Exit(IF runErr THEN "error" ELSE "ok")
  /\ UNCHANGED <<mainVars, signalVars, serverVars, stopVars, db>>

-----------------------------------------------------------------------------
(* The ListenAndServe goroutine of server s *)

Goes(s, from, to) ==
  /\ Running /\ srv[s] = from
  /\ srv' = [srv EXCEPT ![s] = to]
  /\ UNCHANGED <<mainVars, pending, inShutdown, cancelVar, gaveUp, conn, db, exit>>

Quiet == UNCHANGED <<ctx, handler, shutdownCtx, failures>>

CheckClosed(s) ==
  Goes(s, "spawned", IF inShutdown[s] THEN "closed" ELSE "binding") /\ Quiet

(* A bind error is returned as it is, even if the server is shutting down. *)
Bind(s) ==
  \E to \in {"bound", "failed"} : Goes(s, "binding", to) /\ Quiet

TrackListener(s) ==
  Goes(s, "bound", IF inShutdown[s] THEN "closed" ELSE "serving") /\ Quiet

(* The accept loop ends: with ErrServerClosed, which the goroutine ignores, *)
(* or with the error of a listener nobody closed.                           *)
ServeReturns(s) == inShutdown[s] /\ Goes(s, "serving", "closed") /\ Quiet

AcceptFails(s) == ~inShutdown[s] /\ Goes(s, "serving", "failed") /\ Quiet

(* "emit signal to kill server": cancel() is read without synchronisation  *)
(* with line 272, so after that line either binding may be seen.           *)
CallCancel(s) ==
  /\ Goes(s, "failed", "closed")
  /\ failures' = failures \cup {s}
  /\ \/ /\ ctx' = "done" /\ handler' = FALSE   \* the stop of NotifyContext
        /\ UNCHANGED shutdownCtx
     \/ /\ cancelVar = "cancelShutdown"
        /\ shutdownCtx' = IF shutdownCtx = "live" THEN "canceled" ELSE shutdownCtx
        /\ UNCHANGED <<ctx, handler>>

-----------------------------------------------------------------------------
(* Clients *)

Becomes(c, from, to) ==
  /\ Running /\ conn[c] = from
  /\ conn' = [conn EXCEPT ![c] = to]
  /\ UNCHANGED <<mainVars, signalVars, serverVars, stopVars, db, exit>>

(* Until its accept loop ends a server may still get a connection, even if  *)
(* its listener was just closed. A new connection counts as busy.           *)
Accept(c) ==
  /\ srv[Home[c]] = "serving"
  /\ Becomes(c, "none", "busy")

(* A server that shuts down does not keep a connection alive.              *)
Respond(c) ==
  \/ Becomes(c, "busy", "closed")
  \/ ~inShutdown[Home[c]] /\ Becomes(c, "busy", "idle")

(* The next request on a connection needs no listener.                     *)
NextRequest(c) == Becomes(c, "idle", "busy")

Hangup(c) == Becomes(c, "idle", "closed")

Client(c) == Accept(c) \/ Respond(c) \/ NextRequest(c) \/ Hangup(c)

-----------------------------------------------------------------------------
(* Signals and time *)

(* With the handler gone the default action of the signal ends the process. *)
Signal ==
  /\ Running
  /\ \/ handler /\ pending' = TRUE /\ UNCHANGED <<conn, exit>>
     \/ ~handler /\ Exit("killed") /\ UNCHANGED pending
  /\ UNCHANGED <<mainVars, ctx, handler, serverVars, stopVars, db>>

(* The goroutine of NotifyContext; it is gone once ctx is done.            *)
Relay ==
  /\ Running /\ pending /\ ctx = "live"
  /\ ctx' = "done" /\ pending' = FALSE
  /\ UNCHANGED <<mainVars, handler, serverVars, stopVars, conn, db, exit>>

Expire ==
  /\ Running /\ shutdownCtx = "live"
  /\ shutdownCtx' = "expired"
  /\ UNCHANGED <<mainVars, signalVars, serverVars, cancelVar, gaveUp, conn, db, exit>>

-----------------------------------------------------------------------------

Setup    == SetupSucceeds \/ SetupFails
Shutdown == WaitDone \/ ArmShutdown \/ SkipShutdown \/ BeginShutdown
              \/ JoinListener \/ DrainDone \/ DrainAborted
Deferred == Unwind \/ CloseDB \/ DBClosed \/ Release \/ Return
AfterUp  == Spawn \/ Shutdown \/ Deferred

Listener(s) == CheckClosed(s) \/ Bind(s) \/ TrackListener(s) \/ ServeReturns(s)
                 \/ CallCancel(s)

Terminated == ~Running /\ UNCHANGED vars

Next ==
  \/ Setup
  \/ AfterUp
  \/ \E s \in Servers : Listener(s) \/ AcceptFails(s)
  \/ \E c \in Conns : Client(c)
  \/ Signal \/ Relay \/ Expire
  \/ Terminated

(* The set-up calls that do not wait on the network, as notify's may.      *)
LocalSetup == pc # "notify" /\ Setup

(* Goroutines that can run do run, and timers fire. Nothing is assumed of  *)
(* the set-up of the notification services, which has no deadline, of      *)
(* signals, nor of clients, nor that a handler ever returns.               *)
Fairness ==
  /\ WF_vars(LocalSetup) /\ WF_vars(AfterUp)
  /\ \A s \in Servers : WF_vars(Listener(s))
  /\ WF_vars(Relay) /\ WF_vars(Expire)

Spec == Init /\ [][Next]_vars /\ Fairness

-----------------------------------------------------------------------------
(* Properties *)

Points == SetupSteps \cup
  {"spawn", "wait", "arm", "shutdown", "join", "drain", "unwind", "close_db",
   "closing_db", "release", "return"}

(* Every variable of run() and of its goroutines keeps to its domain.      *)
TypeOK ==
  /\ pc \in Points /\ cur \in Servers /\ runErr \in BOOLEAN
  /\ ctx \in {"live", "done"} /\ handler \in BOOLEAN /\ pending \in BOOLEAN
  /\ cancelVar \in {"stop", "cancelShutdown"}
  /\ shutdownCtx \in {"none", "live", "expired", "canceled"}
  /\ gaveUp \in [Servers -> {"no", "expired", "canceled"}]
  /\ srv \in [Servers -> {"off", "spawned", "binding", "bound", "serving",
                           "failed", "closed"}]
  /\ inShutdown \in [Servers -> BOOLEAN]
  /\ failures \subseteq Servers
  /\ conn \in [Conns -> {"none", "busy", "idle", "closed", "dropped"}]
  /\ db \in {"none", "open", "closing", "closed"}
  /\ exit \in {"running", "ok", "error", "killed"}

(* When db.Close begins, no request can begin any more: no server accepts,   *)
(* none ever will, however late its goroutine is scheduled, and no connection *)
(* is kept alive (the defer of main.go 153 against 201-287).                  *)
NoRequestAfterClose ==
  db \in {"closing", "closed"} =>
    /\ \A s \in Servers : /\ srv[s] # "serving"
                          /\ srv[s] # "off" => inShutdown[s]
    /\ \A c \in Conns : conn[c] # "idle"

(* The database is closed under a running request only if the Shutdown of its *)
(* server gave up on it: nothing else lets run() past that request.           *)
DrainedOrGaveUp ==
  db \in {"closing", "closed"} =>
    \A c \in Conns : conn[c] = "busy" => gaveUp[Home[c]] # "no"

(* Asked to stop by a signal, the process survives every further signal until *)
(* its database is closed. Only a listen error, whose cancel() is also the    *)
(* stop function of NotifyContext, exposes db.Close to a second signal.       *)
SecondSignalHarmless ==
  exit = "killed" /\ db \in {"open", "closing"} => failures # {}

(* Status 1 means that run() failed before any server was started; status 0  *)
(* that every configured server was told to shut down and the database is    *)
(* closed. A listen error at run time therefore ends with status 0.          *)
ExitStatus ==
  /\ exit = "error" => srv = [s \in Servers |-> "off"] /\ db \in {"none", "closed"}
  /\ exit = "ok" => (\A s \in Configured : inShutdown[s]) /\ db = "closed"

(* What the comments of main.go say of a listen error, "emit signal to kill  *)
(* server" (211): it does not touch the shutdown under way, so a Shutdown    *)
(* gives up on its requests at the graceful timeout and never before.        *)
GraceNotCutShort ==
  \A s \in Servers : gaveUp[s] # "canceled"

(* Once set up, a process whose context is done ends, whatever its requests  *)
(* do: the deadline bounds every Shutdown.                                   *)
StopsOnceUp ==
  (ctx = "done" /\ pc \notin SetupSteps) ~> ~Running

(* A signal at any step of the set-up, of which only database.New notices    *)
(* the context, is not forgotten: the process ends, if need be after it has  *)
(* come up, unless the set-up stays for ever in the call that sets up the    *)
(* notification services, which has no deadline (main.go 144).               *)
SignalDuringSetup ==
  (pending /\ pc \in SetupSteps) ~> (~Running \/ [](pc = "notify"))

(* A server that cannot listen, or loses its listener, takes the process     *)
(* down with it: no configured server is ever silently missing.              *)
ListenErrorStops ==
  \A s \in Servers : srv[s] = "failed" ~> ~Running

(* The shutdown as the clients of the main server see it: it drains once its *)
(* idle connections are closed.                                              *)
Stage ==
  IF ~Running THEN "stopped"
  ELSE IF pc \in {"closing_db", "release", "return"} THEN "closing"
  ELSE IF \/ pc \in {"drain", "unwind"} \/ (pc = "close_db" /\ ~runErr)
          \/ (pc \in {"shutdown", "join"} /\ cur # "app") THEN "draining"
  ELSE "up"

Contract ==
  INSTANCE GracefulStop WITH
    Requests <- Conns, stage <- Stage, inflight <- Busy("app"),
    patient <- gaveUp["app"] = "no"

(* The process keeps to the contract of GracefulStop.                        *)
KeepsContract == Contract!Spec
=============================================================================
