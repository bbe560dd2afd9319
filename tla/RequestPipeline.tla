--------------------------- MODULE RequestPipeline ---------------------------
(***************************************************************************)
(* A request on its way through the main server (internal/server): the     *)
(* middlewares Recover, RealIP, RealHost and AccessLog in that order, the  *)
(* mux, the secret key of the group, the handler, the error handler with   *)
(* its notification goroutine, and the way back.                           *)
(*                                                                         *)
(* A response is the status that went out first and the kinds of content   *)
(* written after it. Headers, bodies, addresses and hosts are abstracted,  *)
(* but whether the host and the path can be metric labels is not: the      *)
(* prometheus library panics on a label that is not valid UTF-8.           *)
(***************************************************************************)
EXTENDS Naturals

CONSTANTS
  Requests,
  ErrorCodes  \* codes of the httperror.HTTPErrors handlers return: the present
              \* ones return plain errors only, the error handler takes both

(* httperror has a constructor for each of 400, 404 and 500; New takes any   *)
(* code, and is taken to be given one of an error.                           *)
ASSUME CodesAssumption == ErrorCodes \subseteq 400..599

(* The codes the error handler and notFound look for a page of.            *)
Codes == {404, 500} \cup ErrorCodes

Routes == {"index", "health", "version", "robots", "files", "other", "unclean"}
Gated  == {"health", "version"}

VARIABLES
  accessLogging,  \* configuration.Logging.AccessLog
  debug,          \* the -debug flag
  pages,          \* the codes whose error page is among the embedded assets
  stage,      \* where the request is, see Stages
  route,      \* the pattern of the mux that matches
  key,        \* the secret header: "none", "wrong" or "right"
  badLabels,  \* which of "host" and "path" are not valid UTF-8
  status,     \* responseWriter.statusCode
  written,    \* responseWriter.written
  sent,       \* status on the wire, 0 if none yet
  body,       \* what was written: "content", "page" (of an error), "plain"
  error,      \* code of the error the handler returned, or 0
  counted,    \* status in the access log and the request metrics, or 0
  errorCount, \* the Errors metric was incremented
  notice      \* notification: "none", "pending", "delivered" or "failed"

inputVars  == <<accessLogging, debug, pages, route, key, badLabels>>
answerVars == <<status, written, sent, body>>
traceVars  == <<counted, errorCount, notice>>
vars       == <<stage, inputVars, answerVars, error, traceVars>>

Stages == {"new", "gate", "handler", "render", "failed", "page", "back",
           "panicking", "returned", "recovered", "done", "aborted"}

-----------------------------------------------------------------------------
(* The response writer *)

(* Seeded fault: the last status wins in the wrapper, not the first. *)
WriteHeader_LastWins(r, code) ==
  /\ status' = [status EXCEPT ![r] = code]
  /\ written' = [written EXCEPT ![r] = TRUE]
  /\ sent' = [sent EXCEPT ![r] = IF sent[r] = 0 THEN code ELSE sent[r]]

(* The first status wins. Without the access log the wrapper is net/http's, *)
(* which does the same.                                                    *)
WriteHeader(r, code) ==
  /\ status' = [status EXCEPT ![r] = IF written[r] THEN status[r] ELSE code]
  /\ written' = [written EXCEPT ![r] = TRUE]
  /\ sent' = [sent EXCEPT ![r] = IF written[r] THEN sent[r] ELSE code]

Write(r, parts) == body' = [body EXCEPT ![r] = @ \cup parts]

Goto(r, from, to) == stage[r] = from /\ stage' = [stage EXCEPT ![r] = to]

(* The handler writes a complete answer and returns nil.                   *)
Answers(r, code, parts) ==
  /\ Goto(r, "handler", "back")
  /\ WriteHeader(r, code) /\ Write(r, parts)
  /\ UNCHANGED <<inputVars, error, traceVars>>

(* The handler returns an error before it wrote anything.                  *)
Fails(r) ==
  /\ Goto(r, "handler", "failed")
  /\ \E code \in {500} \cup ErrorCodes : error' = [error EXCEPT ![r] = code]
  /\ UNCHANGED <<inputVars, answerVars, traceVars>>

-----------------------------------------------------------------------------
(* Arrival and secret key *)

Arrive(r) ==
  /\ \E to \in Routes : /\ route' = [route EXCEPT ![r] = to]
                        /\ Goto(r, "new", IF to \in Gated THEN "gate" ELSE "handler")
  /\ \E k \in {"none", "wrong", "right"} : key' = [key EXCEPT ![r] = k]
  /\ \E bad \in SUBSET {"host", "path"} : badLabels' = [badLabels EXCEPT ![r] = bad]
  /\ UNCHANGED <<accessLogging, debug, pages, answerVars, error, traceVars>>

(* Seeded fault: the empty answer is written, but "return" is missing. *)
Gate_FallsThrough(r) ==
  /\ Goto(r, "gate", "handler")
  /\ IF debug \/ key[r] = "right" THEN UNCHANGED answerVars
     ELSE WriteHeader(r, 200) /\ UNCHANGED body
  /\ UNCHANGED <<inputVars, error, traceVars>>

(* Without the key the answer is an empty 200.                             *)
Gate(r) ==
  /\ \/ /\ debug \/ key[r] = "right"
        /\ Goto(r, "gate", "handler") /\ UNCHANGED answerVars
     \/ /\ ~debug /\ key[r] # "right"
        /\ Goto(r, "gate", "back") /\ WriteHeader(r, 200) /\ UNCHANGED body
  /\ UNCHANGED <<inputVars, error, traceVars>>

-----------------------------------------------------------------------------
(* Handlers *)

(* The header goes out before the template is rendered.                    *)
Index(r) ==
  /\ route[r] = "index" /\ Goto(r, "handler", "render")
  /\ WriteHeader(r, 200)
  /\ UNCHANGED <<inputVars, body, error, traceVars>>

Render(r) ==
  /\ stage[r] = "render"
  /\ \/ Goto(r, "render", "back") /\ Write(r, {"content"}) /\ UNCHANGED error
     \/ /\ Goto(r, "render", "failed") /\ error' = [error EXCEPT ![r] = 500]
        /\ \E parts \in {{}, {"content"}} : Write(r, parts)
  /\ UNCHANGED <<inputVars, status, written, sent, traceVars>>

Health(r) == route[r] = "health" /\ Answers(r, 200, {"content"})

Version(r) == route[r] = "version" /\ (Answers(r, 200, {"content"}) \/ Fails(r))

(* http.ServeContent answers conditional and range requests.               *)
Robots(r) ==
  /\ route[r] = "robots"
  /\ \/ \E code \in {200, 206} : Answers(r, code, {"content"})
     \/ Answers(r, 304, {}) \/ Answers(r, 416, {"plain"}) \/ Fails(r)

(* A plain http.Handler: its errors are its own.                           *)
Files(r) ==
  /\ route[r] = "files"
  /\ \/ \E code \in {200, 206} : Answers(r, code, {"content"})
     \/ \E code \in {301, 304} : Answers(r, code, {})
     \/ \E code \in {403, 404, 416, 500} : Answers(r, code, {"plain"})

NotFound(r) ==
  /\ route[r] = "other"
  /\ IF 404 \in pages THEN Answers(r, 404, {"page"}) ELSE Fails(r)

(* A path the mux redirects to its clean form, or a target it refuses.      *)
Mux(r) ==
  /\ route[r] = "unclean"
  /\ Answers(r, 307, {"content"}) \/ Answers(r, 400, {})

Handler(r) ==
  \/ Index(r) \/ Render(r) \/ Health(r) \/ Version(r) \/ Robots(r) \/ Files(r)
  \/ NotFound(r) \/ Mux(r)

Panics(r) ==
  /\ \/ Goto(r, "handler", "panicking") /\ UNCHANGED body
     \/ Goto(r, "render", "panicking") /\ \E parts \in {{}, {"content"}} : Write(r, parts)
  /\ UNCHANGED <<inputVars, status, written, sent, error, traceVars>>

-----------------------------------------------------------------------------
(* The error handler *)

(* Seeded fault: the limit of 499 is taken for the first server error. *)
CountError_OffByOne(r) ==
  /\ Goto(r, "failed", IF "host" \in badLabels[r] THEN "panicking" ELSE "page")
  /\ errorCount' = [errorCount EXCEPT ![r] = "host" \notin badLabels[r]]
  /\ notice' = [notice EXCEPT ![r] = IF "host" \notin badLabels[r] /\ error[r] > 500 THEN "pending" ELSE @]
  /\ UNCHANGED <<inputVars, answerVars, error, counted>>

CountError(r) ==
  /\ stage[r] = "failed"
  /\ \/ /\ "host" \in badLabels[r]
        /\ Goto(r, "failed", "panicking") /\ UNCHANGED <<errorCount, notice>>
     \/ /\ "host" \notin badLabels[r]
        /\ Goto(r, "failed", "page")
        /\ errorCount' = [errorCount EXCEPT ![r] = TRUE]
        /\ notice' = [notice EXCEPT ![r] = IF error[r] > 499 THEN "pending" ELSE @]
  /\ UNCHANGED <<inputVars, answerVars, error, counted>>

(* The page of the error, or else that of a 500.                           *)
HasPage(r) == error[r] \in pages \/ 500 \in pages

(* Seeded faults. The page is written without its status. *)
ErrorPage_NoStatus(r) ==
  /\ Goto(r, "page", "back")
  /\ IF HasPage(r) THEN WriteHeader(r, 200) /\ Write(r, {"page"}) ELSE UNCHANGED answerVars
  /\ UNCHANGED <<inputVars, error, traceVars>>

(* The notification is sent by the goroutine of the request. *)
ErrorPage_Synchronous(r) ==
  /\ Goto(r, "page", "back") /\ notice[r] # "pending"
  /\ IF HasPage(r) THEN WriteHeader(r, error[r]) /\ Write(r, {"page"}) ELSE UNCHANGED answerVars
  /\ UNCHANGED <<inputVars, error, traceVars>>

(* http.Error with the code of the error; without a page to show, nothing. *)
ErrorPage(r) ==
  /\ Goto(r, "page", "back")
  /\ \/ HasPage(r) /\ WriteHeader(r, error[r]) /\ Write(r, {"page"})
     \/ ~HasPage(r) /\ UNCHANGED answerVars
  /\ UNCHANGED <<inputVars, error, traceVars>>

(* The goroutine of the notification outlives its request.                 *)
Notify(r) ==
  /\ notice[r] = "pending"
  /\ \E result \in {"delivered", "failed"} : notice' = [notice EXCEPT ![r] = result]
  /\ UNCHANGED <<stage, inputVars, answerVars, error, counted, errorCount>>

-----------------------------------------------------------------------------
(* The way back *)

(* What follows next.ServeHTTP is not deferred: a panic passes it by, and   *)
(* labels that are not valid make a panic of their own.                    *)
AccessLog(r) ==
  /\ stage[r] = "back"
  /\ \/ /\ accessLogging /\ badLabels[r] # {}
        /\ Goto(r, "back", "panicking") /\ UNCHANGED counted
     \/ /\ accessLogging /\ badLabels[r] = {}
        /\ Goto(r, "back", "returned")
        /\ counted' = [counted EXCEPT ![r] = status[r]]
     \/ /\ ~accessLogging
        /\ Goto(r, "back", "returned") /\ UNCHANGED counted
  /\ UNCHANGED <<inputVars, answerVars, error, errorCount, notice>>

(* Recover writes below the wrapper, to net/http's response writer.        *)
Recover(r) ==
  /\ Goto(r, "panicking", "recovered")
  /\ sent' = [sent EXCEPT ![r] = IF @ = 0 THEN 500 ELSE @]
  /\ Write(r, {"plain"})
  /\ UNCHANGED <<inputVars, status, written, error, traceVars>>

(* net/http ends the response, with status 200 if there is none.           *)
Finish(r) ==
  /\ Goto(r, "returned", "done") \/ Goto(r, "recovered", "aborted")
  /\ sent' = [sent EXCEPT ![r] = IF @ = 0 THEN 200 ELSE @]
  /\ UNCHANGED <<inputVars, status, written, body, error, traceVars>>

-----------------------------------------------------------------------------

Init ==
  /\ accessLogging \in BOOLEAN /\ debug \in BOOLEAN /\ pages \in SUBSET Codes
  /\ stage = [r \in Requests |-> "new"]
  /\ route = [r \in Requests |-> "other"] /\ key = [r \in Requests |-> "none"]
  /\ badLabels = [r \in Requests |-> {}]
  /\ status = [r \in Requests |-> 200] /\ written = [r \in Requests |-> FALSE]
  /\ sent = [r \in Requests |-> 0] /\ body = [r \in Requests |-> {}]
  /\ error = [r \in Requests |-> 0] /\ counted = [r \in Requests |-> 0]
  /\ errorCount = [r \in Requests |-> FALSE]
  /\ notice = [r \in Requests |-> "none"]

Serve(r) ==
  \/ Gate(r) \/ Handler(r) \/ CountError(r) \/ ErrorPage(r)
  \/ AccessLog(r) \/ Recover(r) \/ Finish(r)

Ended(r) == stage[r] \in {"done", "aborted"}

Terminated ==
  /\ \A r \in Requests : Ended(r) /\ notice[r] # "pending"
  /\ UNCHANGED vars

Next ==
  \/ \E r \in Requests : Arrive(r) \/ Serve(r) \/ Panics(r) \/ Notify(r)
  \/ Terminated

(* The goroutine of a request runs; its reads and writes are bounded by the *)
(* timeouts of the server. A notification is sent without any timeout, so  *)
(* nothing is assumed of it.                                               *)
Spec == Init /\ [][Next]_vars /\ \A r \in Requests : WF_vars(Serve(r))

-----------------------------------------------------------------------------
(* Properties *)

(* The variables keep to their domains.                                    *)
TypeOK ==
  /\ accessLogging \in BOOLEAN /\ debug \in BOOLEAN /\ pages \subseteq Codes
  /\ stage \in [Requests -> Stages] /\ route \in [Requests -> Routes]
  /\ key \in [Requests -> {"none", "wrong", "right"}]
  /\ badLabels \in [Requests -> SUBSET {"host", "path"}]
  /\ status \in [Requests -> 200..599] /\ written \in [Requests -> BOOLEAN]
  /\ sent \in [Requests -> {0} \cup 200..599]
  /\ body \in [Requests -> SUBSET {"content", "page", "plain"}]
  /\ error \in [Requests -> {0} \cup 400..599]
  /\ counted \in [Requests -> {0} \cup 200..599]
  /\ errorCount \in [Requests -> BOOLEAN]
  /\ notice \in [Requests -> {"none", "pending", "delivered", "failed"}]

(* The status in the log and the metrics (accesslog.go 91-115) is the one   *)
(* the client got, also when the handler had sent its header before it      *)
(* failed and the error handler tries to send another.                      *)
CountedAsSent ==
  \A r \in Requests : Ended(r) /\ counted[r] # 0 => counted[r] = sent[r]

(* Without the key, the group of server.go 160-171 neither runs a handler    *)
(* nor shows that there is one. The answer is an empty 200; only if its      *)
(* labels break the access log, Recover's text follows that status.          *)
NothingWithoutKey ==
  \A r \in Requests : route[r] \in Gated /\ key[r] # "right" /\ ~debug =>
    /\ error[r] = 0 /\ sent[r] \in {0, 200} /\ ~errorCount[r]
    /\ body[r] # {} => body[r] = {"plain"} /\ accessLogging /\ badLabels[r] # {}

(* A request that failed is answered with an error status, but for three     *)
(* cases, all of them a 200: the header of the index page was out before its *)
(* rendering failed; the labels of an answer that was out already broke the  *)
(* access log; there is no page for the error, and server.go 116-120 answers *)
(* without it nothing at all.                                                *)
FailureHasErrorStatus ==
  \A r \in Requests : Ended(r) /\ (error[r] # 0 \/ stage[r] = "aborted") =>
    \/ sent[r] >= 400
    \/ sent[r] = 200 /\ route[r] = "index"
    \/ accessLogging /\ badLabels[r] # {} /\ error[r] = 0
    \/ sent[r] = 200 /\ error[r] # 0 /\ pages \cap {error[r], 500} = {}

(* The operator is told of every error that a handler returned, whatever     *)
(* becomes of its answer: it is counted and, if it is a server error, a      *)
(* notification was started for it (server.go 85-104). The one exception is  *)
(* a host that is no valid label: the counter of line 85 panics, and the     *)
(* error is neither counted nor notified. Nothing else counts or notifies.   *)
ErrorsAreReported ==
  \A r \in Requests :
    /\ Ended(r) => (errorCount[r] <=> error[r] # 0 /\ "host" \notin badLabels[r])
    /\ notice[r] # "none" <=> errorCount[r] /\ error[r] \in 500..599

(* The comment of AccessLog (accesslog.go 46): it "logs all HTTP requests". *)
EveryRequestLogged ==
  \A r \in Requests : Ended(r) /\ accessLogging => counted[r] # 0

(* A request that arrived is answered even if the notification it causes     *)
(* hangs for ever.                                                           *)
AlwaysAnswered == \A r \in Requests : stage[r] # "new" ~> Ended(r)
=============================================================================
