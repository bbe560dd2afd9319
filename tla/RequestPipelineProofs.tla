------------------------ MODULE RequestPipelineProofs ------------------------
(***************************************************************************)
(* Proofs about RequestPipeline for any set of requests and any error codes *)
(* the handlers return. Requests do not disturb each other, so everything   *)
(* is said of one request; what it says at each stage is the invariant.     *)
(***************************************************************************)
EXTENDS RequestPipeline, TLAPS

(* Nothing went out and nothing was told before a handler ran.              *)
Untouched(r) ==
  stage[r] \in {"new", "gate", "handler"} =>
    /\ ~written[r] /\ sent[r] = 0 /\ body[r] = {} /\ error[r] = 0
    /\ ~errorCount[r] /\ notice[r] = "none"

(* What the wrapper thinks was sent was sent; Recover writes past it.       *)
Wrapped(r) ==
  /\ ~written[r] => status[r] = 200
  /\ stage[r] \notin {"recovered", "aborted"} => (written[r] => sent[r] = status[r])
  /\ stage[r] \notin {"recovered", "aborted", "done"} => (~written[r] => sent[r] = 0)
  /\ stage[r] = "done" => sent[r] = status[r]
  /\ counted[r] # 0 => stage[r] \in {"returned", "done"} /\ counted[r] = status[r]

Locked(r) == route[r] \in Gated /\ key[r] # "right" /\ ~debug

(* A request without the key went no further than its empty answer.         *)
Gates(r) ==
  Locked(r) =>
    /\ stage[r] \in {"gate", "back", "panicking", "returned", "recovered", "done", "aborted"}
    /\ error[r] = 0 /\ ~errorCount[r]
    /\ stage[r] # "gate" => written[r] /\ sent[r] = 200
    /\ stage[r] \notin {"recovered", "aborted"} => body[r] = {}
    /\ body[r] \in {{}, {"plain"}}
    /\ stage[r] \in {"panicking", "recovered", "aborted"} => accessLogging /\ badLabels[r] # {}

HasErrorStatus(r) == sent[r] >= 400 \/ (sent[r] = 200 /\ route[r] = "index")

BrokenByLog(r) == accessLogging /\ badLabels[r] # {} /\ error[r] = 0

(* On its way to the client an error finds its status, or the index page's,  *)
(* unless there is no page for it.                                           *)
Failing(r) ==
  /\ stage[r] = "render" => route[r] = "index" /\ written[r] /\ sent[r] = 200 /\ error[r] = 0
  /\ stage[r] \in {"failed", "page"} => error[r] \in 400..599 /\ (sent[r] = 0 \/ HasErrorStatus(r))
  /\ stage[r] \in {"back", "returned"} =>
       error[r] = 0 \/ HasErrorStatus(r) \/ (sent[r] = 0 /\ ~HasPage(r))
  /\ stage[r] = "done" => error[r] = 0 \/ HasErrorStatus(r) \/ (sent[r] = 200 /\ ~HasPage(r))
  /\ stage[r] = "panicking" => sent[r] = 0 \/ HasErrorStatus(r) \/ BrokenByLog(r)
  /\ stage[r] \in {"recovered", "aborted"} => HasErrorStatus(r) \/ BrokenByLog(r)

(* The error handler told of an error before it answered, if it could.       *)
Reports(r) ==
  /\ stage[r] \in {"render", "failed"} => ~errorCount[r]
  /\ stage[r] \notin {"new", "gate", "handler", "render", "failed"} =>
       (errorCount[r] <=> error[r] # 0 /\ "host" \notin badLabels[r])
  /\ notice[r] # "none" <=> errorCount[r] /\ error[r] \in 500..599

Fine(r) == Untouched(r) /\ Wrapped(r) /\ Gates(r) /\ Failing(r) /\ Reports(r)

PInv == TypeOK /\ \A r \in Requests : Fine(r)

(* Nothing of a request changed.                                             *)
Same(r) ==
  /\ stage'[r] = stage[r] /\ route'[r] = route[r] /\ key'[r] = key[r]
  /\ badLabels'[r] = badLabels[r] /\ status'[r] = status[r] /\ written'[r] = written[r]
  /\ sent'[r] = sent[r] /\ body'[r] = body[r] /\ error'[r] = error[r]
  /\ counted'[r] = counted[r] /\ errorCount'[r] = errorCount[r] /\ notice'[r] = notice[r]

(* What a step of one request has to do.                                     *)
Keeps(r) ==
  /\ TypeOK' /\ Fine(r)' /\ \A q \in Requests \ {r} : Same(q)
  /\ accessLogging' = accessLogging /\ debug' = debug /\ pages' = pages

USE DEF Stages, Routes, Gated, HasPage, Goto, inputVars, answerVars, traceVars

-----------------------------------------------------------------------------
(* The steps of a request                                                    *)

(* What goes out keeps to its types.                                         *)
LEMMA Header ==
  ASSUME TypeOK, NEW r \in Requests, NEW code \in 200..599, WriteHeader(r, code)
  PROVE  /\ status' \in [Requests -> 200..599] /\ written' \in [Requests -> BOOLEAN]
         /\ sent' \in [Requests -> {0} \cup 200..599]
         /\ written'[r] = TRUE
         /\ status'[r] = (IF written[r] THEN status[r] ELSE code)
         /\ sent'[r] = (IF written[r] THEN sent[r] ELSE code)
<1>1. /\ status \in [Requests -> 200..599] /\ written \in [Requests -> BOOLEAN]
      /\ sent \in [Requests -> {0} \cup 200..599]
  BY DEF TypeOK
<1>2. code \in {0} \cup 200..599
  OBVIOUS
<1>3. QED
  BY <1>1, <1>2 DEF WriteHeader

LEMMA Content ==
  ASSUME TypeOK, NEW r \in Requests, NEW parts \in SUBSET {"content", "page", "plain"},
         Write(r, parts)
  PROVE  /\ body' \in [Requests -> SUBSET {"content", "page", "plain"}]
         /\ body'[r] = body[r] \cup parts
<1>1. body \in [Requests -> SUBSET {"content", "page", "plain"}]
  BY DEF TypeOK
<1>2. body[r] \cup parts \in SUBSET {"content", "page", "plain"}
  BY <1>1
<1>3. QED
  BY <1>1, <1>2 DEF Write

LEMMA Arriving == ASSUME PInv, NEW r \in Requests, Arrive(r) PROVE Keeps(r)
<1>1. Fine(r) /\ TypeOK
  BY DEF PInv
<1>2. TypeOK' /\ \A q \in Requests \ {r} : Same(q)
  BY <1>1 DEF Arrive, TypeOK, Same
<1>3. Fine(r)'
  BY <1>1 DEF Arrive, TypeOK, Fine, Untouched, Wrapped, Locked, Gates, HasErrorStatus, BrokenByLog, Failing, Reports
<1>4. QED
  BY <1>2, <1>3 DEF Arrive, Keeps

(* A locked request gets its empty answer.                                  *)
LEMMA Gating == ASSUME PInv, NEW r \in Requests, Gate(r) PROVE Keeps(r)
<1>1. Fine(r) /\ TypeOK
  BY DEF PInv
<1>2. TypeOK' /\ \A q \in Requests \ {r} : Same(q)
  <2>1. TypeOK'
    <3>1. CASE WriteHeader(r, 200) /\ UNCHANGED body
      <4>1. PICK code \in 200..599 : code = 200
        OBVIOUS
      <4>2. /\ status' \in [Requests -> 200..599] /\ written' \in [Requests -> BOOLEAN]
            /\ sent' \in [Requests -> {0} \cup 200..599]
            /\ written'[r] = TRUE
            /\ status'[r] = (IF written[r] THEN status[r] ELSE code)
            /\ sent'[r] = (IF written[r] THEN sent[r] ELSE code)
        <5>1. WriteHeader(r, code)
          BY <3>1, <4>1
        <5>2. QED
          BY <1>1, <5>1, Header
      <4>3. QED
        BY <1>1, <3>1, <4>2 DEF Gate, TypeOK
    <3>2. CASE UNCHANGED answerVars
      BY <1>1, <3>2 DEF Gate, TypeOK
    <3>3. QED
      BY <3>1, <3>2 DEF Gate
  <2>2. \A q \in Requests \ {r} : Same(q)
    BY <1>1 DEF Gate, WriteHeader, Write, TypeOK, Same
  <2>3. QED
    BY <2>1, <2>2
<1>3. Fine(r)'
  BY <1>1 DEF Gate, WriteHeader, Write, TypeOK, Fine, Untouched, Wrapped, Locked, Gates, HasErrorStatus,
     BrokenByLog, Failing, Reports
<1>4. QED
  BY <1>2, <1>3 DEF Gate, WriteHeader, Write, Keeps

(* A handler that runs is not behind the gate any more.                     *)
LEMMA Answering == ASSUME PInv, NEW r \in Requests, 
         NEW code \in 200..599, NEW parts \in SUBSET {"content", "page", "plain"},
         Answers(r, code, parts)
  PROVE  Keeps(r)
<1>1. Fine(r) /\ TypeOK
  BY DEF PInv
<1>2. TypeOK' /\ \A q \in Requests \ {r} : Same(q)
  <2>1. TypeOK'
    <3>1. /\ status' \in [Requests -> 200..599] /\ written' \in [Requests -> BOOLEAN]
          /\ sent' \in [Requests -> {0} \cup 200..599]
          /\ written'[r] = TRUE
          /\ status'[r] = (IF written[r] THEN status[r] ELSE code)
          /\ sent'[r] = (IF written[r] THEN sent[r] ELSE code)
      <4>1. WriteHeader(r, code)
        BY DEF Answers
      <4>2. QED
        BY <1>1, <4>1, Header
    <3>2. body' \in [Requests -> SUBSET {"content", "page", "plain"}]
      BY <1>1, Content DEF Answers
    <3>3. QED
      BY <1>1, <3>1, <3>2 DEF Answers, TypeOK
  <2>2. \A q \in Requests \ {r} : Same(q)
    BY <1>1 DEF Answers, WriteHeader, Write, TypeOK, Same
  <2>3. QED
    BY <2>1, <2>2
<1>3. Fine(r)'
  BY <1>1 DEF Answers, WriteHeader, Write, TypeOK, Fine, Untouched, Wrapped, Locked, Gates, HasErrorStatus,
     BrokenByLog, Failing, Reports
<1>4. QED
  BY <1>2, <1>3 DEF Answers, WriteHeader, Write, Keeps

(* A handler that fails first.                                              *)
LEMMA FailingFirst == ASSUME PInv, NEW r \in Requests, Fails(r) PROVE Keeps(r)
<1>1. Fine(r) /\ TypeOK
  BY DEF PInv
<1>2. TypeOK' /\ \A q \in Requests \ {r} : Same(q)
  BY <1>1, CodesAssumption DEF Fails, TypeOK, Same
<1>3. Fine(r)'
  BY <1>1, CodesAssumption DEF Fails, TypeOK, Fine, Untouched, Wrapped, Locked, Gates, HasErrorStatus,
     BrokenByLog, Failing, Reports
<1>4. QED
  BY <1>2, <1>3 DEF Fails, Keeps

(* The header of the index page.                                            *)
LEMMA Indexing == ASSUME PInv, NEW r \in Requests, Index(r) PROVE Keeps(r)
<1>1. Fine(r) /\ TypeOK
  BY DEF PInv
<1>2. TypeOK' /\ \A q \in Requests \ {r} : Same(q)
  BY <1>1 DEF Index, WriteHeader, Write, TypeOK, Same
<1>3. Fine(r)'
  BY <1>1 DEF Index, WriteHeader, Write, TypeOK, Fine, Untouched, Wrapped, Locked, Gates, HasErrorStatus,
     BrokenByLog, Failing, Reports
<1>4. QED
  BY <1>2, <1>3 DEF Index, WriteHeader, Write, Keeps

(* The page after it.                                                       *)
LEMMA Rendering == ASSUME PInv, NEW r \in Requests, Render(r) PROVE Keeps(r)
<1>1. Fine(r) /\ TypeOK
  BY DEF PInv
<1>2. TypeOK' /\ \A q \in Requests \ {r} : Same(q)
  <2>1. TypeOK'
    <3>1. body' \in [Requests -> SUBSET {"content", "page", "plain"}]
      BY <1>1, Content DEF Render
    <3>2. QED
      BY <1>1, <3>1 DEF Render, TypeOK
  <2>2. \A q \in Requests \ {r} : Same(q)
    BY <1>1 DEF Render, WriteHeader, Write, TypeOK, Same
  <2>3. QED
    BY <2>1, <2>2
<1>3. Fine(r)'
  BY <1>1 DEF Render, WriteHeader, Write, TypeOK, Fine, Untouched, Wrapped, Locked, Gates, HasErrorStatus,
     BrokenByLog, Failing, Reports
<1>4. QED
  BY <1>2, <1>3 DEF Render, WriteHeader, Write, Keeps

(* A panic in either.                                                       *)
LEMMA Panicking == ASSUME PInv, NEW r \in Requests, Panics(r) PROVE Keeps(r)
<1>1. Fine(r) /\ TypeOK
  BY DEF PInv
<1>2. TypeOK' /\ \A q \in Requests \ {r} : Same(q)
  BY <1>1 DEF Panics, WriteHeader, Write, TypeOK, Same
<1>3. Fine(r)'
  BY <1>1 DEF Panics, WriteHeader, Write, TypeOK, Fine, Untouched, Wrapped, Locked, Gates, HasErrorStatus,
     BrokenByLog, Failing, Reports
<1>4. QED
  BY <1>2, <1>3 DEF Panics, WriteHeader, Write, Keeps

(* The error handler: the metric and the notification,                      *)
LEMMA Counting == ASSUME PInv, NEW r \in Requests, CountError(r) PROVE Keeps(r)
<1>1. Fine(r) /\ TypeOK
  BY DEF PInv
<1>2. TypeOK' /\ \A q \in Requests \ {r} : Same(q)
  <2>1. TypeOK'
    <3>1. notice' \in [Requests -> {"none", "pending", "delivered", "failed"}]
      BY <1>1 DEF CountError, TypeOK
    <3>2. errorCount' \in [Requests -> BOOLEAN]
      <4>1. errorCount' = errorCount \/ errorCount' = [errorCount EXCEPT ![r] = TRUE]
        BY DEF CountError
      <4>2. errorCount \in [Requests -> BOOLEAN]
        BY <1>1 DEF TypeOK
      <4>3. QED
        BY <4>1, <4>2
    <3>3. QED
      BY <1>1, <3>1, <3>2 DEF CountError, TypeOK
  <2>2. \A q \in Requests \ {r} : Same(q)
    BY <1>1 DEF CountError, TypeOK, Same
  <2>3. QED
    BY <2>1, <2>2
<1>3. Fine(r)'
  BY <1>1 DEF CountError, TypeOK, Fine, Untouched, Wrapped, Locked, Gates, HasErrorStatus,
     BrokenByLog, Failing, Reports
<1>4. QED
  BY <1>2, <1>3 DEF CountError, Keeps

(* then the page, if there is one.                                          *)
LEMMA Paging == ASSUME PInv, NEW r \in Requests, ErrorPage(r) PROVE Keeps(r)
<1>1. Fine(r) /\ TypeOK
  BY DEF PInv
<1>2. error[r] \in 400..599 /\ error[r] \in 200..599 /\ stage[r] = "page" /\ stage'[r] = "back"
  <2>1. stage[r] = "page" /\ stage'[r] = "back"
    BY <1>1 DEF ErrorPage, TypeOK
  <2>2. error[r] \in 400..599
    BY <1>1, <2>1 DEF Fine, Failing
  <2>3. QED
    BY <2>1, <2>2
<1>3. UNCHANGED <<inputVars, error, traceVars>> /\ ~Locked(r) /\ ~Locked(r)'
  <2>1. UNCHANGED <<inputVars, error, traceVars>>
    BY DEF ErrorPage
  <2>2. ~Locked(r)
    BY <1>1, <1>2 DEF Fine, Gates
  <2>3. QED
    BY <2>1, <2>2 DEF Locked
<1>4. Untouched(r)' /\ Gates(r)' /\ Reports(r)'
  <2>1. Untouched(r)' /\ Gates(r)'
    BY <1>2, <1>3 DEF Untouched, Gates
  <2>2. Reports(r)'
    BY <1>1, <1>2, <1>3 DEF Fine, Reports
  <2>3. QED
    BY <2>1, <2>2
<1>5. CASE HasPage(r) /\ WriteHeader(r, error[r]) /\ Write(r, {"page"})
  <2>1. PICK code \in 200..599 : code = error[r]
    BY <1>2
  <2>2. PICK parts \in SUBSET {"content", "page", "plain"} : parts = {"page"}
    OBVIOUS
  <2>3. WriteHeader(r, code) /\ Write(r, parts)
    BY <1>5, <2>1, <2>2
  <2>4. /\ status' \in [Requests -> 200..599] /\ written' \in [Requests -> BOOLEAN]
        /\ sent' \in [Requests -> {0} \cup 200..599]
        /\ written'[r] = TRUE
        /\ status'[r] = (IF written[r] THEN status[r] ELSE code)
        /\ sent'[r] = (IF written[r] THEN sent[r] ELSE code)
    BY <1>1, <2>3, Header
  <2>5. body' \in [Requests -> SUBSET {"content", "page", "plain"}]
    BY <1>1, <2>3, Content
  <2>6. TypeOK'
    BY <1>1, <2>4, <2>5 DEF ErrorPage, TypeOK
  <2>7. \A q \in Requests \ {r} : Same(q)
    BY <1>1, <1>5 DEF ErrorPage, WriteHeader, Write, TypeOK, Same
  <2>8. Wrapped(r)'
    BY <1>1, <1>2, <1>3, <2>4 DEF Fine, Wrapped
  <2>9. Failing(r)'
    <3>1. error'[r] = error[r] /\ route'[r] = route[r] /\ status[r] \in 200..599
      BY <1>1, <1>3 DEF TypeOK
    <3>2. HasErrorStatus(r)'
      BY <1>1, <1>2, <2>1, <2>4, <3>1 DEF Fine, Wrapped, Failing, HasErrorStatus
    <3>3. QED
      BY <1>2, <3>2 DEF Failing
  <2>10. QED
    BY <1>3, <1>4, <2>6, <2>7, <2>8, <2>9 DEF Fine, Keeps
<1>6. CASE ~HasPage(r) /\ UNCHANGED answerVars
  <2>1. TypeOK' /\ \A q \in Requests \ {r} : Same(q)
    BY <1>1, <1>6 DEF ErrorPage, TypeOK, Same
  <2>2. Wrapped(r)' /\ Failing(r)'
    BY <1>1, <1>2, <1>3, <1>6 DEF Fine, Wrapped, Failing, HasErrorStatus
  <2>3. QED
    BY <1>3, <1>4, <2>1, <2>2 DEF Fine, Keeps
<1>7. QED
  BY <1>5, <1>6 DEF ErrorPage

(* The notification may end at any time.                                    *)
LEMMA Notifying == ASSUME PInv, NEW r \in Requests, Notify(r) PROVE Keeps(r)
<1>1. Fine(r) /\ TypeOK
  BY DEF PInv
<1>2. TypeOK' /\ \A q \in Requests \ {r} : Same(q)
  BY <1>1 DEF Notify, TypeOK, Same
<1>3. Fine(r)'
  BY <1>1 DEF Notify, TypeOK, Fine, Untouched, Wrapped, Locked, Gates, HasErrorStatus,
     BrokenByLog, Failing, Reports
<1>4. QED
  BY <1>2, <1>3 DEF Notify, Keeps

(* The way back.                                                            *)
LEMMA Logging == ASSUME PInv, NEW r \in Requests, AccessLog(r) PROVE Keeps(r)
<1>1. Fine(r) /\ TypeOK
  BY DEF PInv
<1>2. TypeOK' /\ \A q \in Requests \ {r} : Same(q)
  BY <1>1 DEF AccessLog, TypeOK, Same
<1>3. Fine(r)'
  BY <1>1 DEF AccessLog, TypeOK, Fine, Untouched, Wrapped, Locked, Gates, HasErrorStatus,
     BrokenByLog, Failing, Reports
<1>4. QED
  BY <1>2, <1>3 DEF AccessLog, Keeps

(* Recover writes past the wrapper.                                         *)
LEMMA Recovering == ASSUME PInv, NEW r \in Requests, Recover(r) PROVE Keeps(r)
<1>1. Fine(r) /\ TypeOK
  BY DEF PInv
<1>2. TypeOK' /\ \A q \in Requests \ {r} : Same(q)
  BY <1>1 DEF Recover, WriteHeader, Write, TypeOK, Same
<1>3. Fine(r)'
  BY <1>1 DEF Recover, WriteHeader, Write, TypeOK, Fine, Untouched, Wrapped, Locked, Gates, HasErrorStatus,
     BrokenByLog, Failing, Reports
<1>4. QED
  BY <1>2, <1>3 DEF Recover, WriteHeader, Write, Keeps

(* The end of the response.                                                 *)
LEMMA Finishing == ASSUME PInv, NEW r \in Requests, Finish(r) PROVE Keeps(r)
<1>1. Fine(r) /\ TypeOK
  BY DEF PInv
<1>2. TypeOK' /\ \A q \in Requests \ {r} : Same(q)
  BY <1>1 DEF Finish, TypeOK, Same
<1>3. Fine(r)'
  <2>1. sent'[r] = (IF sent[r] = 0 THEN 200 ELSE sent[r]) /\ status[r] \in 200..599
    BY <1>1 DEF Finish, TypeOK
  <2>2. UNCHANGED <<inputVars, status, written, body, error, traceVars>>
    BY DEF Finish
  <2>3. \/ stage[r] = "returned" /\ stage'[r] = "done"
        \/ stage[r] = "recovered" /\ stage'[r] = "aborted"
    BY <1>1 DEF Finish, TypeOK
  <2>4. Untouched(r)' /\ Reports(r)'
    BY <1>1, <2>2, <2>3 DEF Fine, Untouched, Reports
  <2>5. Wrapped(r)'
    BY <1>1, <2>1, <2>2, <2>3 DEF Fine, Wrapped
  <2>6. Gates(r)'
    BY <1>1, <2>1, <2>2, <2>3 DEF Fine, Gates, Locked
  <2>7. Failing(r)'
    BY <1>1, <2>1, <2>2, <2>3 DEF Fine, Failing, HasErrorStatus, BrokenByLog
  <2>8. QED
    BY <2>4, <2>5, <2>6, <2>7 DEF Fine
<1>4. QED
  BY <1>2, <1>3 DEF Finish, Keeps

LEMMA Serving == ASSUME PInv, NEW r \in Requests, Serve(r) PROVE Keeps(r)
<1>1. {200, 206, 301, 304, 307, 400, 403, 404, 416, 500} \subseteq 200..599
  OBVIOUS
<1>2. CASE Handler(r)
  <2>1. \/ Index(r) \/ Render(r) \/ Fails(r)
        \/ \E code \in 200..599, parts \in SUBSET {"content", "page", "plain"} : Answers(r, code, parts)
    BY <1>1, <1>2 DEF Handler, Health, Version, Robots, Files, NotFound, Mux
  <2>2. QED
    BY <2>1, Indexing, Rendering, FailingFirst, Answering
<1>3. QED
  BY <1>2, Gating, Counting, Paging, Logging, Recovering, Finishing DEF Serve

-----------------------------------------------------------------------------
(* The invariant and what it says                                            *)

LEMMA PInvStep == PInv /\ [Next]_vars => PInv'
<1> SUFFICES ASSUME PInv, [Next]_vars PROVE PInv'
  OBVIOUS
<1>1. ASSUME NEW r \in Requests, Keeps(r) PROVE PInv'
  <2>1. TypeOK' /\ Fine(r)'
    BY <1>1 DEF Keeps
  <2>2. ASSUME NEW q \in Requests \ {r} PROVE Fine(q)'
    <3>1. /\ Same(q) /\ accessLogging' = accessLogging /\ debug' = debug
          /\ pages' = pages /\ Fine(q)
      BY <1>1, <2>2 DEF Keeps, PInv
    <3>2. QED
      BY <3>1 DEF Same, Fine, Untouched, Wrapped, Locked, Gates, HasErrorStatus, BrokenByLog,
         Failing, Reports
  <2>3. QED
    BY <2>1, <2>2 DEF PInv
<1>2. CASE UNCHANGED vars
  BY <1>2 DEF vars, PInv, TypeOK, Fine, Untouched, Wrapped, Locked, Gates, HasErrorStatus,
     BrokenByLog, Failing, Reports
<1>3. QED
  BY <1>1, <1>2, Arriving, Serving, Panicking, Notifying DEF Next, Terminated

(* The inductive invariant.                                                  *)
THEOREM PipelineInvariance == Spec => []PInv
<1>1. Init => PInv
  BY DEF Init, PInv, TypeOK, Fine, Untouched, Wrapped, Locked, Gates, HasErrorStatus, BrokenByLog,
     Failing, Reports
<1>2. QED
  BY <1>1, PInvStep, PTL DEF Spec

(* The types of the request's state, whatever set of requests is under way.  *)
THEOREM PipelineTypes == Spec => []TypeOK
<1>1. PInv => TypeOK
  BY DEF PInv
<1>2. QED
  BY <1>1, PipelineInvariance, PTL

(* accesslog.go 91-115 count the status the client got, also when the error  *)
(* handler came too late to change it.                                       *)
THEOREM CountsWhatWasSent == Spec => []CountedAsSent
<1>1. PInv => CountedAsSent
  BY DEF PInv, Fine, Wrapped, CountedAsSent, Ended
<1>2. QED
  BY <1>1, PipelineInvariance, PTL

(* server.go 160-171 answer with an empty 200 without the key; only the text  *)
(* of Recover may follow it, after a panic of the access log.               *)
THEOREM GateHolds == Spec => []NothingWithoutKey
<1>1. PInv => NothingWithoutKey
  BY DEF PInv, Fine, Untouched, Gates, Locked, NothingWithoutKey
<1>2. QED
  BY <1>1, PipelineInvariance, PTL

(* No failed request is answered as if it had not failed, but those three:   *)
(* two whose status was out already and the one that has no page.            *)
THEOREM FailuresShow == Spec => []FailureHasErrorStatus
<1>1. PInv => FailureHasErrorStatus
  BY DEF PInv, TypeOK, Fine, Failing, HasErrorStatus, BrokenByLog, FailureHasErrorStatus, Ended
<1>2. QED
  BY <1>1, PipelineInvariance, PTL

(* server.go 84-104 count every error of a handler whose host is a valid      *)
(* label, and start a notification for exactly the server errors of these.   *)
THEOREM OperatorIsTold == Spec => []ErrorsAreReported
<1>1. PInv => ErrorsAreReported
  <2> SUFFICES ASSUME PInv, NEW r \in Requests
               PROVE  /\ Ended(r) => (errorCount[r] <=> error[r] # 0 /\ "host" \notin badLabels[r])
                      /\ notice[r] # "none" <=> errorCount[r] /\ error[r] \in 500..599
    BY DEF ErrorsAreReported
  <2>1. Reports(r)
    BY DEF PInv, Fine
  <2>2. Ended(r) => stage[r] \notin {"new", "gate", "handler", "render", "failed"}
    BY DEF Ended
  <2>3. QED
    BY <2>1, <2>2, Zenon DEF Reports
<1>2. QED
  BY <1>1, PipelineInvariance, PTL

-----------------------------------------------------------------------------
(* How far the access log can be trusted                                     *)

(* AccessLog writes its line when next.ServeHTTP returns to it.              *)
Logged(r) == accessLogging /\ stage[r] \in {"returned", "done"} => counted[r] # 0

(* A step of one request concerns that request, as the lemmas above found.   *)
LEMMA OneAtATime ==
  ASSUME PInv, Next
  PROVE  \/ UNCHANGED vars
         \/ \E r \in Requests :
              Keeps(r) /\ (Arrive(r) \/ Serve(r) \/ Panics(r) \/ Notify(r))
  BY Arriving, Serving, Panicking, Notifying DEF Next, Terminated

(* Only AccessLog leads to these stages, and nothing takes a line back.      *)
LEMMA LoggedStep == ASSUME TypeOK, NEW r \in Requests, Logged(r),
                           Arrive(r) \/ Serve(r) \/ Panics(r) \/ Notify(r)
                    PROVE  Logged(r)'
<1> USE DEF Logged
<1>1. CASE AccessLog(r)
  <2>1. status[r] \in 200..599
    BY DEF TypeOK
  <2>2. status[r] # 0
    BY <2>1
  <2>3. QED
    BY <1>1, <2>2 DEF AccessLog, TypeOK
<1>2. CASE Finish(r)
  BY <1>2 DEF Finish, TypeOK
<1>3. CASE Arrive(r)
  BY <1>3 DEF Arrive, TypeOK
<1>4. CASE Gate(r) \/ Panics(r) \/ Recover(r)
  <2>1. \/ Goto(r, "gate", "handler") \/ Goto(r, "gate", "back") \/ Goto(r, "panicking", "recovered")
        \/ Goto(r, "handler", "panicking") \/ Goto(r, "render", "panicking")
    BY <1>4 DEF Gate, Panics, Recover
  <2>2. QED
    BY <2>1 DEF TypeOK
<1>5. CASE CountError(r)
  BY <1>5 DEF CountError, TypeOK
<1>6. CASE ErrorPage(r)
  BY <1>6 DEF ErrorPage, TypeOK
<1>7. CASE Notify(r)
  BY <1>7 DEF Notify, TypeOK
<1>8. CASE Handler(r)
  <2>1. \/ Goto(r, "handler", "render") \/ Goto(r, "handler", "back") \/ Goto(r, "handler", "failed")
        \/ Goto(r, "render", "back") \/ Goto(r, "render", "failed")
    BY <1>8 DEF Handler, Index, Render, Health, Version, Robots, Files, NotFound, Mux, Answers, Fails
  <2>2. QED
    BY <2>1 DEF TypeOK
<1>9. QED
  BY <1>1, <1>2, <1>3, <1>4, <1>5, <1>6, <1>7, <1>8 DEF Serve

(* How far the run pipeline_logged goes: a request that the access log      *)
(* misses was ended by a panic, its handler's or that of its own labels     *)
(* (accesslog.go 46 and 87-115, recover.go 26). Every other is in it.       *)
THEOREM OnlyPanicsAreMissing ==
  Spec => [](\A r \in Requests : Ended(r) /\ accessLogging /\ counted[r] = 0 =>
               stage[r] = "aborted")
<1> DEFINE AllLogged == \A r \in Requests : Logged(r)
<1>1. Init => AllLogged
  BY DEF Init, Logged
<1>2. AllLogged => \A r \in Requests : Ended(r) /\ accessLogging /\ counted[r] = 0 =>
                     stage[r] = "aborted"
  BY DEF Logged, Ended
<1>3. PInv /\ AllLogged /\ [Next]_vars => AllLogged'
  <2> SUFFICES ASSUME PInv, AllLogged, [Next]_vars, NEW q \in Requests PROVE Logged(q)'
    OBVIOUS
  <2>1. ASSUME NEW r \in Requests, Keeps(r), Arrive(r) \/ Serve(r) \/ Panics(r) \/ Notify(r)
        PROVE  Logged(q)'
    <3>1. CASE q = r
      BY <2>1, <3>1, LoggedStep DEF PInv
    <3>2. CASE q # r
      BY <2>1, <3>2 DEF Keeps, Same, Logged
    <3>3. QED
      BY <3>1, <3>2
  <2>2. CASE UNCHANGED vars
    BY <2>2 DEF vars, Logged
  <2>3. QED
    BY <2>1, <2>2, OneAtATime
<1> HIDE DEF AllLogged
<1>4. QED
  BY <1>1, <1>2, <1>3, PipelineInvariance, PTL DEF Spec

-----------------------------------------------------------------------------
(* Why a request ends. That it does is a matter of fairness and left to the  *)
(* model checker; what it rests on is proved for any number of requests.     *)

(* The stages a request can still pass through, at most.                     *)
Ahead ==
  [new |-> 10, gate |-> 9, handler |-> 8, render |-> 7, failed |-> 6, page |-> 5,
   back |-> 4, panicking |-> 3, returned |-> 2, recovered |-> 2, done |-> 0, aborted |-> 0]

(* A request never goes back, whatever the others and the notifications do,  *)
(* and every step it takes itself leads on.                                  *)
GoesOn(r) ==
  /\ Ahead[stage'[r]] <= Ahead[stage[r]]
  /\ Arrive(r) \/ Serve(r) \/ Panics(r) => Ahead[stage'[r]] < Ahead[stage[r]]

(* The table of the stages, entry by entry.                                  *)
LEMMA AheadTable ==
  /\ Ahead["new"] = 10 /\ Ahead["gate"] = 9 /\ Ahead["handler"] = 8 /\ Ahead["render"] = 7
  /\ Ahead["failed"] = 6 /\ Ahead["page"] = 5 /\ Ahead["back"] = 4 /\ Ahead["panicking"] = 3
  /\ Ahead["returned"] = 2 /\ Ahead["recovered"] = 2 /\ Ahead["done"] = 0 /\ Ahead["aborted"] = 0
  BY DEF Ahead

(* Its own steps lead on.                                                    *)
LEMMA LeadsOn == ASSUME TypeOK, NEW r \in Requests, Arrive(r) \/ Serve(r) \/ Panics(r)
                 PROVE  Ahead[stage'[r]] < Ahead[stage[r]]
<1>1. ASSUME NEW from \in Stages, NEW to \in Stages, Goto(r, from, to), Ahead[to] < Ahead[from]
      PROVE  Ahead[stage'[r]] < Ahead[stage[r]]
  BY <1>1 DEF TypeOK
<1>2. CASE Arrive(r)
  <2>1. Goto(r, "new", "gate") \/ Goto(r, "new", "handler")
    BY <1>2 DEF Arrive
  <2>2. QED
    BY <1>1, <2>1, AheadTable
<1>3. CASE Gate(r) \/ Panics(r) \/ Recover(r) \/ Finish(r)
  BY <1>1, <1>3, AheadTable DEF Gate, Panics, Recover, Finish
<1>4. CASE CountError(r) \/ ErrorPage(r) \/ AccessLog(r)
  BY <1>1, <1>4, AheadTable DEF CountError, ErrorPage, AccessLog
<1>5. CASE Handler(r)
  <2>1. \/ Goto(r, "handler", "render") \/ Goto(r, "handler", "back") \/ Goto(r, "handler", "failed")
        \/ Goto(r, "render", "back") \/ Goto(r, "render", "failed")
    BY <1>5 DEF Handler, Index, Render, Health, Version, Robots, Files, NotFound, Mux, Answers, Fails
  <2>2. QED
    BY <1>1, <2>1, AheadTable
<1>6. QED
  BY <1>2, <1>3, <1>4, <1>5 DEF Serve

(* At most ten steps lead from the first byte of a request to its end, and   *)
(* neither another request nor a notification that hangs takes it back.      *)
THEOREM RequestsGoOn == Spec => [][\A r \in Requests : GoesOn(r)]_vars
<1>1. ASSUME PInv, Next, NEW r \in Requests, ~UNCHANGED vars PROVE GoesOn(r)
  <2>1. Ahead[stage[r]] \in Nat
    BY <1>1, AheadTable DEF PInv, TypeOK
  <2>2. CASE Arrive(r) \/ Serve(r) \/ Panics(r)
    <3>1. stage'[r] \in Stages
      BY <1>1, PInvStep DEF PInv, TypeOK
    <3>2. Ahead[stage'[r]] \in Nat
      BY <3>1, AheadTable
    <3>3. QED
      BY <1>1, <2>1, <2>2, <3>2, LeadsOn DEF PInv, GoesOn
  <2>3. CASE ~(Arrive(r) \/ Serve(r) \/ Panics(r))
    <3>1. ASSUME NEW q \in Requests, Keeps(q),
                 Arrive(q) \/ Serve(q) \/ Panics(q) \/ Notify(q)
          PROVE  stage'[r] = stage[r]
      <4>1. CASE q = r
        BY <2>3, <3>1, <4>1 DEF Notify
      <4>2. CASE q # r
        BY <3>1, <4>2 DEF Keeps, Same
      <4>3. QED
        BY <4>1, <4>2
    <3>2. stage'[r] = stage[r]
      BY <1>1, <3>1, OneAtATime
    <3>3. QED
      BY <2>1, <2>3, <3>2 DEF GoesOn
  <2>4. QED
    BY <2>2, <2>3
<1>2. PInv /\ [Next]_vars => [\A r \in Requests : GoesOn(r)]_vars
  BY <1>1
<1>3. QED
  BY <1>2, PipelineInvariance, PTL DEF Spec
=============================================================================
