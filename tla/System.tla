-------------------------------- MODULE System --------------------------------
(***************************************************************************)
(* The life of the process together with the goroutines nobody waits for:  *)
(* the error handler of server.go starts one per server error, to send a   *)
(* notification with context.Background(). The request that failed is      *)
(* answered meanwhile, its connection may be closed, and run() may shut    *)
(* everything down and return: Shutdown knows connections, not goroutines. *)
(*                                                                         *)
(* Lifecycle runs as it is; the notifications are a variable of their own. *)
(* Bound of the model: one server error per connection.                    *)
(***************************************************************************)
EXTENDS Lifecycle

VARIABLE notice  \* of a connection: "none", "pending", "settled" (sent, or its
                 \* error was logged) or "lost"

sysvars == <<vars, notice>>

SysInit == Init /\ notice = [c \in Conns |-> "none"]

(* A step of Lifecycle. With the process go the goroutines it has.         *)
Step(A) ==
  /\ A
  /\ notice' = IF exit' = "running" THEN notice
               ELSE [c \in Conns |-> IF notice[c] = "pending" THEN "lost" ELSE notice[c]]

-----------------------------------------------------------------------------
(* Seeded faults, not part of SysNext. *)

(* run() waits for the notifications before it returns. *)
Main_Waits ==
  Step(AfterUp) /\ (pc = "unwind" => \A c \in Conns : notice[c] # "pending")

-----------------------------------------------------------------------------

Main == Step(AfterUp)

Answered(c) == Step(Client(c))

(* The error handler: "go func" comes before the error page.               *)
Fail(c) ==
  /\ Running /\ conn[c] = "busy" /\ Home[c] = "app" /\ notice[c] = "none"
  /\ notice' = [notice EXCEPT ![c] = "pending"]
  /\ UNCHANGED vars

(* Send returns; an error of it is logged.                                 *)
Notify(c) ==
  /\ Running /\ notice[c] = "pending"
  /\ notice' = [notice EXCEPT ![c] = "settled"]
  /\ UNCHANGED vars

SysNext ==
  \/ Step(Setup) \/ Main
  \/ \E s \in Servers : Step(Listener(s)) \/ Step(AcceptFails(s))
  \/ \E c \in Conns : Answered(c) \/ Fail(c) \/ Notify(c)
  \/ Step(Signal) \/ Step(Relay) \/ Step(Expire)
  \/ Step(Terminated)

(* As in Lifecycle. Nothing is assumed of the notifications: the services  *)
(* may never answer.                                                       *)
SysSpec ==
  /\ SysInit /\ [][SysNext]_sysvars
  /\ WF_sysvars(Step(LocalSetup)) /\ WF_sysvars(Main)
  /\ \A s \in Servers : WF_sysvars(Step(Listener(s)))
  /\ WF_sysvars(Step(Relay)) /\ WF_sysvars(Step(Expire))

-----------------------------------------------------------------------------
(* Properties; those of Lifecycle are to hold as well, StopsOnceUp among    *)
(* them although a notification may hang for ever.                          *)

(* What is lost at exit is the notification alone: its request was answered, *)
(* unless the process was killed or the Shutdown of the server gave up on it. *)
LostAfterAnswer ==
  \A c \in Conns : notice[c] = "lost" /\ exit # "killed" =>
    conn[c] = "closed" \/ gaveUp["app"] # "no"
=============================================================================
