------------------------------- MODULE Mailer -------------------------------
(***************************************************************************)
(* internal/mail: SendHTMLEmail, SendTXTEmail and SendMultipartEmail write *)
(* to the configured recipients one after the other, and send() tries each *)
(* of them up to Retries times over a new SMTP connection. Calls run       *)
(* concurrently and share nothing but the client, which opens a connection *)
(* per attempt; each has a context that its caller may cancel or that may  *)
(* run out. The SMTP server may take a message and yet not be heard of     *)
(* again: the attempt fails, the mail is in the inbox.                     *)
(***************************************************************************)
EXTENDS Integers

CONSTANTS
  Calls,
  Recipients,  \* number of entries of Mail.To
  Malformed,   \* those of them Msg.To refuses
  SenderValid, \* Msg.FromFormat takes Mail.From, which no validation asks for
  Retries      \* Mail.Retries, of which the validation only asks that it is not 0

ASSUME RecipientsAssumption == Recipients \in Nat /\ Malformed \subseteq 1..Recipients
ASSUME SenderAssumption == SenderValid \in BOOLEAN
ASSUME RetriesAssumption == Retries \in Int

Tos == 1..Recipients

VARIABLES
  pc,       \* "idle", "next" (recipient), "compose", "dial", "talk", "done"
  content,  \* the bodies that are not empty: a subset of {"text", "html"}
  parts,    \* the bodies the message has
  to,       \* position in Mail.To
  try,      \* the i of the retry loop
  ctx,      \* context of the call: "live", "canceled" or "expired"
  result,   \* "none", "ok" or "error"
  inbox     \* copies a recipient has of the mail of a call

vars == <<pc, content, parts, to, try, ctx, result, inbox>>

Goto(c, from, next) == pc[c] = from /\ pc' = [pc EXCEPT ![c] = next]

Return(c, res) == result' = [result EXCEPT ![c] = res]

-----------------------------------------------------------------------------
(* Seeded faults, not part of Next *)

(* The error of one recipient does not end the loop over all of them. *)
GiveUp_Continue(c) ==
  /\ Goto(c, "dial", "next") /\ try[c] > Retries
  /\ to' = [to EXCEPT ![c] = @ + 1]
  /\ UNCHANGED <<content, parts, try, ctx, result, inbox>>

(* A server that cannot be reached does not use up a try. *)
DialFails_NotCounted(c) ==
  /\ Goto(c, "dial", "dial") /\ try[c] <= Retries /\ ctx[c] # "canceled"
  /\ UNCHANGED <<content, parts, to, try, ctx, result, inbox>>

(* The loop variable is reset with every attempt. *)
Refused_Again(c) ==
  /\ Goto(c, "talk", "dial")
  /\ \/ UNCHANGED inbox
     \/ inbox' = [inbox EXCEPT ![c][to[c]] = @ + 1]
  /\ try' = [try EXCEPT ![c] = 1]
  /\ UNCHANGED <<content, parts, to, ctx, result>>

-----------------------------------------------------------------------------
(* The loop over the recipients *)

(* SendHTMLEmail and SendTXTEmail pass one body, SendMultipartEmail both;  *)
(* any of them may be empty.                                               *)
Call(c) ==
  /\ Goto(c, "idle", "next")
  /\ \E bodies \in SUBSET {"text", "html"} : content' = [content EXCEPT ![c] = bodies]
  /\ UNCHANGED <<parts, to, try, ctx, result, inbox>>

NextRecipient(c) ==
  /\ \/ to[c] <= Recipients /\ Goto(c, "next", "compose") /\ UNCHANGED result
     \/ to[c] > Recipients /\ Goto(c, "next", "done") /\ Return(c, "ok")
  /\ UNCHANGED <<content, parts, to, try, ctx, inbox>>

(* SetBodyString replaces the bodies a message has, it does not add one.   *)
Compose(c) ==
  /\ content[c] # {} /\ SenderValid /\ to[c] \notin Malformed
  /\ Goto(c, "compose", "dial")
  /\ parts' = [parts EXCEPT ![c] = IF "html" \in content[c] THEN {"html"} ELSE {"text"}]
  /\ try' = [try EXCEPT ![c] = 1]
  /\ UNCHANGED <<content, to, ctx, result, inbox>>

ComposeFails(c) ==
  /\ content[c] = {} \/ ~SenderValid \/ to[c] \in Malformed
  /\ Goto(c, "compose", "done") /\ Return(c, "error")
  /\ UNCHANGED <<content, parts, to, try, ctx, inbox>>

-----------------------------------------------------------------------------
(* The retry loop *)

(* The context is consulted when the connection is made, not later.        *)
Dial(c) ==
  /\ Goto(c, "dial", "talk") /\ try[c] <= Retries /\ ctx[c] = "live"
  /\ UNCHANGED <<content, parts, to, try, ctx, result, inbox>>

(* "bail out on cancel"                                                    *)
DialCanceled(c) ==
  /\ Goto(c, "dial", "done") /\ try[c] <= Retries /\ ctx[c] = "canceled"
  /\ Return(c, "error")
  /\ UNCHANGED <<content, parts, to, try, ctx, inbox>>

(* No connection, or no time left for one: the next try.                   *)
DialFails(c) ==
  /\ Goto(c, "dial", "dial") /\ try[c] <= Retries /\ ctx[c] # "canceled"
  /\ try' = [try EXCEPT ![c] = @ + 1]
  /\ UNCHANGED <<content, parts, to, ctx, result, inbox>>

Accepted(c) ==
  /\ Goto(c, "talk", "next")
  /\ inbox' = [inbox EXCEPT ![c][to[c]] = @ + 1]
  /\ to' = [to EXCEPT ![c] = @ + 1]
  /\ UNCHANGED <<content, parts, try, ctx, result>>

(* The server refuses, or the connection is lost before or after it took   *)
(* the message.                                                            *)
Refused(c) ==
  /\ Goto(c, "talk", "dial")
  /\ \/ UNCHANGED inbox
     \/ inbox' = [inbox EXCEPT ![c][to[c]] = @ + 1]
  /\ try' = [try EXCEPT ![c] = @ + 1]
  /\ UNCHANGED <<content, parts, to, ctx, result>>

(* Also the way out if Retries is negative.                                *)
GiveUp(c) ==
  /\ Goto(c, "dial", "done") /\ try[c] > Retries
  /\ Return(c, "error")
  /\ UNCHANGED <<content, parts, to, try, ctx, inbox>>

-----------------------------------------------------------------------------
(* The caller's context; once done it stays as it is.                      *)
ContextDone(c) ==
  /\ pc[c] # "done" /\ ctx[c] = "live"
  /\ \E why \in {"canceled", "expired"} : ctx' = [ctx EXCEPT ![c] = why]
  /\ UNCHANGED <<pc, content, parts, to, try, result, inbox>>

Init ==
  /\ pc = [c \in Calls |-> "idle"]
  /\ content = [c \in Calls |-> {}] /\ parts = [c \in Calls |-> {}]
  /\ to = [c \in Calls |-> 1] /\ try = [c \in Calls |-> 1]
  /\ ctx = [c \in Calls |-> "live"] /\ result = [c \in Calls |-> "none"]
  /\ inbox = [c \in Calls |-> [i \in Tos |-> 0]]

Send(c) ==
  \/ NextRecipient(c) \/ Compose(c) \/ ComposeFails(c) \/ Dial(c) \/ DialCanceled(c)
  \/ DialFails(c) \/ Accepted(c) \/ Refused(c) \/ GiveUp(c)

Terminated == (\A c \in Calls : pc[c] = "done") /\ UNCHANGED vars

Next == (\E c \in Calls : Call(c) \/ Send(c) \/ ContextDone(c)) \/ Terminated

(* An attempt ends, because Mail.Timeout bounds it.                        *)
Spec == Init /\ [][Next]_vars /\ \A c \in Calls : WF_vars(Send(c))

-----------------------------------------------------------------------------
(* Properties *)

(* The variables keep to their domains; nobody gets more copies than the   *)
(* server was tried.                                                       *)
TypeOK ==
  /\ pc \in [Calls -> {"idle", "next", "compose", "dial", "talk", "done"}]
  /\ content \in [Calls -> SUBSET {"text", "html"}]
  /\ parts \in [Calls -> SUBSET {"text", "html"}]
  /\ to \in [Calls -> 1..Recipients + 1]
  /\ try \in [Calls -> Nat \ {0}]
  /\ ctx \in [Calls -> {"live", "canceled", "expired"}]
  /\ result \in [Calls -> {"none", "ok", "error"}]
  /\ inbox \in [Calls -> [Tos -> Nat]]

(* nil means that every recipient has the mail; after an error, those before *)
(* the one that failed have it and those after it were not tried (mail.go    *)
(* 85-113), so a caller that repeats the call repeats their mail.            *)
ResultTells ==
  \A c \in Calls :
    /\ result[c] = "ok" => \A i \in Tos : inbox[c][i] > 0
    /\ \A i \in Tos : /\ i < to[c] => inbox[c][i] > 0
                      /\ i > to[c] => inbox[c][i] = 0

(* However the server behaves, a recipient gets at most Retries copies of a  *)
(* mail, and none if Retries is negative (138-148).                          *)
CopiesBounded ==
  \A c \in Calls, i \in Tos : inbox[c][i] = 0 \/ inbox[c][i] <= Retries

(* SendMultipartEmail (18, 105-113): what is sent has the two bodies it was  *)
(* given.                                                                    *)
MultipartHasBoth ==
  \A c \in Calls : pc[c] = "talk" => parts[c] = content[c]

(* Every call returns, whatever the server does.                             *)
CallsReturn == \A c \in Calls : pc[c] # "idle" ~> result[c] # "none"
=============================================================================
